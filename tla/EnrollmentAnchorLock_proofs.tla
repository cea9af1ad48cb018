--------------------- MODULE EnrollmentAnchorLock_proofs --------------------
(***************************************************************************)
(* Proofs about EnrollmentAnchorLock, for any number of callers, processes *)
(* and crashes and however process ids and inodes are used again: the lock *)
(* is exclusive, only a dead owner's file is moved aside, no path of a     *)
(* call leaves anything behind, and an abandoned mutex is preserved.       *)
(*                                                                         *)
(* And about SigningRecoveryHost, for any number of offers read, of losses *)
(* and of time limits: whatever fails, one handle asks for each step of    *)
(* the recovery once at most, and what it reports between calls agrees     *)
(* with HQ and with the device.                                            *)
(*                                                                         *)
(* And about PackageCopies, for any writers, files, transactions and       *)
(* faults: the copies are one snapshot or the journal explains them.       *)
(***************************************************************************)
EXTENDS EnrollmentAnchorLock, FiniteSetTheorems, WellFoundedInduction, TLAPS

CONSTANTS MaxReads, MaxFaults
VARIABLES phase, submitted, attempted, challenge, live, step, sent, line, answer, hq, local, faults

Host == INSTANCE SigningRecoveryHost

-----------------------------------------------------------------------------
(* The lock.                                                               *)

\* Every step keeps the state well formed.
LEMMA TypeStep == ASSUME TypeOK, Next, LockAssumption PROVE TypeOK'
  <1> USE LockAssumption DEF TypeOK, Positions
  <1>1. ASSUME NEW c \in Callers, Prepare(c) PROVE TypeOK'
    BY <1>1 DEF Prepare, GoTo, processes, Linked, seen, names
  <1>2. ASSUME NEW c \in Callers, Look(c) PROVE TypeOK'
    BY <1>2 DEF Look, GoTo, processes, See, TextOf, seen, names
  <1>3. ASSUME NEW c \in Callers, LookProbe(c) PROVE TypeOK'
    BY <1>3 DEF LookProbe, GoTo, processes, Forget, See, seen, names
  <1>4. ASSUME NEW c \in Callers, Busy(c) PROVE TypeOK'
    BY <1>4 DEF Busy, GoTo, processes, seen, names
  <1>5. ASSUME NEW c \in Callers, Take(c) PROVE TypeOK'
    BY <1>5 DEF Take, GoTo, processes, seen, names
  <1>6. ASSUME NEW c \in Callers, Blocked(c) PROVE TypeOK'
    BY <1>6 DEF Blocked, GoTo, processes, See, TextOf, seen, names
  <1>7. ASSUME NEW c \in Callers, BlockedProbe(c) PROVE TypeOK'
    BY <1>7 DEF BlockedProbe, GoTo, processes, Forget, See, seen, names
  <1>8. ASSUME NEW c \in Callers, Publish(c) PROVE TypeOK'
    BY <1>8 DEF Publish, GoTo, processes, seen, names
  <1>9. ASSUME NEW c \in Callers, Tidy(c) PROVE TypeOK'
    BY <1>9 DEF Tidy, GoTo, processes, LeaveFor, seen, names
  <1>10. ASSUME NEW c \in Callers, Inspect(c) PROVE TypeOK'
    BY <1>10 DEF Inspect, GoTo, processes, LeaveFor, See, seen, names
  <1>11. ASSUME NEW c \in Callers, InspectRead(c) PROVE TypeOK'
    BY <1>11 DEF InspectRead, GoTo, processes, LeaveFor, See, TextOf, seen, names
  <1>12. ASSUME NEW c \in Callers, InspectProbe(c) PROVE TypeOK'
    BY <1>12 DEF InspectProbe, GoTo, processes, LeaveFor, seen, names
  <1>13. ASSUME NEW c \in Callers, Quarantine(c) PROVE TypeOK'
    BY <1>13 DEF Quarantine, GoTo, processes, LeaveFor, seen, names
  <1>14. ASSUME NEW c \in Callers, Discard(c) PROVE TypeOK'
    BY <1>14 DEF Discard, GoTo, processes, LeaveFor, seen, names
  <1>15. ASSUME NEW c \in Callers, Leave(c) PROVE TypeOK'
    BY <1>15 DEF Leave, GoTo, processes, seen, names
  <1>16. ASSUME NEW c \in Callers, LeaveUnlink(c) PROVE TypeOK'
    BY <1>16 DEF LeaveUnlink, GoTo, processes, Forget, See, seen, names
  <1>17. ASSUME NEW c \in Callers, Release(c) PROVE TypeOK'
    BY <1>17 DEF Release, GoTo, processes, seen, names
  <1>18. ASSUME NEW c \in Callers, ReleaseCheck(c) PROVE TypeOK'
    BY <1>18 DEF ReleaseCheck, GoTo, processes, Return, seen, names
  <1>19. ASSUME NEW c \in Callers, ReleaseUnlink(c) PROVE TypeOK'
    BY <1>19 DEF ReleaseUnlink, GoTo, processes, Return, seen, names
  <1>20. ASSUME NEW c \in Callers, Withdraw(c) PROVE TypeOK'
    BY <1>20 DEF Withdraw, GoTo, processes, LeaveFor, Fenced, seen, names
  <1>21. ASSUME NEW c \in Callers, Undo(c) PROVE TypeOK'
    BY <1>21 DEF Undo, GoTo, processes, Return, Forget, See, seen, names
  <1>22. ASSUME NEW r \in Processes, Start(r) PROVE TypeOK'
    BY <1>22 DEF Start, Running, seen, names
  <1>23. ASSUME NEW r \in Processes, Exit(r) PROVE TypeOK'
    BY <1>23 DEF Exit, Inside, seen, names
  <1>24. ASSUME NEW r \in Processes, Crash(r) PROVE TypeOK'
    BY SMTT(60), <1>24 DEF Crash, Inside, seen, names
  <1> QED
    BY <1>1, <1>2, <1>3, <1>4, <1>5, <1>6, <1>7, <1>8, <1>9, <1>10, <1>11, <1>12, <1>13, <1>14, <1>15, <1>16,
       <1>17, <1>18, <1>19, <1>20, <1>21, <1>22, <1>23, <1>24 DEF Next, Step

\* A call keeps its file: new candidates take inodes without a name.
LEMMA FilesOwnedStep == ASSUME TypeOK, FilesOwned, Published, Next, LockAssumption PROVE FilesOwned'
  <1> USE LockAssumption DEF TypeOK, FilesOwned, Published, OwnFile, Calling, HasLock, HasMutex, Releasing,
      UnderMutex
  <1>1. ASSUME NEW c \in Callers, Prepare(c) PROVE FilesOwned'
    BY <1>1 DEF Prepare, GoTo, processes, Linked, seen, names
  <1>2. ASSUME NEW c \in Callers, Look(c) PROVE FilesOwned'
    BY <1>2 DEF Look, GoTo, processes, See, TextOf, seen, names
  <1>3. ASSUME NEW c \in Callers, LookProbe(c) PROVE FilesOwned'
    BY <1>3 DEF LookProbe, GoTo, processes, Forget, See, seen, names
  <1>4. ASSUME NEW c \in Callers, Busy(c) PROVE FilesOwned'
    BY <1>4 DEF Busy, GoTo, processes, seen, names
  <1>5. ASSUME NEW c \in Callers, Take(c) PROVE FilesOwned'
    BY <1>5 DEF Take, GoTo, processes, seen, names
  <1>6. ASSUME NEW c \in Callers, Blocked(c) PROVE FilesOwned'
    BY <1>6 DEF Blocked, GoTo, processes, See, TextOf, seen, names
  <1>7. ASSUME NEW c \in Callers, BlockedProbe(c) PROVE FilesOwned'
    BY <1>7 DEF BlockedProbe, GoTo, processes, Forget, See, seen, names
  <1>8. ASSUME NEW c \in Callers, Publish(c) PROVE FilesOwned'
    BY <1>8 DEF Publish, GoTo, processes, seen, names
  <1>9. ASSUME NEW c \in Callers, Tidy(c) PROVE FilesOwned'
    BY <1>9 DEF Tidy, GoTo, processes, LeaveFor, seen, names
  <1>10. ASSUME NEW c \in Callers, Inspect(c) PROVE FilesOwned'
    BY <1>10 DEF Inspect, GoTo, processes, LeaveFor, See, seen, names
  <1>11. ASSUME NEW c \in Callers, InspectRead(c) PROVE FilesOwned'
    BY <1>11 DEF InspectRead, GoTo, processes, LeaveFor, See, TextOf, seen, names
  <1>12. ASSUME NEW c \in Callers, InspectProbe(c) PROVE FilesOwned'
    BY <1>12 DEF InspectProbe, GoTo, processes, LeaveFor, seen, names
  <1>13. ASSUME NEW c \in Callers, Quarantine(c) PROVE FilesOwned'
    BY <1>13 DEF Quarantine, GoTo, processes, LeaveFor, seen, names
  <1>14. ASSUME NEW c \in Callers, Discard(c) PROVE FilesOwned'
    BY <1>14 DEF Discard, GoTo, processes, LeaveFor, seen, names
  <1>15. ASSUME NEW c \in Callers, Leave(c) PROVE FilesOwned'
    BY <1>15 DEF Leave, GoTo, processes, seen, names
  <1>16. ASSUME NEW c \in Callers, LeaveUnlink(c) PROVE FilesOwned'
    BY <1>16 DEF LeaveUnlink, GoTo, processes, Forget, See, seen, names
  <1>17. ASSUME NEW c \in Callers, Release(c) PROVE FilesOwned'
    BY <1>17 DEF Release, GoTo, processes, seen, names
  <1>18. ASSUME NEW c \in Callers, ReleaseCheck(c) PROVE FilesOwned'
    BY <1>18 DEF ReleaseCheck, GoTo, processes, Return, seen, names
  <1>19. ASSUME NEW c \in Callers, ReleaseUnlink(c) PROVE FilesOwned'
    BY <1>19 DEF ReleaseUnlink, GoTo, processes, Return, seen, names
  <1>20. ASSUME NEW c \in Callers, Withdraw(c) PROVE FilesOwned'
    <2>1. CASE pc[c] \in UnderMutex
      BY SMTT(60), <1>20, <2>1 DEF Withdraw, GoTo, processes, LeaveFor, Fenced, seen, names
    <2>2. CASE pc[c] \in Fenced \ UnderMutex
      BY <1>20, <2>2 DEF Withdraw, GoTo, processes, LeaveFor, Fenced, seen, names
    <2> QED
      BY <1>20, <2>1, <2>2 DEF Withdraw
  <1>21. ASSUME NEW c \in Callers, Undo(c) PROVE FilesOwned'
    BY <1>21 DEF Undo, GoTo, processes, Return, Forget, See, seen, names
  <1>22. ASSUME NEW r \in Processes, Start(r) PROVE FilesOwned'
    BY <1>22 DEF Start, Running, seen, names
  <1>23. ASSUME NEW r \in Processes, Exit(r) PROVE FilesOwned'
    BY <1>23 DEF Exit, Inside, seen, names
  <1>24. ASSUME NEW r \in Processes, Crash(r) PROVE FilesOwned'
    BY <1>24 DEF Crash, Inside, seen, names
  <1> QED
    BY <1>1, <1>2, <1>3, <1>4, <1>5, <1>6, <1>7, <1>8, <1>9, <1>10, <1>11, <1>12, <1>13, <1>14, <1>15, <1>16,
       <1>17, <1>18, <1>19, <1>20, <1>21, <1>22, <1>23, <1>24 DEF Next, Step

\* The lock is published under the mutex, and only its owner removes it.
LEMMA PublishedStep == ASSUME TypeOK, FilesOwned, Published, StillAsSeen, Next, LockAssumption PROVE Published'
  <1> USE LockAssumption DEF TypeOK, FilesOwned, Published, StillAsSeen, OwnFile, Calling, HasLock, HasMutex,
      Releasing, UnderMutex
  <1>1. ASSUME NEW c \in Callers, Prepare(c) PROVE Published'
    BY <1>1 DEF Prepare, GoTo, processes, Linked, seen, names
  <1>2. ASSUME NEW c \in Callers, Look(c) PROVE Published'
    BY <1>2 DEF Look, GoTo, processes, See, TextOf, seen, names
  <1>3. ASSUME NEW c \in Callers, LookProbe(c) PROVE Published'
    BY <1>3 DEF LookProbe, GoTo, processes, Forget, See, seen, names
  <1>4. ASSUME NEW c \in Callers, Busy(c) PROVE Published'
    BY <1>4 DEF Busy, GoTo, processes, seen, names
  <1>5. ASSUME NEW c \in Callers, Take(c) PROVE Published'
    BY <1>5 DEF Take, GoTo, processes, seen, names
  <1>6. ASSUME NEW c \in Callers, Blocked(c) PROVE Published'
    BY <1>6 DEF Blocked, GoTo, processes, See, TextOf, seen, names
  <1>7. ASSUME NEW c \in Callers, BlockedProbe(c) PROVE Published'
    BY <1>7 DEF BlockedProbe, GoTo, processes, Forget, See, seen, names
  <1>8. ASSUME NEW c \in Callers, Publish(c) PROVE Published'
    BY <1>8 DEF Publish, GoTo, processes, seen, names
  <1>9. ASSUME NEW c \in Callers, Tidy(c) PROVE Published'
    BY <1>9 DEF Tidy, GoTo, processes, LeaveFor, seen, names
  <1>10. ASSUME NEW c \in Callers, Inspect(c) PROVE Published'
    BY <1>10 DEF Inspect, GoTo, processes, LeaveFor, See, seen, names
  <1>11. ASSUME NEW c \in Callers, InspectRead(c) PROVE Published'
    BY <1>11 DEF InspectRead, GoTo, processes, LeaveFor, See, TextOf, seen, names
  <1>12. ASSUME NEW c \in Callers, InspectProbe(c) PROVE Published'
    BY <1>12 DEF InspectProbe, GoTo, processes, LeaveFor, seen, names
  <1>13. ASSUME NEW c \in Callers, Quarantine(c) PROVE Published'
    BY <1>13 DEF Quarantine, GoTo, processes, LeaveFor, seen, names
  <1>14. ASSUME NEW c \in Callers, Discard(c) PROVE Published'
    BY <1>14 DEF Discard, GoTo, processes, LeaveFor, seen, names
  <1>15. ASSUME NEW c \in Callers, Leave(c) PROVE Published'
    BY <1>15 DEF Leave, GoTo, processes, seen, names
  <1>16. ASSUME NEW c \in Callers, LeaveUnlink(c) PROVE Published'
    BY <1>16 DEF LeaveUnlink, GoTo, processes, Forget, See, seen, names
  <1>17. ASSUME NEW c \in Callers, Release(c) PROVE Published'
    BY <1>17 DEF Release, GoTo, processes, seen, names
  <1>18. ASSUME NEW c \in Callers, ReleaseCheck(c) PROVE Published'
    BY <1>18 DEF ReleaseCheck, GoTo, processes, Return, seen, names
  <1>19. ASSUME NEW c \in Callers, ReleaseUnlink(c) PROVE Published'
    BY <1>19 DEF ReleaseUnlink, GoTo, processes, Return, seen, names
  <1>20. ASSUME NEW c \in Callers, Withdraw(c) PROVE Published'
    BY <1>20 DEF Withdraw, GoTo, processes, LeaveFor, Fenced, seen, names
  <1>21. ASSUME NEW c \in Callers, Undo(c) PROVE Published'
    BY <1>21 DEF Undo, GoTo, processes, Return, Forget, See, seen, names
  <1>22. ASSUME NEW r \in Processes, Start(r) PROVE Published'
    BY <1>22 DEF Start, Running, seen, names
  <1>23. ASSUME NEW r \in Processes, Exit(r) PROVE Published'
    BY <1>23 DEF Exit, Inside, seen, names
  <1>24. ASSUME NEW r \in Processes, Crash(r) PROVE Published'
    BY <1>24 DEF Crash, Inside, seen, names
  <1> QED
    BY <1>1, <1>2, <1>3, <1>4, <1>5, <1>6, <1>7, <1>8, <1>9, <1>10, <1>11, <1>12, <1>13, <1>14, <1>15, <1>16,
       <1>17, <1>18, <1>19, <1>20, <1>21, <1>22, <1>23, <1>24 DEF Next, Step

\* While a caller works under the mutex the lock can only be released.
LEMMA StillAsSeenStep == ASSUME TypeOK, FilesOwned, Published, StillAsSeen, Next, LockAssumption PROVE StillAsSeen'
  <1> USE LockAssumption DEF TypeOK, FilesOwned, Published, StillAsSeen, OwnFile, Calling, HasLock, HasMutex,
      Releasing, UnderMutex
  <1>1. ASSUME NEW c \in Callers, Prepare(c) PROVE StillAsSeen'
    BY <1>1 DEF Prepare, GoTo, processes, Linked, seen, names
  <1>2. ASSUME NEW c \in Callers, Look(c) PROVE StillAsSeen'
    BY <1>2 DEF Look, GoTo, processes, See, TextOf, seen, names
  <1>3. ASSUME NEW c \in Callers, LookProbe(c) PROVE StillAsSeen'
    BY <1>3 DEF LookProbe, GoTo, processes, Forget, See, seen, names
  <1>4. ASSUME NEW c \in Callers, Busy(c) PROVE StillAsSeen'
    BY <1>4 DEF Busy, GoTo, processes, seen, names
  <1>5. ASSUME NEW c \in Callers, Take(c) PROVE StillAsSeen'
    BY <1>5 DEF Take, GoTo, processes, seen, names
  <1>6. ASSUME NEW c \in Callers, Blocked(c) PROVE StillAsSeen'
    BY <1>6 DEF Blocked, GoTo, processes, See, TextOf, seen, names
  <1>7. ASSUME NEW c \in Callers, BlockedProbe(c) PROVE StillAsSeen'
    BY <1>7 DEF BlockedProbe, GoTo, processes, Forget, See, seen, names
  <1>8. ASSUME NEW c \in Callers, Publish(c) PROVE StillAsSeen'
    BY <1>8 DEF Publish, GoTo, processes, seen, names
  <1>9. ASSUME NEW c \in Callers, Tidy(c) PROVE StillAsSeen'
    BY <1>9 DEF Tidy, GoTo, processes, LeaveFor, seen, names
  <1>10. ASSUME NEW c \in Callers, Inspect(c) PROVE StillAsSeen'
    BY <1>10 DEF Inspect, GoTo, processes, LeaveFor, See, seen, names
  <1>11. ASSUME NEW c \in Callers, InspectRead(c) PROVE StillAsSeen'
    BY <1>11 DEF InspectRead, GoTo, processes, LeaveFor, See, TextOf, seen, names
  <1>12. ASSUME NEW c \in Callers, InspectProbe(c) PROVE StillAsSeen'
    <2>1. CASE Alive(seenPid[c])
      BY <1>12, <2>1 DEF InspectProbe, GoTo, processes, LeaveFor, seen, names
    <2>2. CASE ~Alive(seenPid[c])
      <3>1. ASSUME NEW d \in Callers, Calling(d), lock = own[d] PROVE FALSE
        <4>1. text[lock] = pid[ProcessOf[d]] /\ pid[ProcessOf[d]] # None
          BY <3>1
        <4>2. lock # None /\ text[lock] = seenPid[c]
          BY <1>12, <3>1 DEF InspectProbe
        <4>3. ProcessOf[d] \in Processes
          OBVIOUS
        <4> QED
          BY <2>2, <4>1, <4>2, <4>3 DEF Alive, Running
      <3> QED
        BY <1>12, <2>2, <3>1 DEF InspectProbe, GoTo, processes, LeaveFor, seen, names
    <2> QED
      BY <2>1, <2>2
  <1>13. ASSUME NEW c \in Callers, Quarantine(c) PROVE StillAsSeen'
    BY <1>13 DEF Quarantine, GoTo, processes, LeaveFor, seen, names
  <1>14. ASSUME NEW c \in Callers, Discard(c) PROVE StillAsSeen'
    BY <1>14 DEF Discard, GoTo, processes, LeaveFor, seen, names
  <1>15. ASSUME NEW c \in Callers, Leave(c) PROVE StillAsSeen'
    BY <1>15 DEF Leave, GoTo, processes, seen, names
  <1>16. ASSUME NEW c \in Callers, LeaveUnlink(c) PROVE StillAsSeen'
    BY <1>16 DEF LeaveUnlink, GoTo, processes, Forget, See, seen, names
  <1>17. ASSUME NEW c \in Callers, Release(c) PROVE StillAsSeen'
    BY <1>17 DEF Release, GoTo, processes, seen, names
  <1>18. ASSUME NEW c \in Callers, ReleaseCheck(c) PROVE StillAsSeen'
    BY <1>18 DEF ReleaseCheck, GoTo, processes, Return, seen, names
  <1>19. ASSUME NEW c \in Callers, ReleaseUnlink(c) PROVE StillAsSeen'
    BY <1>19 DEF ReleaseUnlink, GoTo, processes, Return, seen, names
  <1>20. ASSUME NEW c \in Callers, Withdraw(c) PROVE StillAsSeen'
    BY <1>20 DEF Withdraw, GoTo, processes, LeaveFor, Fenced, seen, names
  <1>21. ASSUME NEW c \in Callers, Undo(c) PROVE StillAsSeen'
    BY <1>21 DEF Undo, GoTo, processes, Return, Forget, See, seen, names
  <1>22. ASSUME NEW r \in Processes, Start(r) PROVE StillAsSeen'
    BY <1>22 DEF Start, Running, seen, names
  <1>23. ASSUME NEW r \in Processes, Exit(r) PROVE StillAsSeen'
    BY <1>23 DEF Exit, Inside, seen, names
  <1>24. ASSUME NEW r \in Processes, Crash(r) PROVE StillAsSeen'
    BY <1>24 DEF Crash, Inside, seen, names
  <1> QED
    BY <1>1, <1>2, <1>3, <1>4, <1>5, <1>6, <1>7, <1>8, <1>9, <1>10, <1>11, <1>12, <1>13, <1>14, <1>15, <1>16,
       <1>17, <1>18, <1>19, <1>20, <1>21, <1>22, <1>23, <1>24 DEF Next, Step

\* Every path removes what its call has published.
LEMMA NothingLeftStep == ASSUME TypeOK, FilesOwned, Published, NothingLeftBehind, Next, LockAssumption PROVE NothingLeftBehind'
  <1> USE LockAssumption DEF TypeOK, FilesOwned, Published, NothingLeftBehind, OwnFile, Calling, HasLock, HasMutex,
      Releasing, UnderMutex
  <1>1. ASSUME NEW c \in Callers, Prepare(c) PROVE NothingLeftBehind'
    BY <1>1 DEF Prepare, GoTo, processes, Linked, seen, names
  <1>2. ASSUME NEW c \in Callers, Look(c) PROVE NothingLeftBehind'
    BY <1>2 DEF Look, GoTo, processes, See, TextOf, seen, names
  <1>3. ASSUME NEW c \in Callers, LookProbe(c) PROVE NothingLeftBehind'
    BY <1>3 DEF LookProbe, GoTo, processes, Forget, See, seen, names
  <1>4. ASSUME NEW c \in Callers, Busy(c) PROVE NothingLeftBehind'
    BY <1>4 DEF Busy, GoTo, processes, seen, names
  <1>5. ASSUME NEW c \in Callers, Take(c) PROVE NothingLeftBehind'
    BY <1>5 DEF Take, GoTo, processes, seen, names
  <1>6. ASSUME NEW c \in Callers, Blocked(c) PROVE NothingLeftBehind'
    BY <1>6 DEF Blocked, GoTo, processes, See, TextOf, seen, names
  <1>7. ASSUME NEW c \in Callers, BlockedProbe(c) PROVE NothingLeftBehind'
    BY <1>7 DEF BlockedProbe, GoTo, processes, Forget, See, seen, names
  <1>8. ASSUME NEW c \in Callers, Publish(c) PROVE NothingLeftBehind'
    BY <1>8 DEF Publish, GoTo, processes, seen, names
  <1>9. ASSUME NEW c \in Callers, Tidy(c) PROVE NothingLeftBehind'
    BY <1>9 DEF Tidy, GoTo, processes, LeaveFor, seen, names
  <1>10. ASSUME NEW c \in Callers, Inspect(c) PROVE NothingLeftBehind'
    BY <1>10 DEF Inspect, GoTo, processes, LeaveFor, See, seen, names
  <1>11. ASSUME NEW c \in Callers, InspectRead(c) PROVE NothingLeftBehind'
    BY <1>11 DEF InspectRead, GoTo, processes, LeaveFor, See, TextOf, seen, names
  <1>12. ASSUME NEW c \in Callers, InspectProbe(c) PROVE NothingLeftBehind'
    BY <1>12 DEF InspectProbe, GoTo, processes, LeaveFor, seen, names
  <1>13. ASSUME NEW c \in Callers, Quarantine(c) PROVE NothingLeftBehind'
    BY <1>13 DEF Quarantine, GoTo, processes, LeaveFor, seen, names
  <1>14. ASSUME NEW c \in Callers, Discard(c) PROVE NothingLeftBehind'
    BY <1>14 DEF Discard, GoTo, processes, LeaveFor, seen, names
  <1>15. ASSUME NEW c \in Callers, Leave(c) PROVE NothingLeftBehind'
    BY <1>15 DEF Leave, GoTo, processes, seen, names
  <1>16. ASSUME NEW c \in Callers, LeaveUnlink(c) PROVE NothingLeftBehind'
    BY <1>16 DEF LeaveUnlink, GoTo, processes, Forget, See, seen, names
  <1>17. ASSUME NEW c \in Callers, Release(c) PROVE NothingLeftBehind'
    BY <1>17 DEF Release, GoTo, processes, seen, names
  <1>18. ASSUME NEW c \in Callers, ReleaseCheck(c) PROVE NothingLeftBehind'
    BY <1>18 DEF ReleaseCheck, GoTo, processes, Return, seen, names
  <1>19. ASSUME NEW c \in Callers, ReleaseUnlink(c) PROVE NothingLeftBehind'
    BY <1>19 DEF ReleaseUnlink, GoTo, processes, Return, seen, names
  <1>20. ASSUME NEW c \in Callers, Withdraw(c) PROVE NothingLeftBehind'
    BY <1>20 DEF Withdraw, GoTo, processes, LeaveFor, Fenced, seen, names
  <1>21. ASSUME NEW c \in Callers, Undo(c) PROVE NothingLeftBehind'
    BY <1>21 DEF Undo, GoTo, processes, Return, Forget, See, seen, names
  <1>22. ASSUME NEW r \in Processes, Start(r) PROVE NothingLeftBehind'
    BY <1>22 DEF Start, Running, seen, names
  <1>23. ASSUME NEW r \in Processes, Exit(r) PROVE NothingLeftBehind'
    BY <1>23 DEF Exit, Inside, seen, names
  <1>24. ASSUME NEW r \in Processes, Crash(r) PROVE NothingLeftBehind'
    BY <1>24 DEF Crash, Inside, seen, names
  <1> QED
    BY <1>1, <1>2, <1>3, <1>4, <1>5, <1>6, <1>7, <1>8, <1>9, <1>10, <1>11, <1>12, <1>13, <1>14, <1>15, <1>16,
       <1>17, <1>18, <1>19, <1>20, <1>21, <1>22, <1>23, <1>24 DEF Next, Step

-----------------------------------------------------------------------------
LEMMA LockInit == ASSUME Init, LockAssumption PROVE LockInv
  BY DEF Init, LockAssumption, LockInv, TypeOK, Positions, FilesOwned, Published, StillAsSeen,
         NothingLeftBehind, OwnFile, Calling, HasLock, HasMutex, Releasing, UnderMutex

LEMMA LockStutter == ASSUME LockInv, UNCHANGED vars PROVE LockInv'
  BY DEF vars, LockInv, TypeOK, FilesOwned, Published, StillAsSeen, NothingLeftBehind,
         OwnFile, Calling, HasLock, HasMutex, Releasing

THEOREM LockInvHolds == Spec => []LockInv
  <1>1. Init => LockInv
    BY LockInit, LockAssumption
  <1>2. LockInv /\ [Next]_vars => LockInv'
    <2>1. ASSUME LockInv, Next PROVE LockInv'
      BY <2>1, LockAssumption, TypeStep, FilesOwnedStep, PublishedStep, StillAsSeenStep,
         NothingLeftStep DEF LockInv
    <2> QED
      BY <2>1, LockStutter
  <1> QED
    BY <1>1, <1>2, PTL DEF Spec

\* At most one caller has the lock, and the lock is its file, for every
\* number of callers and processes, crashes and reused ids.
THEOREM LockIsExclusive == Spec => []Exclusive
  <1>1. LockInv => Exclusive
    BY LockAssumption DEF LockInv, TypeOK, FilesOwned, Published, Exclusive, HasLock, Calling
  <1> QED
    BY <1>1, LockInvHolds, PTL

\* The file that is moved aside is the one that was inspected and its owner
\* is dead.
THEOREM OnlyTheDeadAreMoved == Spec => []QuarantinesTheDead
  <1>1. LockInv => QuarantinesTheDead
    BY DEF LockInv, StillAsSeen, QuarantinesTheDead, HasLock, Calling
  <1> QED
    BY <1>1, LockInvHolds, PTL

\* All of it together, as the run checks it.
THEOREM LockIsSafe == Spec => []LockSafe
  BY LockInvHolds, LockIsExclusive, OnlyTheDeadAreMoved, PTL DEF LockSafe

\* Unless a process dies, no path of a call leaves a mutex or a lock behind.
THEOREM CallsCleanUp == Spec => []NothingLeftBehind
  <1>1. LockInv => NothingLeftBehind
    BY DEF LockInv
  <1> QED
    BY <1>1, LockInvHolds, PTL

\* An abandoned recovery mutex is never removed or replaced.
THEOREM AbandonedMutexStays == Spec => AbandonedMutexPreserved
  <1> DEFINE Preserved == Abandoned => recovery' = recovery
  <1>1. ASSUME LockInv, Next PROVE Preserved
    <2>1. ASSUME NEW c \in Callers, Take(c) PROVE Preserved
      BY <2>1 DEF Take, Abandoned
    <2>2. ASSUME NEW c \in Callers, LeaveUnlink(c) PROVE Preserved
      BY <1>1, <2>2 DEF LeaveUnlink, Abandoned, LockInv, Published, HasMutex
    <2>3. ASSUME NEW c \in Callers,
                 \/ Prepare(c) \/ Busy(c) \/ Release(c) \/ Withdraw(c)
                 \/ Look(c) \/ LookProbe(c) \/ Blocked(c) \/ BlockedProbe(c)
                 \/ Publish(c) \/ Tidy(c) \/ Inspect(c) \/ InspectRead(c) \/ InspectProbe(c)
                 \/ Quarantine(c) \/ Discard(c) \/ Leave(c)
                 \/ ReleaseCheck(c) \/ ReleaseUnlink(c) \/ Undo(c)
          PROVE  recovery' = recovery
      BY <2>3 DEF Prepare, Busy, Release, Withdraw, Look, LookProbe, Blocked, BlockedProbe,
                  Publish, Tidy, Inspect, InspectRead, InspectProbe, Quarantine, Discard,
                  Leave, ReleaseCheck, ReleaseUnlink, Undo, names
    <2>4. ASSUME NEW r \in Processes, Start(r) \/ Exit(r) \/ Crash(r) PROVE recovery' = recovery
      BY <2>4 DEF Start, Exit, Crash, names
    <2> QED
      BY <1>1, <2>1, <2>2, <2>3, <2>4 DEF Next, Step
  <1>2. LockInv /\ [Next]_vars => [Preserved]_vars
    BY <1>1
  <1> QED
    BY <1>2, LockInvHolds, PTL DEF Spec, AbandonedMutexPreserved

-----------------------------------------------------------------------------
(* The host of a signing recovery.                                         *)

Stages == {"nothing", "prepared", "offered", "registered", "published"}

Submitting == step \in {"submit", "sign", "prepare", "receipt"}
Offering == step \in {"progress", "read", "offer", "register", "registered"}
Completing == step \in {"complete", "deliver", "delivered", "commit", "confirm"}

Booleans == submitted \in BOOLEAN /\ attempted \in BOOLEAN /\ challenge \in BOOLEAN /\ live \in BOOLEAN

Types ==
    /\ phase \in Host!Phases
    /\ step \in Host!Steps /\ answer \in Stages \cup {"none", "refused"}
    /\ line \subseteq Host!Kinds /\ hq \in Stages
    /\ local \in {"expired", "ours", "other"} /\ faults \in 0 .. MaxFaults
    /\ sent \in [Host!Kinds -> Nat]

\* A call is made in the phase that allows it, and the handle's flags say how far it came.
Flags ==
    /\ Submitting => phase = "prepared"
    /\ Offering => phase = "awaiting_browser_offer"
    /\ Completing => phase = "pending_approval"
    /\ challenge => phase \in {"pending_approval", "trust_installed", "delivery_unconfirmed", "failed"}
    /\ phase = "pending_approval" => challenge
    /\ attempted <=> phase \in {"trust_installed", "delivery_unconfirmed"}
                     \/ step \in {"deliver", "delivered", "commit", "confirm"}

\* A request is made in its step only, and the step is not come to again.
Asked ==
    /\ sent["prepare"] <= 1 /\ sent["register"] <= 1 /\ sent["deliver"] <= 1
    /\ phase \in {"prepared", "failed"} /\ ~ challenge /\ step # "receipt" => sent["prepare"] = 0
    /\ phase \in {"prepared", "failed"} /\ ~ challenge => sent["read"] = 0 /\ sent["register"] = 0
    /\ phase = "awaiting_browser_offer" /\ step # "registered" => sent["register"] = 0
    /\ ~ attempted \/ step = "deliver" => sent["deliver"] = 0

\* HQ has heard only what was asked, and an answer says no more than HQ knows.
Heard ==
    /\ \A k \in line : sent[k] >= 1
    /\ hq # "nothing" => sent["prepare"] >= 1
    /\ phase = "awaiting_browser_offer" => hq # "nothing"
    /\ phase = "pending_approval" => hq \in {"registered", "published"}
    /\ answer # "none" => step \in {"receipt", "offer", "registered", "delivered", "commit", "confirm"}
    /\ step = "receipt" /\ answer = "prepared" => hq # "nothing"
    /\ step \in {"offer", "registered"} /\ answer = "registered" => hq \in {"registered", "published"}

\* The device has the new trust once the last step was taken, and only then.
Installed ==
    /\ local = "ours" => step = "confirm" \/ phase \in {"trust_installed", "delivery_unconfirmed"}
    /\ step = "confirm" \/ phase = "trust_installed" => local = "ours"

HostInv == Booleans /\ Types /\ Flags /\ Asked /\ Heard /\ Installed

LEMMA HostBegins == Host!HostAssumption /\ Host!Init => HostInv
  <1> SUFFICES ASSUME Host!HostAssumption, Host!Init PROVE HostInv
    OBVIOUS
  <1> USE DEF Host!HostAssumption, Host!Init
  <1>0. Booleans
    BY Zenon DEF Booleans
  <1>1. Types
    BY DEF Types, Host!Phases, Host!Steps, Host!Kinds, Stages
  <1>2. Flags /\ Installed
    BY DEF Flags, Installed, Submitting, Offering, Completing
  <1>3. Asked /\ Heard
    BY SMTT(60) DEF Asked, Heard, Host!Kinds
  <1> QED
    BY <1>0, <1>1, <1>2, <1>3 DEF HostInv

\* Every step keeps the invariant.
LEMMA HostSteps == ASSUME Host!HostAssumption, HostInv, Host!Next PROVE HostInv'
  <1> USE Host!HostAssumption DEF Host!HostAssumption, HostInv, Booleans, Types, Flags, Asked, Heard, Installed,
      Submitting, Offering,
          Completing, Host!Phases, Host!Steps, Host!Kinds, Stages, Host!handle, Host!world, Host!Waits
  <1>1. ASSUME Host!Begin PROVE HostInv'
    BY <1>1 DEF Host!Begin
  <1>2. ASSUME Host!Submit PROVE HostInv'
    BY ZenonT(60), <1>2 DEF Host!Submit, Host!Rechecked, Host!Throw, Host!After
  <1>3. ASSUME Host!Check PROVE HostInv'
    BY <1>3 DEF Host!Check, Host!Rechecked, Host!Throw, Host!After, Host!Go
  <1>4. ASSUME Host!Receipt PROVE HostInv'
    BY <1>4 DEF Host!Receipt, Host!Rechecked, Host!Throw, Host!After
  <1>5. ASSUME Host!Offer PROVE HostInv'
    BY <1>5 DEF Host!Offer, Host!Rechecked, Host!Throw, Host!After
  <1>6. ASSUME Host!Registered PROVE HostInv'
    BY ZenonT(60), <1>6 DEF Host!Registered, Host!Rechecked, Host!Throw, Host!After
  <1>7. ASSUME Host!Complete PROVE HostInv'
    BY ZenonT(60), <1>7 DEF Host!Complete, Host!Rechecked, Host!Throw, Host!After
  <1>8. ASSUME Host!Delivered PROVE HostInv'
    BY ZenonT(60), <1>8 DEF Host!Delivered, Host!Rechecked, Host!Throw, Host!After, Host!Go
  <1>9. ASSUME Host!Commit PROVE HostInv'
    BY ZenonT(60), <1>9 DEF Host!Commit, Host!Rechecked, Host!Throw, Host!After
  <1>10. ASSUME Host!Confirm PROVE HostInv'
    BY <1>10 DEF Host!Confirm, Host!Throw, Host!After
  <1>11. ASSUME Host!GiveUp PROVE HostInv'
    BY <1>11 DEF Host!GiveUp, Host!After
  <1>12. ASSUME Host!Dispose PROVE HostInv'
    <2>1. Booleans'
      BY <1>12, Zenon DEF Host!Dispose, Booleans
    <2>2. Types' /\ Flags' /\ Asked' /\ Heard' /\ Installed'
      BY <1>12 DEF Host!Dispose
    <2> QED
      BY <2>1, <2>2
  <1>13. ASSUME NEW k \in Host!Kinds, Host!Send(k) PROVE HostInv'
    <2>1. CASE live
      <3>1. Booleans'
        BY <1>13, <2>1, Zenon DEF Host!Send, Booleans
      <3>2. /\ sent' = [sent EXCEPT ![k] = @ + 1] /\ line' = line \cup {k} /\ step' = Host!Waits[k] /\ k = step
            /\ UNCHANGED <<phase, attempted, challenge, answer, hq, local, faults>>
        BY <1>13, <2>1 DEF Host!Send
      <3>3. sent' \in [Host!Kinds -> Nat] /\ sent'[k] = sent[k] + 1
            /\ \A i \in Host!Kinds \ {k} : sent'[i] = sent[i]
        BY <3>2
      <3>4. Types' /\ Flags' /\ Installed'
        BY <3>2, <3>3
      <3>5. Asked'
        BY <3>2, <3>3
      <3>6. Heard'
        <4>1. \A i \in line' : sent'[i] >= 1
          BY <3>2, <3>3
        <4>2. /\ hq' # "nothing" => sent'["prepare"] >= 1
              /\ phase' = "awaiting_browser_offer" => hq' # "nothing"
              /\ phase' = "pending_approval" => hq' \in {"registered", "published"}
          BY <3>2, <3>3
        <4>3. answer = "none"
          BY <3>2
        <4> QED
          BY <3>2, <4>1, <4>2, <4>3
      <3> QED
        BY <3>1, <3>4, <3>5, <3>6
    <2>2. CASE ~ live
      BY <1>13, <2>2 DEF Host!Send, Host!Throw, Host!After
    <2> QED
      BY <2>1, <2>2
  <1>14. ASSUME NEW k \in Host!Kinds, Host!HQTakes(k) PROVE HostInv'
    BY <1>14 DEF Host!HQTakes, Host!Reply
  <1>15. ASSUME NEW k \in Host!Kinds, Host!Lose(k) PROVE HostInv'
    BY <1>15 DEF Host!Lose
  <1>16. ASSUME Host!Browser PROVE HostInv'
    BY <1>16 DEF Host!Browser
  <1>17. ASSUME Host!Change PROVE HostInv'
    BY <1>17 DEF Host!Change
  <1> QED
    BY <1>1, <1>2, <1>3, <1>4, <1>5, <1>6, <1>7, <1>8, <1>9, <1>10, <1>11, <1>12, <1>13, <1>14, <1>15, <1>16,
       <1>17 DEF Host!Next

\* The stages of HQ are in the order of Progress.
LEMMA FarIs == /\ Host!Far("prepared") = 2 /\ Host!Far("offered") = 3 /\ Host!Far("registered") = 4 /\ Host!Far("published") = 5
  <1>1. DOMAIN Host!Progress = 1..5
    BY DEF Host!Progress
  <1>2. /\ Host!Progress[1] = "nothing" /\ Host!Progress[2] = "prepared" /\ Host!Progress[3] = "offered"
        /\ Host!Progress[4] = "registered" /\ Host!Progress[5] = "published"
    BY DEF Host!Progress
  <1>3. \A i \in 1..5 : i = 1 \/ i = 2 \/ i = 3 \/ i = 4 \/ i = 5
    OBVIOUS
  <1> HIDE DEF Host!Progress
  <1>4. Host!Far("prepared") = 2
    BY <1>1, <1>2, <1>3 DEF Host!Far
  <1>5. Host!Far("offered") = 3
    BY <1>1, <1>2, <1>3 DEF Host!Far
  <1>6. Host!Far("registered") = 4
    BY <1>1, <1>2, <1>3 DEF Host!Far
  <1>7. Host!Far("published") = 5
    BY <1>1, <1>2, <1>3 DEF Host!Far
  <1> QED
    BY <1>4, <1>5, <1>6, <1>7

LEMMA HostInvGives == ASSUME HostInv PROVE Host!HostSafe
  <1>1. {Host!Progress[i] : i \in DOMAIN Host!Progress} = Stages
    BY DEF Host!Progress, Stages
  <1>2. Host!TypeOK
    <2>1. {submitted, attempted, challenge, live} \subseteq BOOLEAN
      BY Zenon DEF HostInv, Booleans
    <2> QED
      BY <1>1, <2>1 DEF Host!TypeOK, HostInv, Types
  <1>3. Host!AskedOnce
    BY DEF Host!AskedOnce, HostInv, Asked, Host!Kinds
  <1>4. Host!ReportsTruly
    <2> SUFFICES ASSUME step = "idle" PROVE Host!ReportsTruly!2
      BY DEF Host!ReportsTruly
    <2>1. phase \in {"prepared", "failed"} /\ ~ challenge => hq = "nothing" /\ line = {}
      <3> SUFFICES ASSUME phase \in {"prepared", "failed"}, ~ challenge PROVE hq = "nothing" /\ line = {}
        OBVIOUS
      <3>1. sent["prepare"] = 0 /\ sent["read"] = 0 /\ sent["register"] = 0 /\ sent["deliver"] = 0
        BY DEF HostInv, Flags, Asked
      <3>2. \A k \in Host!Kinds : k \notin line
        BY <3>1 DEF HostInv, Heard, Host!Kinds
      <3> QED
        BY <3>1, <3>2 DEF HostInv, Types, Heard
    <2>2. phase = "awaiting_browser_offer" => Host!Far(hq) >= 2 /\ sent.register = 0
      BY FarIs DEF HostInv, Types, Asked, Heard, Stages
    <2>3. phase = "pending_approval" => Host!Far(hq) >= 4 /\ sent.deliver = 0
      BY FarIs DEF HostInv, Types, Flags, Asked, Heard
    <2> QED
      BY <2>1, <2>2, <2>3 DEF HostInv, Installed
  <1> QED
    BY <1>2, <1>3, <1>4 DEF Host!HostSafe

\* The inductive invariant holds.
THEOREM HostHolds == ASSUME Host!HostAssumption PROVE Host!Spec => []HostInv
  <1>1. HostInv /\ [Host!Next]_(Host!vars) => HostInv'
    <2> SUFFICES ASSUME HostInv, [Host!Next]_(Host!vars) PROVE HostInv'
      OBVIOUS
    <2>1. CASE Host!Next
      BY <2>1, HostSteps
    <2>2. CASE UNCHANGED Host!vars
      BY <2>2 DEF Host!vars, HostInv, Booleans, Types, Flags, Asked, Heard, Installed, Submitting, Offering,
         Completing
    <2> QED
      BY <2>1, <2>2
  <1> QED
    BY <1>1, HostBegins, PTL DEF Host!Spec

\* One handle asks for a preparation, a proof and a delivery once at most, whatever is lost
\* or late, and between calls it reports neither less than HQ may have done nor more than
\* HQ and the device have: what the run checks of every state of the host.
THEOREM HostIsSafe == ASSUME Host!HostAssumption PROVE Host!Spec => []Host!HostSafe
  BY HostHolds, HostInvGives, PTL

-----------------------------------------------------------------------------
(* PackageCopies, for any writers, files, transactions, deaths, failing    *)
(* steps and edits: while the user changes nothing the copies are those of *)
(* one snapshot, or the journal explains every one of them and whoever     *)
(* finds it completes it; what the user wrote is kept.                     *)

CONSTANTS Writers, Paths, Contents, Snapshots, Sources, Own, MaxTx
VARIABLES
    target, staged, backup, index, manifest, journal, copyLock, life, at, want, mine, held, todo, tries,
    txs, mishaps, edited, kept, usurped

Copies == INSTANCE PackageCopies WITH Files <- Sources, lock <- copyLock, pc <- at, seen <- held, faults <- mishaps

Locks == [owner : Writers, life : 0 .. MaxFaults]
Shapes ==
    /\ Copies!TypeOK
    /\ life \in [Writers -> Nat] /\ mishaps \in 0 .. MaxFaults /\ \A w \in Writers : life[w] <= mishaps
    /\ held \in [Writers -> Locks \cup {None}] /\ tries \in [Writers -> Nat]
    /\ txs \in 0 .. MaxTx /\ edited \in BOOLEAN /\ usurped \in BOOLEAN /\ kept \subseteq Paths

\* Whoever is under the lock holds it; only a dead writer's lock is about to be removed.
LockKept ==
    /\ copyLock # None => copyLock.life <= life[copyLock.owner]
    /\ \A w \in Writers :
        /\ held[w] # None => held[w].life <= life[held[w].owner]
        /\ at[w] \in {"link", "probe", "unlink"} => tries[w] \in 0 .. 2
        /\ at[w] \in {"probe", "unlink"} => held[w] # None
        /\ at[w] = "unlink" => Copies!Dead(held[w])
        /\ ~ usurped /\ at[w] \in Copies!Under \cup {"refused", "releasing"} => copyLock = Copies!Self(w)

\* What a writer at work has: its journal is the one in the repository.
WorksOf(w) ==
    /\ at[w] \in {"link", "probe", "unlink", "recover", "prepare"} => want[w] # None
    /\ at[w] \in Copies!Under \ {"recover", "prepare"} => mine[w] # None
    /\ at[w] \in Copies!Under \ {"recover", "prepare", "journal"} => journal = mine[w]
    /\ at[w] \in {"prepare", "journal"} => journal = None
    /\ at[w] = "journal" => mine[w].tx <= txs
    /\ at[w] \in {"file", "move", "place", "clean"} => todo[w] \subseteq Copies!Changes(mine[w])
    /\ at[w] \in {"move", "place"} => todo[w] # {}
    /\ at[w] = "move" => backup[mine[w].tx][Copies!NextFile(w)] = None
Works == (journal # None => journal.tx <= txs) /\ \A w \in Writers : WorksOf(w)

\* The four states of a path while a journal is applied to it.
At(content, tx) == [text |-> content, tx |-> tx]
Untouched(j, p) == target[p] = At(Copies!Before(j)[p], 0) /\ backup[j.tx][p] = None /\ staged[j.tx][p] = Copies!After(j)[p]
Moved(j, p) ==
    Copies!Before(j)[p] # None /\ target[p] = Copies!Absent /\ backup[j.tx][p] = Copies!Before(j)[p] /\ staged[j.tx][p] = Copies!After(j)[p]
Placed(j, p) ==
    /\ target[p] = IF Copies!After(j)[p] = None THEN Copies!Absent ELSE At(Copies!After(j)[p], j.tx)
    /\ backup[j.tx][p] = Copies!Before(j)[p] /\ staged[j.tx][p] = Copies!After(j)[p]
Cleaned(j, p) ==
    target[p] = At(Copies!After(j)[p], 0) /\ backup[j.tx][p] \in {None, Copies!Before(j)[p]} /\ staged[j.tx][p] = None

Rest == (\A p \in Paths : target[p] = At(Copies!FilesOf(index)[p], 0)) /\ (index # None => manifest = index)
Journaled(j) ==
    /\ j.previous # None => j.manifest = j.previous
    /\ \A p \in Paths \ Copies!Changes(j) : target[p] = At(Copies!After(j)[p], 0)
    /\ \/ /\ index = j.previous /\ manifest = j.manifest
          /\ \A p \in Copies!Changes(j) : Untouched(j, p) \/ Moved(j, p) \/ Placed(j, p)
       \/ index = j.desired /\ manifest = j.manifest /\ \A p \in Copies!Changes(j) : Placed(j, p)
       \/ Copies!Committed(j) /\ \A p \in Copies!Changes(j) : Placed(j, p) \/ Cleaned(j, p)
Sound == ~ edited => IF journal = None THEN Rest ELSE Journaled(journal)

Steady(w) ==
    LET j == mine[w]  p == Copies!NextFile(w) IN
    /\ at[w] # "refused"
    /\ at[w] = "journal" => /\ j.previous = index /\ j.manifest = manifest
                            /\ \A q \in Copies!Changes(j) : Untouched(j, q)
    /\ at[w] \in {"file", "move", "place"} =>
          ~ Copies!Committed(j) /\ \A q \in Copies!Changes(j) \ todo[w] : Placed(j, q)
    /\ at[w] = "move" => Untouched(j, p) /\ Copies!Before(j)[p] # None
    /\ at[w] = "place" => /\ target[p] = Copies!Absent /\ staged[j.tx][p] = Copies!After(j)[p]
                          /\ backup[j.tx][p] = Copies!Before(j)[p]
    /\ at[w] = "manifest" => index = j.desired
    /\ at[w] \in {"verify", "clean"} => Copies!Committed(j)
    /\ at[w] = "clean" => \A q \in Copies!Changes(j) \ todo[w] : Cleaned(j, q)
Spare ==
    /\ \A t \in Copies!Tx : t > txs => staged[t] = Copies!NoFiles /\ backup[t] = Copies!NoFiles
    /\ \A p \in Paths : target[p].tx <= txs

CopiesInv ==
    /\ Shapes /\ LockKept /\ Copies!OneWriter /\ Works /\ Spare /\ Copies!UserTextKept
    /\ Sound /\ (~ edited => \A w \in Writers : Steady(w))

-----------------------------------------------------------------------------
\* A finite set of numbers has a least one: of the sets of what is no larger than
\* one of them, some contains no other.
LEMMA Least == ASSUME NEW S, S \subseteq Nat, IsFiniteSet(S), S # {} PROVE \E p \in S : \A q \in S : p <= q
  <1> DEFINE Upto(p) == {x \in S : x <= p}
             T == {Upto(p) : p \in S}
  <1>1. IsWellFoundedOn(StrictSubsetOrdering(S), FiniteSubsetsOf(S))
    BY FS_StrictSubsetOrderingWellFounded
  <1>2. T \subseteq FiniteSubsetsOf(S) /\ T # {}
    <2>1. \A p \in S : IsFiniteSet(Upto(p)) /\ Upto(p) \subseteq S
      BY FS_Subset
    <2> HIDE DEF Upto
    <2> QED
      BY <2>1 DEF FiniteSubsetsOf
  <1>3. PICK u \in T : \A v \in T : ~ (<<v, u>> \in StrictSubsetOrdering(S))
    <2> HIDE DEF T
    <2> QED
      BY <1>1, <1>2, WFMin
  <1>4. PICK p \in S : u = Upto(p)
    BY <1>3
  <1>5. ASSUME NEW q \in S, ~ (p <= q) PROVE FALSE
    <2>1. p \in Upto(p) /\ p \notin Upto(q)
      BY <1>5
    <2>2. ASSUME NEW x \in Upto(q) PROVE x \in Upto(p)
      <3>1. x \in Nat /\ q \in Nat /\ p \in Nat /\ x <= q /\ q < p
        BY <1>5
      <3> QED
        BY <3>1
    <2>3. <<Upto(q), u>> \in StrictSubsetOrdering(S)
      BY <1>4, <2>1, <2>2 DEF StrictSubsetOrdering
    <2> QED
      BY <1>3, <2>3
  <1> QED
    BY <1>5

LEMMA NextIs ==
    ASSUME Copies!CopiesAssumption, todo \in [Writers -> SUBSET Paths], NEW w \in Writers, todo[w] # {}
    PROVE  Copies!NextFile(w) \in todo[w] /\ Copies!NextFile(w) \in Paths
  <1>1. todo[w] \subseteq Nat /\ IsFiniteSet(todo[w])
    <2>1. Paths \subseteq Nat /\ IsFiniteSet(Paths)
      BY DEF Copies!CopiesAssumption, Copies!IsFiniteSet, IsFiniteSet
    <2> QED
      BY <2>1, FS_Subset
  <1>2. \E p \in todo[w] : \A q \in todo[w] : p <= q
    BY <1>1, Least
  <1> QED
    BY <1>2 DEF Copies!NextFile

\* The types in three parts, which the provers take one at a time.
Filed ==
    /\ target \in [Paths -> [text : Copies!Texts, tx : 0 .. MaxTx]]
    /\ staged \in [Copies!Tx -> [Paths -> Copies!Texts]] /\ backup \in [Copies!Tx -> [Paths -> Copies!Texts]]
    /\ index \in Snapshots \cup {None} /\ manifest \in Snapshots \cup {None}
    /\ journal \in Copies!Journals \cup {None}
    /\ txs \in 0 .. MaxTx /\ edited \in BOOLEAN /\ kept \subseteq Paths
Local ==
    /\ at \in [Writers -> Copies!Under \cup {"out", "link", "probe", "unlink", "refused", "release", "releasing"}]
    /\ mine \in [Writers -> Copies!Journals \cup {None}] /\ want \in [Writers -> Snapshots \cup {None}]
    /\ todo \in [Writers -> SUBSET Paths]
Counted ==
    /\ copyLock \in Locks \cup {None} /\ held \in [Writers -> Locks \cup {None}]
    /\ life \in [Writers -> Nat] /\ mishaps \in 0 .. MaxFaults /\ \A w \in Writers : life[w] <= mishaps
    /\ usurped \in BOOLEAN /\ tries \in [Writers -> Nat]

LEMMA ShapesAre == Shapes <=> Filed /\ Local /\ Counted
  BY DEF Shapes, Copies!TypeOK, Filed, Local, Counted, Locks

LEMMA CopiesBegin == ASSUME Copies!CopiesAssumption, Copies!Init PROVE CopiesInv
  <1> USE DEF Copies!CopiesAssumption, Copies!Init
  <1>1. Shapes
    <2>1. 0 \in 0 .. MaxTx /\ 0 \in 0 .. MaxFaults /\ Copies!Absent \in [text : Copies!Texts, tx : 0 .. MaxTx]
          /\ Copies!NoFiles \in [Paths -> Copies!Texts]
      BY DEF Copies!Texts, Copies!Absent, Copies!NoFiles
    <2>2. Filed
      <3>1. target \in [Paths -> [text : Copies!Texts, tx : 0 .. MaxTx]]
        BY <2>1
      <3>2. staged \in [Copies!Tx -> [Paths -> Copies!Texts]] /\ backup \in [Copies!Tx -> [Paths -> Copies!Texts]]
        BY <2>1
      <3> QED
        BY <2>1, <3>1, <3>2 DEF Filed
    <2>3. Local
      BY DEF Local, Copies!Under
    <2>4. Counted
      <3>1. life \in [Writers -> Nat] /\ tries \in [Writers -> Nat] /\ \A w \in Writers : life[w] = 0
        OBVIOUS
      <3>2. copyLock \in Locks \cup {None} /\ held \in [Writers -> Locks \cup {None}] /\ usurped \in BOOLEAN
        OBVIOUS
      <3>3. mishaps \in 0 .. MaxFaults /\ mishaps = 0
        BY <2>1
      <3> QED
        BY <3>1, <3>2, <3>3 DEF Counted
    <2> QED
      BY <2>2, <2>3, <2>4, ShapesAre
  <1>2. LockKept /\ Copies!OneWriter /\ Works /\ Spare /\ Copies!UserTextKept
    <2>1. LockKept /\ Copies!OneWriter
      BY DEF LockKept, Copies!Under, Copies!OneWriter
    <2>2. Works /\ Copies!UserTextKept
      BY DEF Copies!Under, Works, WorksOf, Copies!UserTextKept
    <2>3. Spare
      BY DEF Copies!Tx, Spare, Copies!Absent
    <2> QED
      BY <2>1, <2>2, <2>3
  <1>3. Sound /\ \A w \in Writers : Steady(w)
    BY DEF Sound, Rest, At, Copies!FilesOf, Steady, Copies!Absent, Copies!NoFiles
  <1> QED
    BY <1>1, <1>2, <1>3 DEF CopiesInv

\* The journals, and what is of them.
LEMMA JournalIs ==
    ASSUME Copies!CopiesAssumption, NEW j \in Copies!Journals
    PROVE  /\ j # None /\ j.tx \in Copies!Tx /\ Copies!Changes(j) \subseteq Paths
           /\ Copies!Before(j) \in [Paths -> Contents \cup {None}]
           /\ Copies!After(j) \in [Paths -> Contents \cup {None}]
           /\ \A p \in Copies!Changes(j) : Copies!Before(j)[p] # Copies!After(j)[p]
           /\ \A p \in Paths \ Copies!Changes(j) : Copies!Before(j)[p] = Copies!After(j)[p]
  BY DEF Copies!CopiesAssumption, Copies!Journals, Copies!Tx, Copies!Changes, Copies!Before, Copies!After,
     Copies!FilesOf, Copies!NoFiles

-----------------------------------------------------------------------------
\* The steps of a writer under the lock, and those of getting and giving it up.
WorkStep(w) ==
    \/ Copies!Recover(w) \/ Copies!Prepare(w) \/ Copies!WriteJournal(w) \/ Copies!ApplyOwn(w) \/ Copies!Look(w) \/ Copies!Move(w) \/ Copies!Place(w)
    \/ Copies!WriteIndex(w) \/ Copies!WriteManifest(w) \/ Copies!Verify(w) \/ Copies!Clean(w) \/ Copies!Finish(w)
LockStep(w) ==
    \/ \E s \in Snapshots : Copies!Begin(w, s)
    \/ Copies!Link(w) \/ Copies!Probe(w) \/ Copies!Unlink(w) \/ Copies!Release(w) \/ Copies!Released(w) \/ Copies!Fail(w) \/ Copies!Crash(w)

\* What every theorem below starts from.
Here == Copies!CopiesAssumption /\ CopiesInv /\ ~ usurped

LEMMA HereIs ==
    ASSUME Here
    PROVE  /\ Copies!CopiesAssumption /\ Filed /\ Local /\ Counted /\ LockKept /\ Copies!OneWriter /\ Works /\ Spare
           /\ Copies!UserTextKept /\ Sound /\ ~ usurped
           /\ \A w \in Writers : WorksOf(w) /\ (~ edited => Steady(w))
  BY ShapesAre DEF Here, CopiesInv, Works

\* A step under the lock is the one writer's, and leaves the lock and the others alone.
Mine(w) ==
    /\ at[w] \in Copies!Under /\ copyLock = Copies!Self(w)
    /\ \E x \in Copies!Under \cup {"refused", "release"} : at' = [at EXCEPT ![w] = x]
    /\ \E s \in Snapshots \cup {None} : want' = [want EXCEPT ![w] = s]
    /\ \E j \in Copies!Journals \cup {None} : mine' = [mine EXCEPT ![w] = j]
    /\ \E t \in SUBSET Paths : todo' = [todo EXCEPT ![w] = t]
    /\ UNCHANGED <<copyLock, usurped, life, mishaps, edited, kept, held, tries>>

LEMMA NextInTodo ==
    ASSUME Here, NEW w \in Writers, todo[w] # {}
    PROVE  Copies!NextFile(w) \in todo[w] /\ Copies!NextFile(w) \in Paths
  BY HereIs, NextIs DEF Local

LEMMA Same ==
    ASSUME NEW S, NEW T, NEW f \in [S -> T], NEW x \in S
    PROVE  f = [f EXCEPT ![x] = f[x]] /\ f[x] \in T
  OBVIOUS

LEMMA ItsJournal ==
    ASSUME Here, NEW w \in Writers, at[w] \in Copies!Under \ {"recover", "prepare"}
    PROVE  mine[w] \in Copies!Journals
  BY HereIs DEF WorksOf, Local

LEMMA Steps ==
    ASSUME Here, NEW w \in Writers, WorkStep(w)
    PROVE  Mine(w)
  <1>1. /\ at \in [Writers -> Copies!Under \cup {"out", "link", "probe", "unlink", "refused", "release", "releasing"}]
        /\ mine \in [Writers -> Copies!Journals \cup {None}] /\ want \in [Writers -> Snapshots \cup {None}]
        /\ todo \in [Writers -> SUBSET Paths] /\ journal \in Copies!Journals \cup {None}
    BY HereIs DEF Local, Filed
  <1>2. at[w] \in Copies!Under /\ copyLock = Copies!Self(w)
    <2>1. at[w] \in Copies!Under
      BY DEF WorkStep, Copies!Recover, Copies!Prepare, Copies!WriteJournal, Copies!ApplyOwn, Copies!Look,
         Copies!Move, Copies!Place, Copies!WriteIndex, Copies!WriteManifest, Copies!Verify, Copies!Clean,
         Copies!Finish, Copies!Under
    <2> QED
      BY <2>1, HereIs DEF LockKept
  <1>3. /\ at = [at EXCEPT ![w] = at[w]] /\ at[w] \in Copies!Under \cup {"refused", "release"}
        /\ mine = [mine EXCEPT ![w] = mine[w]] /\ mine[w] \in Copies!Journals \cup {None}
        /\ want = [want EXCEPT ![w] = want[w]] /\ want[w] \in Snapshots \cup {None}
        /\ todo = [todo EXCEPT ![w] = todo[w]] /\ todo[w] \in SUBSET Paths
    <2>1. at = [at EXCEPT ![w] = at[w]] /\ at[w] \in Copies!Under \cup {"refused", "release"}
      BY <1>1, <1>2
    <2>2. mine = [mine EXCEPT ![w] = mine[w]] /\ mine[w] \in Copies!Journals \cup {None}
      BY <1>1, Same
    <2>3. want = [want EXCEPT ![w] = want[w]] /\ want[w] \in Snapshots \cup {None}
      BY <1>1
    <2>4. todo = [todo EXCEPT ![w] = todo[w]] /\ todo[w] \in SUBSET Paths
      BY <1>1, Same
    <2> QED
      BY <2>1, <2>2, <2>3, <2>4
  <1>4. None \in Snapshots \cup {None} /\ None \in Copies!Journals \cup {None}
    OBVIOUS
  <1>5. \A j \in Copies!Journals : Copies!Changes(j) \in SUBSET Paths
    BY DEF Copies!Changes
  <1>6. {"prepare", "journal", "apply", "file", "move", "place", "manifest", "verify", "clean", "refused", "release"}
            \subseteq Copies!Under \cup {"refused", "release"}
    BY DEF Copies!Under
  <1>7. UNCHANGED <<copyLock, usurped, life, mishaps, edited, kept, held, tries>>
    BY DEF WorkStep, Copies!Recover, Copies!Prepare, Copies!WriteJournal, Copies!ApplyOwn, Copies!Look,
       Copies!Move, Copies!Place, Copies!WriteIndex, Copies!WriteManifest, Copies!Verify, Copies!Clean,
       Copies!Finish, Copies!alone, Copies!Keeping
  <1> DEFINE Pc == \E x \in Copies!Under \cup {"refused", "release"} : at' = [at EXCEPT ![w] = x]
             Want == \E s \in Snapshots \cup {None} : want' = [want EXCEPT ![w] = s]
             Its == \E j \in Copies!Journals \cup {None} : mine' = [mine EXCEPT ![w] = j]
             Left == \E t \in SUBSET Paths : todo' = [todo EXCEPT ![w] = t]
  <1>8. Pc
    <2>1. \/ UNCHANGED at
          \/ \E x \in {"prepare", "journal", "apply", "file", "move", "place", "manifest", "verify", "clean", "refused", "release"} :
                at' = [at EXCEPT ![w] = x]
      BY DEF WorkStep, Copies!Recover, Copies!Prepare, Copies!WriteJournal, Copies!ApplyOwn, Copies!Look,
         Copies!Move, Copies!Place, Copies!WriteIndex, Copies!WriteManifest, Copies!Verify, Copies!Clean,
         Copies!Finish,
             Copies!Apply, Copies!Refuse, Copies!GoTo
    <2> QED
      BY <1>3, <1>6, <2>1
  <1>9. Want
    <2>1. UNCHANGED want \/ want' = [want EXCEPT ![w] = None]
      BY DEF WorkStep, Copies!Recover, Copies!Prepare, Copies!WriteJournal, Copies!ApplyOwn, Copies!Look,
         Copies!Move, Copies!Place, Copies!WriteIndex, Copies!WriteManifest, Copies!Verify, Copies!Clean,
         Copies!Finish,
             Copies!Apply, Copies!Refuse
    <2> QED
      BY <1>3, <1>4, <2>1
  <1>10. Its
    <2>1. CASE Copies!Prepare(w)
      <3>1. CASE ~ Copies!Prepared(want[w])
        BY <2>1, <3>1, <1>3 DEF Copies!Prepare, Copies!Refuse
      <3>2. CASE Copies!Prepared(want[w])
        <4>1. want[w] \in Snapshots /\ txs' \in Copies!Tx /\ index \in Snapshots \cup {None}
              /\ manifest \in Snapshots \cup {None}
          BY <2>1, <3>2, HereIs DEF Copies!Prepare, WorksOf, Filed, Local, Copies!Tx, Copies!CopiesAssumption
        <4>2. [tx |-> txs', previous |-> index, manifest |-> manifest, desired |-> want[w]] \in Copies!Journals
          BY <4>1 DEF Copies!Journals
        <4> QED
          BY <2>1, <3>2, <4>2 DEF Copies!Prepare
      <3> QED
        BY <3>1, <3>2
    <2>2. CASE ~ Copies!Prepare(w)
      <3>1. \/ UNCHANGED mine \/ mine' = [mine EXCEPT ![w] = None] \/ mine' = [mine EXCEPT ![w] = mine[w]]
            \/ journal # None /\ mine' = [mine EXCEPT ![w] = journal]
        BY <2>2 DEF WorkStep, Copies!Recover, Copies!WriteJournal, Copies!ApplyOwn, Copies!Look, Copies!Move,
           Copies!Place, Copies!WriteIndex, Copies!WriteManifest, Copies!Verify, Copies!Clean, Copies!Finish,
             Copies!Apply, Copies!Refuse
      <3> QED
        BY <1>1, <1>3, <1>4, <3>1
    <2> QED
      BY <2>1, <2>2
  <1>11. Left
    <2>1. \/ UNCHANGED todo \/ \E p : todo' = [todo EXCEPT ![w] = todo[w] \ {p}]
          \/ journal # None /\ todo' = [todo EXCEPT ![w] = Copies!Changes(journal)]
          \/ todo' = [todo EXCEPT ![w] = Copies!Changes(mine[w])]
      BY DEF WorkStep, Copies!Recover, Copies!Prepare, Copies!WriteJournal, Copies!ApplyOwn, Copies!Look,
         Copies!Move, Copies!Place, Copies!WriteIndex, Copies!WriteManifest, Copies!Verify, Copies!Clean,
         Copies!Finish,
             Copies!Apply, Copies!Refuse, Copies!Done
    <2>2. Copies!Changes(mine[w]) \in SUBSET Paths /\ \A p : todo[w] \ {p} \in SUBSET Paths
      BY <1>3 DEF Copies!Changes
    <2> QED
      BY <1>1, <1>3, <1>5, <2>1, <2>2
  <1> QED
    BY <1>2, <1>7, <1>8, <1>9, <1>10, <1>11 DEF Mine

\* Such a step keeps the types of what is a writer's own, and the lock.
LEMMA MineKeeps ==
    ASSUME Here, NEW w \in Writers, Mine(w)
    PROVE  /\ Local' /\ Counted' /\ LockKept' /\ Copies!OneWriter'
           /\ \A v \in Writers \ {w} : at'[v] = at[v] /\ at[v] \notin Copies!Under \cup {"refused", "releasing"} /\ WorksOf(v)' /\ Steady(v)'
  <1>1. Local'
    <2>1. at' \in [Writers -> Copies!Under \cup {"out", "link", "probe", "unlink", "refused", "release", "releasing"}]
      BY HereIs DEF Mine, Local
    <2>2. want' \in [Writers -> Snapshots \cup {None}]
      BY HereIs DEF Mine, Local
    <2>3. mine' \in [Writers -> Copies!Journals \cup {None}]
      BY HereIs DEF Mine, Local
    <2>4. todo' \in [Writers -> SUBSET Paths]
      BY HereIs DEF Mine, Local
    <2> QED
      BY <2>1, <2>2, <2>3, <2>4 DEF Local
  <1>2. Counted'
    BY HereIs DEF Mine, Counted, Locks
  <1>3. PICK x \in Copies!Under \cup {"refused", "release"} : at' = [at EXCEPT ![w] = x]
    BY DEF Mine
  <1>4. \A v \in Writers \ {w} : at'[v] = at[v] /\ at[v] \notin Copies!Under \cup {"refused", "releasing"}
    BY <1>3, HereIs DEF Mine, Local, LockKept, Copies!Self
  <1>5. at \in [Writers -> Copies!Under \cup {"out", "link", "probe", "unlink", "refused", "release", "releasing"}] /\ LockKept
        /\ at[w] \in Copies!Under /\ copyLock = Copies!Self(w)
        /\ UNCHANGED <<copyLock, usurped, life, held, tries>>
    BY HereIs DEF Local, Mine
  <1>6. LockKept'
    <2>1. at'[w] = x /\ x \notin {"link", "probe", "unlink"} /\ Copies!Self(w)' = Copies!Self(w)
          /\ Copies!Dead(held[w])' = Copies!Dead(held[w])
      BY <1>3, <1>5 DEF Copies!Under, Copies!Self, Copies!Dead
    <2>2. \A v \in Writers \ {w} : Copies!Self(v)' = Copies!Self(v) /\ Copies!Dead(held[v])' = Copies!Dead(held[v])
      BY <1>5 DEF Copies!Self, Copies!Dead
    <2> QED
      BY <1>4, <1>5, <2>1, <2>2 DEF LockKept
  <1>7. Copies!OneWriter'
    BY <1>4 DEF Copies!OneWriter
  <1>8. ASSUME NEW v \in Writers \ {w} PROVE WorksOf(v)' /\ Steady(v)'
    <2>1. want'[v] = want[v] /\ WorksOf(v)
      BY HereIs DEF Mine, Local
    <2>2. at'[v] \notin Copies!Under /\ at'[v] # "refused" /\ at'[v] = at[v]
      BY <1>4
    <2> QED
      BY <2>1, <2>2 DEF WorksOf, Steady, Copies!Under
  <1> QED
    BY <1>1, <1>2, <1>4, <1>6, <1>7, <1>8
-----------------------------------------------------------------------------
\* A step under the lock: what it does to the files, and what its writer then has.
Filing(w) ==
    /\ Filed' /\ (journal' # None => journal'.tx <= txs') /\ WorksOf(w)' /\ Spare' /\ Copies!UserTextKept'
    /\ (~ edited => Sound' /\ Steady(w)')

LEMMA FilingIs ==
    ASSUME Here, NEW w \in Writers, Mine(w), Filing(w)
    PROVE  CopiesInv'
  <1>1. Local' /\ Counted' /\ LockKept' /\ Copies!OneWriter' /\ edited' = edited
        /\ \A v \in Writers \ {w} : WorksOf(v)' /\ Steady(v)'
    BY MineKeeps DEF Mine
  <1>2. Shapes'
    BY <1>1, ShapesAre DEF Filing, Shapes, Copies!TypeOK, Filed, Local, Counted, Locks
  <1>3. Works'
    BY <1>1 DEF Works, Filing
  <1>4. Sound' /\ (~ edited' => \A v \in Writers : Steady(v)')
    BY <1>1 DEF Filing, Sound
  <1> QED
    BY <1>1, <1>2, <1>3, <1>4 DEF CopiesInv, Filing

\* The journal under way, and what is there of its files.
LEMMA Applying ==
    ASSUME Here, NEW w \in Writers, at[w] \in Copies!Under \ {"recover", "prepare", "journal"}
    PROVE  /\ mine[w] \in Copies!Journals /\ journal = mine[w] /\ journal # None /\ mine[w].tx <= txs
           /\ (~ edited => Journaled(mine[w]) /\ Steady(w))
  <1>1. mine[w] \in Copies!Journals /\ mine[w] # None /\ journal = mine[w]
    BY ItsJournal, HereIs, JournalIs DEF WorksOf
  <1> QED
    BY <1>1, HereIs DEF Works, Sound

\* A journal explains the metadata, whatever step its writer is at.
LEMMA NotForeign ==
    ASSUME Copies!CopiesAssumption, NEW j \in Copies!Journals, Journaled(j)
    PROVE  ~ Copies!Foreign(j)
  BY DEF Journaled, Copies!Foreign, Copies!Committed, Copies!Journals, Copies!CopiesAssumption

\* What a path of it is like, by how far the metadata is.
LEMMA BeforeCommit ==
    ASSUME NEW j, Journaled(j), ~ Copies!Committed(j)
    PROVE  /\ manifest = j.manifest /\ index \in {j.previous, j.desired}
           /\ \A p \in Copies!Changes(j) : Untouched(j, p) \/ Moved(j, p) \/ Placed(j, p)
  BY DEF Journaled

LEMMA AfterCommit ==
    ASSUME Copies!CopiesAssumption, NEW j \in Copies!Journals, Journaled(j), Copies!Committed(j)
    PROVE  \A p \in Copies!Changes(j) : Placed(j, p) \/ Cleaned(j, p)
  <1>1. CASE index = j.previous
    <2>1. Copies!Changes(j) = {}
      BY <1>1 DEF Copies!Committed, Copies!Changes, Copies!Before, Copies!After
    <2> QED
      BY <2>1
  <1>2. CASE index # j.previous
    BY <1>2 DEF Journaled
  <1> QED
    BY <1>1, <1>2

\* Steps that leave the files as they are.
Still == UNCHANGED <<target, staged, backup, index, manifest, journal, txs, edited, kept>>

LEMMA StillKeeps ==
    ASSUME Here, Still
    PROVE  /\ Filed' /\ (journal' # None => journal'.tx <= txs') /\ Spare' /\ Copies!UserTextKept' /\ Sound'
           /\ (\A j : Journaled(j)' <=> Journaled(j)) /\ (\A j : Copies!Committed(j)' <=> Copies!Committed(j))
           /\ \A j, p : /\ Untouched(j, p)' <=> Untouched(j, p)
                        /\ Placed(j, p)' <=> Placed(j, p)
                        /\ Cleaned(j, p)' <=> Cleaned(j, p)
  <1>1. /\ (\A j : Journaled(j)' <=> Journaled(j)) /\ (\A j : Copies!Committed(j)' <=> Copies!Committed(j))
        /\ (Rest' <=> Rest)
        /\ \A j, p : /\ Untouched(j, p)' <=> Untouched(j, p)
                     /\ Placed(j, p)' <=> Placed(j, p)
                     /\ Cleaned(j, p)' <=> Cleaned(j, p)
    BY DEF Still, Journaled, Copies!Committed, Rest, Untouched, Moved, Placed, Cleaned
  <1>2. Filed' /\ (journal' # None => journal'.tx <= txs') /\ Spare' /\ Copies!UserTextKept'
    BY HereIs DEF Still, Filed, Works, Spare, Copies!UserTextKept
  <1>3. Sound'
    BY <1>1, HereIs DEF Still, Sound
  <1> QED
    BY <1>1, <1>2, <1>3

\* Nobody who finds the files as they should be refuses.
LEMMA Refuses ==
    ASSUME Here, NEW w \in Writers, Mine(w), Copies!Refuse(w), Still, edited
    PROVE  Filing(w)
  <1>1. at'[w] = "refused"
    BY HereIs DEF Copies!Refuse, Copies!GoTo, Local
  <1>2. WorksOf(w)'
    BY <1>1 DEF WorksOf, Copies!Under
  <1> QED
    BY <1>2, StillKeeps DEF Filing

LEMMA ApplyKeeps ==
    ASSUME Here, NEW w \in Writers, NEW j \in Copies!Journals, journal = j, Mine(w), Copies!Apply(w, j), Still
    PROVE  Filing(w)
  <1>1. j # None /\ Copies!Changes(j) \subseteq Paths
    BY HereIs, JournalIs
  <1>2. CASE Copies!Foreign(j)
    <2>1. edited
      BY <1>1, <1>2, HereIs, NotForeign DEF Sound
    <2> QED
      BY <1>2, <2>1, Refuses DEF Copies!Apply
  <1>3. CASE ~ Copies!Foreign(j)
    <2>1. /\ at'[w] = IF Copies!Committed(j) THEN "verify" ELSE "file"
          /\ mine'[w] = j /\ todo'[w] = Copies!Changes(j) /\ journal' = j
      BY <1>3, HereIs DEF Copies!Apply, Copies!GoTo, Local, Still
    <2>2. WorksOf(w)'
      <3>1. Copies!Changes(mine[w])' = Copies!Changes(j)
        BY <2>1 DEF Copies!Changes, Copies!Before, Copies!After, Copies!FilesOf
      <3> QED
        BY <1>1, <2>1, <3>1 DEF WorksOf, Copies!Under
    <2>3. Steady(w)'
      <3>1. Copies!Changes(mine[w])' = Copies!Changes(j)
        BY <2>1 DEF Copies!Changes, Copies!Before, Copies!After, Copies!FilesOf
      <3>2. Copies!Committed(mine[w])' <=> Copies!Committed(j)
        BY <2>1 DEF Still, Copies!Committed
      <3> QED
        BY <2>1, <3>1, <3>2 DEF Steady
    <2> QED
      BY <2>2, <2>3, StillKeeps DEF Filing
  <1> QED
    BY <1>2, <1>3

LEMMA RecoverStep ==
    ASSUME Here, NEW w \in Writers, Copies!Recover(w)
    PROVE  Filing(w)
  <1>1. Mine(w) /\ Still
    BY Steps DEF WorkStep, Copies!Recover, Copies!Apply, Copies!Refuse, Copies!files, Copies!meta, Copies!alone,
       Copies!Keeping, Still
  <1>2. CASE journal = None
    <2>1. at'[w] = "prepare" /\ want'[w] = want[w] /\ want[w] # None /\ journal' = None
      BY <1>2, HereIs DEF Copies!Recover, Copies!GoTo, Local, WorksOf, Copies!files
    <2> QED
      BY <1>1, <2>1, StillKeeps DEF Filing, WorksOf, Steady, Copies!Under
  <1>3. CASE journal # None
    BY <1>1, <1>3, HereIs, ApplyKeeps DEF Copies!Recover, Filed
  <1> QED
    BY <1>2, <1>3

LEMMA ApplyOwnStep ==
    ASSUME Here, NEW w \in Writers, Copies!ApplyOwn(w)
    PROVE  Filing(w)
  <1>1. Mine(w) /\ Still
    BY Steps DEF WorkStep, Copies!ApplyOwn, Copies!Apply, Copies!Refuse, Copies!files, Copies!meta, Copies!alone,
       Copies!Keeping, Still
  <1> QED
    BY <1>1, Applying, ApplyKeeps DEF Copies!ApplyOwn, Copies!Under

\* The journal of a writer: what it has to do before and after a step that keeps it.
LEMMA SameJournal ==
    ASSUME NEW w \in Writers, mine'[w] = mine[w]
    PROVE  /\ Copies!Changes(mine[w])' = Copies!Changes(mine[w])
           /\ Copies!Before(mine[w])' = Copies!Before(mine[w]) /\ Copies!After(mine[w])' = Copies!After(mine[w])
           /\ (todo'[w] = todo[w] => Copies!NextFile(w)' = Copies!NextFile(w))
  <1>1. Copies!Before(mine[w])' = Copies!Before(mine[w]) /\ Copies!After(mine[w])' = Copies!After(mine[w])
    BY DEF Copies!Before, Copies!After, Copies!FilesOf
  <1>2. Copies!Changes(mine[w])' = Copies!Changes(mine[w])
    BY <1>1 DEF Copies!Changes
  <1>3. todo'[w] = todo[w] => Copies!NextFile(w)' = Copies!NextFile(w)
    BY DEF Copies!NextFile
  <1> QED
    BY <1>1, <1>2, <1>3
\* The texts that are written, and what they are linked with.
LEMMA AtIs ==
    \A content, tx : /\ At(content, tx).text = content /\ At(content, tx).tx = tx
                     /\ (At(content, tx) = Copies!Absent <=> content = None /\ tx = 0)
  BY DEF At, Copies!Absent

LEMMA LookStep ==
    ASSUME Here, NEW w \in Writers, Copies!Look(w)
    PROVE  Filing(w)
  <1>1. Mine(w) /\ Still
    BY Steps DEF WorkStep, Copies!Look, Copies!Refuse, Copies!Done, Copies!files, Copies!meta, Copies!alone,
       Copies!Keeping, Still
  <1>0. PICK j \in Copies!Journals, p \in Paths : j = mine[w] /\ p = Copies!NextFile(w)
    BY Applying, NextInTodo DEF Copies!Look, Copies!Under
  <1> DEFINE saved == backup[j.tx][p] # None
             old == Copies!Before(j)[p] # None
  <1>2. /\ at[w] = "file" /\ journal = j /\ p \in todo[w] /\ p \in Copies!Changes(j)
        /\ (~ edited => Journaled(j) /\ Steady(w)) /\ todo[w] \subseteq Copies!Changes(j)
    BY <1>0, Applying, NextInTodo, HereIs DEF Copies!Look, Copies!Under, WorksOf
  <1>3. /\ p \in Paths /\ Copies!Before(j)[p] # Copies!After(j)[p] /\ j.tx \in Copies!Tx /\ j # None
        /\ Copies!Changes(j) \subseteq Paths
        /\ Copies!Before(j) \in [Paths -> Contents \cup {None}]
        /\ Copies!After(j) \in [Paths -> Contents \cup {None}]
    BY <1>2, HereIs, JournalIs
  <1>4. ~ edited => Untouched(j, p) \/ Moved(j, p) \/ Placed(j, p)
    BY <1>0, <1>2, BeforeCommit DEF Steady
  <1>5. j.tx # 0
    BY <1>3, HereIs DEF Copies!Tx, Copies!CopiesAssumption
  <1>6. mine'[w] = mine[w] /\ journal' = journal
    BY <1>1, HereIs DEF Copies!Look, Copies!Refuse, Copies!Done, Local, Copies!files, Still
  <1>7. CASE Copies!Refuse(w)
    <2>1. ASSUME ~ edited PROVE FALSE
      <3>1. ~ Copies!Conflict(backup[j.tx][p], Copies!Before(j)[p])
        BY <1>4, <2>1 DEF Copies!Conflict, Untouched, Moved, Placed
      <3>2. at'[w] = "refused"
        BY <1>7, HereIs DEF Copies!Refuse, Copies!GoTo, Local
      <3>3. ~ Copies!Installed(j, p)
        BY <1>0, <1>2, <3>1, <3>2, HereIs DEF Copies!Look, Copies!Done, Local
      <3>4. ~ Placed(j, p) \/ (Copies!After(j)[p] = None /\ target[p] = Copies!Absent)
        BY <3>3 DEF Placed, Copies!Installed, At
      <3>5. CASE target[p] # Copies!Absent
        <4>1. Untouched(j, p)
          BY <1>4, <2>1, <3>4, <3>5 DEF Moved
        <4>2. old /\ ~ saved /\ target[p].text = Copies!Before(j)[p]
          BY <3>5, <4>1, AtIs DEF Untouched
        <4> QED
          BY <1>0, <1>2, <3>1, <3>2, <3>3, <3>5, <4>2, HereIs DEF Copies!Look, Copies!GoTo, Local
      <3>6. CASE target[p] = Copies!Absent
        <4>1. ~ (old /\ ~ saved)
          BY <1>4, <2>1, <3>6, AtIs DEF Untouched, Moved, Placed
        <4> QED
          BY <1>0, <1>2, <3>1, <3>2, <3>3, <3>6, <4>1, HereIs DEF Copies!Look, Copies!GoTo, Local
      <3> QED
        BY <3>5, <3>6
    <2> QED
      BY <1>1, <1>7, <2>1, Refuses, HereIs DEF Filed
  <1>8. CASE Copies!Installed(j, p) /\ UNCHANGED at /\ Copies!Done(w, p)
    <2>1. todo'[w] = todo[w] \ {p} /\ at'[w] = "file"
      BY <1>2, <1>8, HereIs DEF Copies!Done, Local
    <2>2. WorksOf(w)'
      BY <1>0, <1>2, <1>3, <1>6, <2>1, SameJournal DEF WorksOf, Copies!Under
    <2>3. ASSUME ~ edited PROVE Steady(w)'
      <3>1. Placed(j, p)
        BY <1>4, <1>5, <1>8, <2>3, AtIs DEF Untouched, Moved, Copies!Installed
      <3>2. ~ Copies!Committed(j) /\ \A q \in Copies!Changes(j) \ todo[w] : Placed(j, q)
        BY <1>0, <1>2, <2>3 DEF Steady
      <3>3. ~ Copies!Committed(j)' /\ \A q \in Copies!Changes(j) \ todo'[w] : Placed(j, q)'
        BY <1>1, <2>1, <3>1, <3>2, StillKeeps
      <3> QED
        BY <1>0, <1>6, <2>1, <3>3, SameJournal DEF Steady
    <2> QED
      BY <1>1, <2>2, <2>3, StillKeeps DEF Filing
  <1>9. ASSUME ~ Copies!Refuse(w), ~ (Copies!Installed(j, p) /\ UNCHANGED at /\ Copies!Done(w, p)) PROVE Filing(w)
    <2>1. /\ todo'[w] = todo[w] /\ ~ Copies!Conflict(backup[j.tx][p], Copies!Before(j)[p])
          /\ ~ Copies!Installed(j, p)
          /\ \/ target[p] # Copies!Absent /\ old /\ ~ saved /\ target[p].text = Copies!Before(j)[p] /\ at'[w] = "move"
             \/ target[p] = Copies!Absent /\ ~ (old /\ ~ saved) /\ at'[w] = "place"
      BY <1>0, <1>9, HereIs DEF Copies!Look, Copies!GoTo, Local
    <2>2. WorksOf(w)'
      <3>1. backup' = backup /\ Copies!NextFile(w)' = p
        BY <1>0, <1>1, <1>6, <2>1, SameJournal DEF Still
      <3> QED
        BY <1>0, <1>2, <1>3, <1>6, <2>1, <3>1, SameJournal DEF WorksOf, Copies!Under
    <2>3. ASSUME ~ edited PROVE Steady(w)'
      <3>1. ~ Copies!Committed(j) /\ \A q \in Copies!Changes(j) \ todo[w] : Placed(j, q)
        BY <1>0, <1>2, <2>3 DEF Steady
      <3>2. ~ Copies!Committed(j)' /\ \A q \in Copies!Changes(j) \ todo'[w] : Placed(j, q)'
        BY <1>1, <2>1, <3>1, StillKeeps
      <3>3. at'[w] = "move" => Untouched(j, p)' /\ Copies!Before(j)[p] # None
        <4>1. at'[w] = "move" => Untouched(j, p)
          BY <1>4, <2>1, <2>3, AtIs DEF Moved, Placed, Copies!Installed
        <4> QED
          BY <1>1, <2>1, <4>1, StillKeeps
      <3>4. at'[w] = "place" => target[p] = Copies!Absent /\ staged[j.tx][p] = Copies!After(j)[p] /\ backup[j.tx][p] = Copies!Before(j)[p]
        BY <1>4, <2>1, <2>3, AtIs DEF Untouched, Moved, Placed
      <3>5. UNCHANGED <<target, staged, backup>> /\ Copies!NextFile(w)' = p
        BY <1>0, <1>1, <1>6, <2>1, SameJournal DEF Still
      <3> QED
        BY <1>0, <1>6, <2>1, <3>2, <3>3, <3>4, <3>5, SameJournal DEF Steady
    <2> QED
      BY <1>1, <2>2, <2>3, StillKeeps DEF Filing
  <1> QED
    BY <1>7, <1>8, <1>9

\* Where the files are copied the check of the copies finds them so.
LEMMA Copied ==
    ASSUME Copies!CopiesAssumption, NEW j \in Copies!Journals, Journaled(j),
           \A p \in Copies!Changes(j) : Placed(j, p) \/ Cleaned(j, p)
    PROVE  Copies!AllCopied(j)
  <1> SUFFICES ASSUME NEW p \in Paths
               PROVE  IF Copies!After(j)[p] # None THEN target[p].text = Copies!After(j)[p] ELSE Copies!Before(j)[p] # None => target[p] = Copies!Absent
    BY DEF Copies!AllCopied
  <1>1. CASE p \in Copies!Changes(j)
    BY <1>1, AtIs DEF Placed, Cleaned
  <1>2. CASE p \notin Copies!Changes(j)
    BY <1>2, JournalIs, AtIs DEF Journaled
  <1> QED
    BY <1>1, <1>2

LEMMA VerifyStep ==
    ASSUME Here, NEW w \in Writers, Copies!Verify(w)
    PROVE  Filing(w)
  <1>1. Mine(w) /\ Still
    BY Steps DEF WorkStep, Copies!Verify, Copies!Refuse, Copies!files, Copies!meta, Copies!alone, Copies!Keeping,
       Still
  <1>2. /\ at[w] = "verify" /\ mine[w] \in Copies!Journals /\ journal = mine[w] /\ mine[w] # None
        /\ (~ edited => Journaled(mine[w]) /\ Copies!Committed(mine[w]))
    BY Applying DEF Copies!Verify, Copies!Under, Steady
  <1>3. ~ edited => Copies!AllCopied(mine[w])
    BY <1>2, HereIs, AfterCommit, Copied
  <1>4. CASE ~ Copies!AllCopied(mine[w])
    BY <1>1, <1>3, <1>4, Refuses, HereIs DEF Copies!Verify, Filed
  <1>5. CASE Copies!AllCopied(mine[w])
    <2>1. at'[w] = "clean" /\ mine'[w] = mine[w] /\ todo'[w] = Copies!Changes(mine[w]) /\ journal' = journal
      BY <1>5, HereIs DEF Copies!Verify, Copies!GoTo, Local, Copies!files
    <2>2. WorksOf(w)'
      BY <1>2, <2>1, SameJournal DEF WorksOf, Copies!Under
    <2>3. ~ edited => Steady(w)'
      BY <1>1, <1>2, <2>1, SameJournal, StillKeeps DEF Steady
    <2> QED
      BY <1>1, <2>2, <2>3, StillKeeps DEF Filing
  <1> QED
    BY <1>4, <1>5

LEMMA PrepareStep ==
    ASSUME Here, NEW w \in Writers, Copies!Prepare(w)
    PROVE  Filing(w)
  <1>1. Mine(w)
    BY Steps DEF WorkStep
  <1>2. at[w] = "prepare" /\ journal = None /\ want[w] \in Snapshots /\ (~ edited => Rest)
    BY HereIs DEF Copies!Prepare, WorksOf, Local, Sound
  <1>3. CASE ~ Copies!Prepared(want[w])
    <2>1. Copies!Refuse(w) /\ Still
      BY <1>3 DEF Copies!Prepare, Copies!Refuse, Copies!files, Copies!meta, Copies!alone, Copies!Keeping, Still
    <2>2. edited
      BY <1>2, <1>3, AtIs DEF Rest, Copies!Prepared
    <2> QED
      BY <1>1, <2>1, <2>2, Refuses
  <1>4. CASE Copies!Prepared(want[w])
    <2>4. txs \in 0 .. MaxTx /\ MaxTx \in Nat
      BY HereIs DEF Filed, Copies!CopiesAssumption
    <2>0. PICK t \in Copies!Tx : t = txs + 1
      BY <1>4, <2>4 DEF Copies!Prepare, Copies!Tx
    <2>2. PICK j \in Copies!Journals : j = [tx |-> t, previous |-> index, manifest |-> manifest, desired |-> want[w]]
      BY <1>2, HereIs DEF Copies!Journals, Filed
    <2> DEFINE new == [p \in Paths |-> IF p \in Copies!Changes(j) THEN Copies!After(j)[p] ELSE None]
    <2>1. /\ txs' = t /\ mine'[w] = j /\ at'[w] = "journal" /\ staged' = [staged EXCEPT ![t] = new]
          /\ UNCHANGED <<target, backup, index, manifest, journal, edited, kept>>
      BY <1>4, <2>0, <2>2, HereIs DEF Copies!Prepare, Copies!GoTo, Copies!meta, Local
    <2>3. j.tx = t /\ j.previous = index /\ j.manifest = manifest
      BY <2>2
    <2>5. /\ j # None /\ Copies!Changes(j) \subseteq Paths
          /\ Copies!Before(j) \in [Paths -> Contents \cup {None}]
          /\ Copies!After(j) \in [Paths -> Contents \cup {None}]
      BY <2>2, HereIs, JournalIs
    <2>6. new \in [Paths -> Copies!Texts]
      BY <2>5 DEF Copies!Texts
    <2>7. \A q \in Copies!Changes(j) : new[q] = Copies!After(j)[q]
      BY <2>5
    <2> HIDE DEF new
    <2>8. Filed'
      BY <2>1, <2>6, HereIs DEF Filed, Copies!Tx
    <2>9. WorksOf(w)'
      <3>1. t <= t
        BY <2>0, <2>4
      <3> QED
        BY <1>2, <2>1, <2>3, <2>5, <3>1 DEF WorksOf, Copies!Under
    <2>10. Spare'
      <3>1. staged \in [Copies!Tx -> [Paths -> Copies!Texts]]
            /\ target \in [Paths -> [text : Copies!Texts, tx : 0 .. MaxTx]]
        BY HereIs DEF Filed
      <3>2. \A s \in Copies!Tx : s > t => s # t /\ s > txs
        BY <2>0, <2>4 DEF Copies!Tx
      <3>3. \A p \in Paths : target[p].tx <= t
        <4> SUFFICES ASSUME NEW p \in Paths PROVE target[p].tx <= t
          OBVIOUS
        <4>1. target[p].tx \in 0 .. MaxTx /\ target[p].tx <= txs
          BY <3>1, HereIs DEF Spare
        <4> QED
          BY <2>0, <2>4, <4>1
      <3> QED
        BY <2>1, <3>1, <3>2, <3>3, HereIs DEF Spare
    <2>11. Copies!UserTextKept'
      BY <2>1, HereIs DEF Copies!UserTextKept
    <2>12. ASSUME ~ edited PROVE Sound' /\ Steady(w)'
      <3>1. Rest
        BY <1>2, <2>12
      <3>2. Sound'
        BY <1>2, <2>1, <3>1 DEF Sound, Rest
      <3>3. \A q \in Copies!Changes(j) : Untouched(j, q)'
        <4> SUFFICES ASSUME NEW q \in Copies!Changes(j) PROVE Untouched(j, q)'
          OBVIOUS
        <4>1. q \in Paths /\ target[q] = At(Copies!Before(j)[q], 0)
          BY <2>3, <2>5, <3>1 DEF Rest, Copies!Before
        <4>2. backup[t][q] = None
          <5>1. t > txs
            BY <2>0, <2>4
          <5> QED
            BY <2>1, <4>1, <5>1, HereIs DEF Spare, Copies!NoFiles
        <4>3. staged'[t][q] = Copies!After(j)[q]
          BY <2>1, <2>7, HereIs DEF Filed
        <4> QED
          BY <2>1, <2>3, <4>1, <4>2, <4>3 DEF Untouched
      <3>4. Copies!Changes(mine[w])' = Copies!Changes(j)
        BY <2>1 DEF Copies!Changes, Copies!Before, Copies!After, Copies!FilesOf
      <3>5. Steady(w)'
        BY <2>1, <2>3, <3>3, <3>4 DEF Steady, Untouched
      <3> QED
        BY <3>2, <3>5
    <2> QED
      BY <1>2, <2>1, <2>8, <2>9, <2>10, <2>11, <2>12 DEF Filing
  <1> QED
    BY <1>3, <1>4

LEMMA WriteJournalStep ==
    ASSUME Here, NEW w \in Writers, Copies!WriteJournal(w)
    PROVE  Filing(w)
  <1>0. PICK j \in Copies!Journals : j = mine[w]
    BY ItsJournal DEF Copies!WriteJournal, Copies!Under
  <1>1. at[w] = "journal" /\ j # None /\ journal = None /\ j.tx <= txs /\ (~ edited => Rest /\ Steady(w))
    BY <1>0, HereIs DEF Copies!WriteJournal, WorksOf, Copies!Under, Sound
  <1>2. /\ at'[w] = "apply" /\ journal' = j /\ mine'[w] = j
        /\ UNCHANGED <<target, staged, backup, index, manifest, txs, edited, kept>>
    BY <1>0, HereIs DEF Copies!WriteJournal, Copies!GoTo, Local, Copies!alone, Copies!Keeping
  <1>3. Filed' /\ Spare' /\ Copies!UserTextKept'
    BY <1>1, <1>2, HereIs DEF Filed, Spare, Copies!UserTextKept
  <1>4. WorksOf(w)'
    BY <1>1, <1>2 DEF WorksOf, Copies!Under
  <1>5. Steady(w)'
    BY <1>2 DEF Steady
  <1>6. ASSUME ~ edited PROVE Sound'
    <2>1. /\ j.previous = index /\ j.manifest = manifest /\ \A q \in Copies!Changes(j) : Untouched(j, q)
      BY <1>0, <1>1, <1>6 DEF Steady
    <2>2. \A p \in Paths \ Copies!Changes(j) : target[p] = At(Copies!After(j)[p], 0)
      <3>1. \A p \in Paths : target[p] = At(Copies!Before(j)[p], 0)
        BY <1>1, <1>6, <2>1 DEF Rest, Copies!Before
      <3> QED
        BY <1>1, <3>1, HereIs, JournalIs
    <2>3. index # None => manifest = index
      BY <1>1, <1>6 DEF Rest
    <2>4. Journaled(j)
      BY <2>1, <2>2, <2>3 DEF Journaled
    <2>5. Journaled(j)'
      BY <1>2, <2>4 DEF Journaled, Copies!Committed, Untouched, Moved, Placed, Cleaned
    <2> QED
      BY <1>1, <1>2, <2>5 DEF Sound
  <1> QED
    BY <1>1, <1>2, <1>3, <1>4, <1>5, <1>6 DEF Filing

\* The metadata is written when every file of the journal is in place.
LEMMA WriteIndexStep ==
    ASSUME Here, NEW w \in Writers, Copies!WriteIndex(w)
    PROVE  Filing(w)
  <1>1. Mine(w)
    BY Steps DEF WorkStep
  <1>0. PICK j \in Copies!Journals : j = mine[w]
    BY Applying DEF Copies!WriteIndex, Copies!Under
  <1>2. at[w] = "file" /\ todo[w] = {} /\ journal = j /\ j # None /\ (~ edited => Journaled(j) /\ Steady(w))
    BY <1>0, Applying, HereIs, JournalIs DEF Copies!WriteIndex, Copies!Under
  <1>3. ~ edited => ~ Copies!Committed(j) /\ \A p \in Copies!Changes(j) : Placed(j, p)
    BY <1>0, <1>2 DEF Steady
  <1>4. CASE Copies!Refuse(w)
    <2>1. Still
      BY <1>4 DEF Copies!WriteIndex, Copies!Refuse, Copies!files, Copies!meta, Copies!alone, Copies!Keeping, Still
    <2>2. edited
      <3>1. ASSUME ~ edited PROVE Copies!AllCopied(j) /\ ~ Copies!Foreign(j)
        BY <1>2, <1>3, <3>1, HereIs, Copied, NotForeign
      <3>2. at'[w] = "refused"
        BY <1>4, HereIs DEF Copies!Refuse, Copies!GoTo, Local
      <3> QED
        BY <1>0, <3>1, <3>2, HereIs DEF Copies!WriteIndex, Copies!GoTo, Local, Filed
    <2> QED
      BY <1>1, <1>4, <2>1, <2>2, Refuses
  <1>5. CASE ~ Copies!Refuse(w)
    <2>1. /\ index' = j.desired /\ at'[w] = "manifest" /\ mine'[w] = mine[w] /\ ~ Copies!Foreign(j)
          /\ UNCHANGED <<target, staged, backup, manifest, journal, txs, edited, kept>>
      BY <1>0, <1>5, HereIs DEF Copies!WriteIndex, Copies!GoTo, Local, Copies!alone, Copies!Keeping
    <2>2. Filed' /\ Spare' /\ Copies!UserTextKept' /\ (journal' # None => journal'.tx <= txs')
      <3>1. j.desired \in Snapshots
        BY DEF Copies!Journals
      <3> QED
        BY <2>1, <3>1, HereIs DEF Filed, Spare, Copies!UserTextKept, Works
    <2>3. WorksOf(w)'
      BY <1>0, <1>2, <2>1 DEF WorksOf, Copies!Under
    <2>4. ASSUME ~ edited PROVE Sound' /\ Steady(w)'
      <3>1. Steady(w)'
        BY <1>0, <2>1 DEF Steady
      <3>2. manifest = j.manifest
        BY <1>2, <1>3, <2>4, BeforeCommit
      <3>3. Journaled(j)'
        <4>1. \A p \in Copies!Changes(j) : Placed(j, p)'
          BY <1>3, <2>1, <2>4 DEF Placed
        <4> QED
          BY <1>2, <2>1, <2>4, <3>2, <4>1 DEF Journaled
      <3> QED
        BY <1>2, <2>1, <3>1, <3>3 DEF Sound
    <2> QED
      BY <2>2, <2>3, <2>4 DEF Filing
  <1> QED
    BY <1>4, <1>5

LEMMA WriteManifestStep ==
    ASSUME Here, NEW w \in Writers, Copies!WriteManifest(w)
    PROVE  Filing(w)
  <1>1. Mine(w)
    BY Steps DEF WorkStep
  <1>0. PICK j \in Copies!Journals : j = mine[w]
    BY Applying DEF Copies!WriteManifest, Copies!Under
  <1>2. at[w] = "manifest" /\ journal = j /\ j # None /\ (~ edited => Journaled(j) /\ index = j.desired)
    BY <1>0, Applying, HereIs, JournalIs DEF Copies!WriteManifest, Copies!Under, Steady
  <1>4. CASE Copies!Refuse(w)
    <2>1. Still
      BY <1>4 DEF Copies!WriteManifest, Copies!Refuse, Copies!files, Copies!meta, Copies!alone, Copies!Keeping,
         Still
    <2>2. edited
      <3>1. ~ edited => ~ Copies!Foreign(j)
        BY <1>2, HereIs, NotForeign
      <3>2. at'[w] = "refused"
        BY <1>4, HereIs DEF Copies!Refuse, Copies!GoTo, Local
      <3> QED
        BY <1>0, <3>1, <3>2, HereIs DEF Copies!WriteManifest, Copies!GoTo, Local, Filed
    <2> QED
      BY <1>1, <1>4, <2>1, <2>2, Refuses
  <1>5. CASE ~ Copies!Refuse(w)
    <2>1. /\ manifest' = j.desired /\ at'[w] = "verify" /\ mine'[w] = mine[w]
          /\ UNCHANGED <<target, staged, backup, index, journal, txs, edited, kept>>
      BY <1>0, <1>5, HereIs DEF Copies!WriteManifest, Copies!GoTo, Local, Copies!alone, Copies!Keeping
    <2>2. Filed' /\ Spare' /\ Copies!UserTextKept' /\ (journal' # None => journal'.tx <= txs')
      <3>1. j.desired \in Snapshots
        BY DEF Copies!Journals
      <3> QED
        BY <2>1, <3>1, HereIs DEF Filed, Spare, Copies!UserTextKept, Works
    <2>3. WorksOf(w)'
      BY <1>0, <1>2, <2>1 DEF WorksOf, Copies!Under
    <2>4. ASSUME ~ edited PROVE Sound' /\ Steady(w)'
      <3>1. Copies!Committed(j)'
        BY <1>2, <2>1, <2>4 DEF Copies!Committed
      <3>2. Steady(w)'
        BY <1>0, <2>1, <3>1 DEF Steady
      <3>3. Journaled(j)'
        <4>1. \A p \in Copies!Changes(j) : Placed(j, p) \/ Cleaned(j, p)
          <5>1. CASE Copies!Committed(j)
            BY <1>2, <2>4, <5>1, HereIs, AfterCommit
          <5>2. CASE index = j.previous
            <6>1. Copies!Changes(j) = {}
              BY <1>2, <2>4, <5>2 DEF Copies!Changes, Copies!Before, Copies!After
            <6> QED
              BY <6>1
          <5>3. CASE ~ Copies!Committed(j) /\ index # j.previous
            BY <1>2, <2>4, <5>3 DEF Journaled
          <5> QED
            BY <5>1, <5>2, <5>3
        <4>2. \A p \in Copies!Changes(j) : Placed(j, p)' \/ Cleaned(j, p)'
          BY <2>1, <4>1 DEF Placed, Cleaned
        <4> QED
          BY <1>2, <2>1, <2>4, <3>1, <4>2 DEF Journaled
      <3> QED
        BY <1>2, <2>1, <3>2, <3>3 DEF Sound
    <2> QED
      BY <2>2, <2>3, <2>4 DEF Filing
  <1> QED
    BY <1>4, <1>5

LEMMA FinishStep ==
    ASSUME Here, NEW w \in Writers, Copies!Finish(w)
    PROVE  Filing(w)
  <1>0. PICK j \in Copies!Journals : j = mine[w]
    BY Applying DEF Copies!Finish, Copies!Under
  <1>1. at[w] = "clean" /\ todo[w] = {} /\ journal = j /\ (~ edited => Journaled(j) /\ Steady(w))
    BY <1>0, Applying DEF Copies!Finish, Copies!Under
  <1>2. /\ journal' = None /\ at'[w] = (IF want[w] = None THEN "release" ELSE "prepare") /\ want'[w] = want[w]
        /\ UNCHANGED <<target, staged, backup, index, manifest, txs, edited, kept>>
    BY <1>0, <1>1, HereIs DEF Copies!Finish, Copies!GoTo, Local, Copies!alone, Copies!Keeping
  <1>3. Filed' /\ Spare' /\ Copies!UserTextKept'
    BY <1>2, HereIs DEF Filed, Spare, Copies!UserTextKept
  <1>4. WorksOf(w)'
    BY <1>2 DEF WorksOf, Copies!Under
  <1>5. ASSUME ~ edited PROVE Sound' /\ Steady(w)'
    <2>1. Steady(w)'
      BY <1>2 DEF Steady
    <2>2. Copies!Committed(j) /\ \A q \in Copies!Changes(j) : Cleaned(j, q)
      BY <1>0, <1>1, <1>5 DEF Steady
    <2>3. \A p \in Paths : target[p] = At(Copies!After(j)[p], 0)
      BY <1>1, <1>5, <2>2 DEF Journaled, Cleaned
    <2>4. Rest
      BY <2>2, <2>3 DEF Rest, Copies!Committed, Copies!After
    <2> QED
      BY <1>2, <2>1, <2>4 DEF Sound, Rest
  <1> QED
    BY <1>2, <1>3, <1>4, <1>5 DEF Filing

\* One path of the journal has changed: what that makes of the whole.
LEMMA Onward ==
    ASSUME NEW j \in Copies!Journals, NEW p \in Copies!Changes(j), Journaled(j),
           UNCHANGED <<index, manifest>>,
           \A q \in Paths \ {p} : /\ target'[q] = target[q]
                                  /\ staged'[j.tx][q] = staged[j.tx][q] /\ backup'[j.tx][q] = backup[j.tx][q],
           \/ ~ Copies!Committed(j) /\ Placed(j, p)'
           \/ ~ Copies!Committed(j) /\ Moved(j, p)' /\ ~ Placed(j, p)
           \/ Copies!Committed(j) /\ Cleaned(j, p)' /\ \A q \in Copies!Changes(j) : Placed(j, q) \/ Cleaned(j, q)
    PROVE  Journaled(j)'
  <1>1. Copies!Changes(j) \subseteq Paths
    BY DEF Copies!Changes
  <1>2. \A q \in Copies!Changes(j) \ {p} : /\ Untouched(j, q)' <=> Untouched(j, q)
                                           /\ Moved(j, q)' <=> Moved(j, q)
                                           /\ Placed(j, q)' <=> Placed(j, q)
                                           /\ Cleaned(j, q)' <=> Cleaned(j, q)
    BY <1>1 DEF Untouched, Moved, Placed, Cleaned
  <1>3. Copies!Committed(j)' <=> Copies!Committed(j)
    BY DEF Copies!Committed
  <1>4. \A q \in Paths \ Copies!Changes(j) : target'[q] = At(Copies!After(j)[q], 0)
    BY DEF Journaled
  <1>5. /\ j.previous # None => j.manifest = j.previous
    BY DEF Journaled
  <1>6. CASE ~ Copies!Committed(j) /\ Placed(j, p)'
    BY <1>2, <1>4, <1>5, <1>6 DEF Journaled
  <1>7. CASE ~ Copies!Committed(j) /\ Moved(j, p)' /\ ~ Placed(j, p)
    BY <1>2, <1>4, <1>5, <1>7 DEF Journaled
  <1>8. CASE Copies!Committed(j) /\ Cleaned(j, p)' /\ \A q \in Copies!Changes(j) : Placed(j, q) \/ Cleaned(j, q)
    BY <1>2, <1>3, <1>4, <1>5, <1>8 DEF Journaled
  <1> QED
    BY <1>6, <1>7, <1>8

\* The user's texts stay where a step changes one path.
LEMMA TextsStay ==
    ASSUME Copies!UserTextKept, NEW p, UNCHANGED kept, NEW t \in Copies!Tx, kept \subseteq Paths,
           \A q \in Paths \ {p} : target'[q].text = target[q].text,
           \A q \in Paths, s \in Copies!Tx : q # p \/ s # t => backup'[s][q] = backup[s][q],
           target[p].text = Own => target'[p].text = Own \/ backup'[t][p] = Own,
           backup[t][p] = Own => backup'[t][p] = Own
    PROVE  Copies!UserTextKept'
  <1> SUFFICES ASSUME NEW q \in kept
               PROVE  target'[q].text = Own \/ \E s \in Copies!Tx : backup'[s][q] = Own
    BY DEF Copies!UserTextKept
  <1>1. CASE target[q].text = Own
    BY <1>1
  <1>2. CASE target[q].text # Own
    <2>1. PICK s \in Copies!Tx : backup[s][q] = Own
      BY <1>2 DEF Copies!UserTextKept
    <2>2. backup'[s][q] = Own
      BY <2>1
    <2> QED
      BY <2>2
  <1> QED
    BY <1>1, <1>2

LEMMA MoveStep ==
    ASSUME Here, NEW w \in Writers, Copies!Move(w)
    PROVE  Filing(w)
  <1>1. Mine(w)
    BY Steps DEF WorkStep
  <1>0. PICK j \in Copies!Journals, p \in Paths : j = mine[w] /\ p = Copies!NextFile(w)
    BY Applying, NextInTodo, HereIs DEF Copies!Move, Copies!Under, WorksOf
  <1>2. /\ at[w] = "move" /\ journal = j /\ j.tx <= txs /\ p \in todo[w] /\ p \in Copies!Changes(j)
        /\ (~ edited => Journaled(j) /\ Steady(w)) /\ todo[w] \subseteq Copies!Changes(j)
        /\ backup[j.tx][p] = None
    BY <1>0, Applying, NextInTodo, HereIs DEF Copies!Move, Copies!Under, WorksOf
  <1>3. j.tx \in Copies!Tx /\ j # None
    BY HereIs, JournalIs
  <1>4. /\ target \in [Paths -> [text : Copies!Texts, tx : 0 .. MaxTx]]
        /\ staged \in [Copies!Tx -> [Paths -> Copies!Texts]]
        /\ backup \in [Copies!Tx -> [Paths -> Copies!Texts]] /\ MaxTx \in Nat /\ txs \in 0 .. MaxTx
        /\ kept \subseteq Paths
    BY HereIs DEF Filed, Copies!CopiesAssumption
  <1>5. ~ edited => ~ Copies!Committed(j) /\ Untouched(j, p) /\ Copies!Before(j)[p] # None /\ \A q \in Copies!Changes(j) \ todo[w] : Placed(j, q)
    BY <1>0, <1>2 DEF Steady
  <1>6. CASE target[p] = Copies!Absent
    <2>1. Copies!Refuse(w) /\ Still
      BY <1>0, <1>6 DEF Copies!Move, Copies!Refuse, Copies!files, Copies!meta, Copies!alone, Copies!Keeping, Still
    <2>2. edited
      BY <1>5, <1>6, AtIs DEF Untouched
    <2> QED
      BY <1>1, <2>1, <2>2, Refuses
  <1>7. CASE target[p] # Copies!Absent
    <2>1. /\ backup' = [backup EXCEPT ![j.tx][p] = target[p].text]
          /\ target' = [target EXCEPT ![p] = Copies!Absent]
          /\ at'[w] = "place" /\ mine'[w] = mine[w] /\ todo'[w] = todo[w]
          /\ UNCHANGED <<staged, index, manifest, journal, txs, edited, kept>>
      BY <1>0, <1>7, HereIs DEF Copies!Move, Copies!GoTo, Local, Copies!meta, Copies!alone, Copies!Keeping
    <2>2. Copies!Absent \in [text : Copies!Texts, tx : 0 .. MaxTx] /\ target[p].text \in Copies!Texts
          /\ Copies!Absent.tx = 0 /\ Copies!Absent.text = None
      BY <1>4 DEF Copies!Absent, Copies!Texts
    <2>3. /\ target'[p] = Copies!Absent /\ backup'[j.tx][p] = target[p].text
          /\ \A q \in Paths \ {p} : target'[q] = target[q] /\ backup'[j.tx][q] = backup[j.tx][q]
          /\ \A t \in Copies!Tx \ {j.tx} : backup'[t] = backup[t]
      BY <1>3, <1>4, <2>1
    <2>4. target' \in [Paths -> [text : Copies!Texts, tx : 0 .. MaxTx]]
          /\ backup' \in [Copies!Tx -> [Paths -> Copies!Texts]]
      BY <1>3, <1>4, <2>1, <2>2
    <2>5. Filed'
      BY <2>1, <2>4, HereIs DEF Filed
    <2>6. Spare'
      <3>1. \A t \in Copies!Tx : t > txs => t # j.tx
        BY <1>2, <1>3, <1>4 DEF Copies!Tx
      <3>2. \A q \in Paths : target'[q].tx <= txs
        BY <1>4, <2>2, <2>3, HereIs DEF Spare
      <3> QED
        BY <2>1, <2>3, <3>1, <3>2, HereIs DEF Spare
    <2>7. Copies!UserTextKept'
      <3>1. backup[j.tx][p] # Own
        BY <1>2, HereIs DEF Copies!CopiesAssumption
      <3>2. \A q \in Paths \ {p} : target'[q].text = target[q].text
        BY <2>3
      <3>3. \A q \in Paths, s \in Copies!Tx : q # p \/ s # j.tx => backup'[s][q] = backup[s][q]
        BY <2>3
      <3>4. target[p].text = Own => backup'[j.tx][p] = Own
        BY <2>3
      <3> QED
        BY <1>3, <1>4, <2>1, <3>1, <3>2, <3>3, <3>4, HereIs, TextsStay
    <2>8. WorksOf(w)'
      BY <1>0, <1>2, <1>3, <2>1, SameJournal DEF WorksOf, Copies!Under
    <2>9. ASSUME ~ edited PROVE Sound' /\ Steady(w)'
      <3>1. Moved(j, p)'
        BY <1>5, <2>1, <2>3, <2>9, AtIs DEF Untouched, Moved
      <3>2. ~ Placed(j, p)
        BY <1>3, <1>5, <1>7, <2>9, AtIs, HereIs DEF Untouched, Placed, Copies!Tx, Copies!CopiesAssumption
      <3>3. Journaled(j)'
        BY <1>2, <1>5, <2>1, <2>3, <2>9, <3>1, <3>2, Onward
      <3>4. Sound'
        BY <1>2, <1>3, <2>1, <3>3 DEF Sound
      <3>5. \A q \in Copies!Changes(j) \ todo[w] : Placed(j, q)'
        <4>1. \A q \in Copies!Changes(j) \ todo[w] : q \in Paths \ {p}
          BY <1>2 DEF Copies!Changes
        <4> QED
          BY <1>5, <2>1, <2>3, <2>9, <4>1 DEF Placed
      <3>6. ~ Copies!Committed(j)' /\ Copies!NextFile(w)' = p
        BY <1>0, <1>5, <2>1, <2>9, SameJournal DEF Copies!Committed
      <3>7. Steady(w)'
        BY <1>0, <2>1, <3>1, <3>5, <3>6, SameJournal DEF Steady, Moved
      <3> QED
        BY <3>4, <3>7
    <2> QED
      BY <1>2, <2>1, <2>5, <2>6, <2>7, <2>8, <2>9 DEF Filing
  <1> QED
    BY <1>6, <1>7

LEMMA PlaceStep ==
    ASSUME Here, NEW w \in Writers, Copies!Place(w)
    PROVE  Filing(w)
  <1>1. Mine(w)
    BY Steps DEF WorkStep
  <1>0. PICK j \in Copies!Journals, p \in Paths : j = mine[w] /\ p = Copies!NextFile(w)
    BY Applying, NextInTodo, HereIs DEF Copies!Place, Copies!Under, WorksOf
  <1>2. /\ at[w] = "place" /\ journal = j /\ j.tx <= txs /\ p \in todo[w] /\ p \in Copies!Changes(j)
        /\ (~ edited => Journaled(j) /\ Steady(w)) /\ todo[w] \subseteq Copies!Changes(j)
    BY <1>0, Applying, NextInTodo, HereIs DEF Copies!Place, Copies!Under, WorksOf
  <1>3. /\ j.tx \in Copies!Tx /\ j # None /\ Copies!Before(j)[p] # Copies!After(j)[p]
        /\ Copies!After(j)[p] \in Contents \cup {None}
    BY <1>2, HereIs, JournalIs
  <1>4. /\ target \in [Paths -> [text : Copies!Texts, tx : 0 .. MaxTx]]
        /\ staged \in [Copies!Tx -> [Paths -> Copies!Texts]]
        /\ backup \in [Copies!Tx -> [Paths -> Copies!Texts]] /\ MaxTx \in Nat /\ txs \in 0 .. MaxTx
        /\ kept \subseteq Paths
    BY HereIs DEF Filed, Copies!CopiesAssumption
  <1>5. ~ edited => /\ ~ Copies!Committed(j) /\ \A q \in Copies!Changes(j) \ todo[w] : Placed(j, q)
                    /\ target[p] = Copies!Absent /\ staged[j.tx][p] = Copies!After(j)[p]
                    /\ backup[j.tx][p] = Copies!Before(j)[p]
    BY <1>0, <1>2 DEF Steady
  <1>6. CASE Copies!Refuse(w)
    <2>1. Still
      BY <1>6 DEF Copies!Place, Copies!Refuse, Copies!files, Copies!meta, Copies!alone, Copies!Keeping, Still
    <2>2. edited
      <3>1. at'[w] = "refused"
        BY <1>6, HereIs DEF Copies!Refuse, Copies!GoTo, Local
      <3> QED
        BY <1>0, <1>5, <3>1, HereIs DEF Copies!Place, Copies!GoTo, Local
    <2> QED
      BY <1>1, <1>6, <2>1, <2>2, Refuses
  <1>7. CASE ~ Copies!Refuse(w)
    <2> DEFINE new == At(Copies!After(j)[p], j.tx)
    <2>1. /\ \/ target' = target /\ Copies!After(j)[p] = None
             \/ target' = [target EXCEPT ![p] = new] /\ target[p] = Copies!Absent /\ Copies!After(j)[p] # None
          /\ at'[w] = "file" /\ mine'[w] = mine[w] /\ todo'[w] = todo[w] \ {p}
          /\ UNCHANGED <<staged, backup, index, manifest, journal, txs, edited, kept>>
      BY <1>0, <1>7, HereIs DEF Copies!Place, Copies!Done, Copies!GoTo, Local, Copies!files, Copies!meta,
         Copies!alone, Copies!Keeping, At
    <2>2. new \in [text : Copies!Texts, tx : 0 .. MaxTx] /\ new.tx = j.tx
      BY <1>3, <1>4 DEF At, Copies!Texts, Copies!Tx
    <2> HIDE DEF new
    <2>3. \A q \in Paths \ {p} : target'[q] = target[q]
      BY <1>4, <2>1
    <2>4. target' \in [Paths -> [text : Copies!Texts, tx : 0 .. MaxTx]]
      BY <1>4, <2>1, <2>2
    <2>5. Filed'
      BY <2>1, <2>4, HereIs DEF Filed
    <2>6. Spare'
      <3>1. \A q \in Paths : target'[q].tx <= txs
        BY <1>2, <1>4, <2>1, <2>2, <2>3, HereIs DEF Spare
      <3> QED
        BY <2>1, <3>1, HereIs DEF Spare
    <2>7. Copies!UserTextKept'
      <3>1. target[p].text = Own => target'[p].text = Own
        BY <2>1, HereIs DEF Copies!Absent, Copies!CopiesAssumption
      <3> QED
        BY <1>3, <1>4, <2>1, <2>3, <3>1, HereIs, TextsStay
    <2>8. WorksOf(w)'
      BY <1>0, <1>2, <1>3, <2>1, SameJournal DEF WorksOf, Copies!Under
    <2>9. ASSUME ~ edited PROVE Sound' /\ Steady(w)'
      <3>1. Placed(j, p)'
        <4>1. target'[p] = IF Copies!After(j)[p] = None THEN Copies!Absent ELSE new
          BY <1>4, <1>5, <2>1, <2>9
        <4> QED
          BY <1>5, <2>1, <2>9, <4>1 DEF Placed, new
      <3>3. Journaled(j)'
        BY <1>2, <1>5, <2>1, <2>3, <2>9, <3>1, Onward
      <3>4. Sound'
        BY <1>2, <1>3, <2>1, <3>3 DEF Sound
      <3>5. \A q \in Copies!Changes(j) \ todo'[w] : Placed(j, q)'
        <4>1. \A q \in Copies!Changes(j) \ todo'[w] : q = p \/ (q \in Paths \ {p} /\ q \in Copies!Changes(j) \ todo[w])
          BY <1>2, <2>1 DEF Copies!Changes
        <4>2. \A q \in Paths \ {p} : Placed(j, q)' <=> Placed(j, q)
          BY <2>1, <2>3 DEF Placed
        <4> QED
          BY <1>5, <2>9, <3>1, <4>1, <4>2
      <3>6. ~ Copies!Committed(j)'
        BY <1>5, <2>1, <2>9 DEF Copies!Committed
      <3>7. Steady(w)'
        BY <1>0, <2>1, <3>5, <3>6, SameJournal DEF Steady
      <3> QED
        BY <3>4, <3>7
    <2> QED
      BY <1>2, <2>1, <2>5, <2>6, <2>7, <2>8, <2>9 DEF Filing
  <1> QED
    BY <1>6, <1>7

LEMMA CleanStep ==
    ASSUME Here, NEW w \in Writers, Copies!Clean(w)
    PROVE  Filing(w)
  <1>1. Mine(w)
    BY Steps DEF WorkStep
  <1>0. PICK j \in Copies!Journals, p \in Paths : j = mine[w] /\ p = Copies!NextFile(w)
    BY Applying, NextInTodo, HereIs DEF Copies!Clean, Copies!Under, WorksOf
  <1>2. /\ at[w] = "clean" /\ journal = j /\ j.tx <= txs /\ p \in todo[w] /\ p \in Copies!Changes(j)
        /\ (~ edited => Journaled(j) /\ Steady(w)) /\ todo[w] \subseteq Copies!Changes(j)
    BY <1>0, Applying, NextInTodo, HereIs DEF Copies!Clean, Copies!Under, WorksOf
  <1>3. j.tx \in Copies!Tx /\ j # None /\ j.tx # 0 /\ Copies!Before(j)[p] \in Contents \cup {None}
    BY <1>2, HereIs, JournalIs DEF Copies!Tx, Copies!CopiesAssumption
  <1>4. /\ target \in [Paths -> [text : Copies!Texts, tx : 0 .. MaxTx]]
        /\ staged \in [Copies!Tx -> [Paths -> Copies!Texts]]
        /\ backup \in [Copies!Tx -> [Paths -> Copies!Texts]] /\ MaxTx \in Nat /\ txs \in 0 .. MaxTx
        /\ kept \subseteq Paths
        /\ None \in Copies!Texts
    BY HereIs DEF Filed, Copies!CopiesAssumption, Copies!Texts
  <1>5. ~ edited => /\ Copies!Committed(j) /\ \A q \in Copies!Changes(j) : Placed(j, q) \/ Cleaned(j, q)
                    /\ \A q \in Copies!Changes(j) \ todo[w] : Cleaned(j, q)
    <2>1. ~ edited => Copies!Committed(j) /\ \A q \in Copies!Changes(j) \ todo[w] : Cleaned(j, q)
      BY <1>0, <1>2 DEF Steady
    <2> QED
      BY <1>2, <2>1, AfterCommit, HereIs
  <1>6. CASE Copies!Refuse(w)
    <2>1. Still
      BY <1>6 DEF Copies!Clean, Copies!Refuse, Copies!files, Copies!meta, Copies!alone, Copies!Keeping, Still
    <2>2. edited
      <3>1. at'[w] = "refused"
        BY <1>6, HereIs DEF Copies!Refuse, Copies!GoTo, Local
      <3>2. IF staged[j.tx][p] # None THEN staged[j.tx][p] # Copies!After(j)[p] ELSE Copies!Conflict(backup[j.tx][p], Copies!Before(j)[p])
        BY <1>0, <1>2, <3>1 DEF Copies!Clean
      <3> QED
        BY <1>2, <1>5, <3>2 DEF Placed, Cleaned, Copies!Conflict
    <2> QED
      BY <1>1, <1>6, <2>1, <2>2, Refuses
  <1>7. ASSUME ~ Copies!Refuse(w) PROVE
        /\ at'[w] = "clean" /\ mine'[w] = mine[w]
        /\ UNCHANGED <<index, manifest, journal, txs, edited, kept>>
        /\ \/ /\ staged[j.tx][p] # None /\ staged' = [staged EXCEPT ![j.tx][p] = None]
              /\ target' = IF target[p].tx = j.tx THEN [target EXCEPT ![p].tx = 0] ELSE target
              /\ backup' = backup /\ todo' = todo
           \/ /\ staged[j.tx][p] = None /\ ~ Copies!Conflict(backup[j.tx][p], Copies!Before(j)[p])
              /\ backup' = [backup EXCEPT ![j.tx][p] = None]
              /\ target' = target /\ staged' = staged /\ todo'[w] = todo[w] \ {p}
    BY <1>0, <1>7, HereIs DEF Copies!Clean, Copies!Done, Copies!GoTo, Local, Copies!meta, Copies!alone,
       Copies!Keeping
  <1>8. ASSUME ~ Copies!Refuse(w) PROVE Filing(w)
    <2>1. /\ at'[w] = "clean" /\ mine'[w] = mine[w] /\ UNCHANGED <<index, manifest, journal, txs, edited, kept>>
          /\ (todo'[w] = todo[w] \/ todo'[w] = todo[w] \ {p})
      BY <1>7, <1>8
    <2>2. /\ target' \in [Paths -> [text : Copies!Texts, tx : 0 .. MaxTx]]
          /\ \A q \in Paths : target'[q].text = target[q].text /\ target'[q].tx \in {0, target[q].tx}
          /\ \A q \in Paths \ {p} : target'[q] = target[q]
      <3>1. target' = target \/ target' = [target EXCEPT ![p].tx = 0]
        BY <1>7, <1>8
      <3>2. CASE target' = [target EXCEPT ![p].tx = 0]
        <4>1. target[p] \in [text : Copies!Texts, tx : 0 .. MaxTx] /\ 0 \in 0 .. MaxTx
          BY <1>4
        <4>2. [target[p] EXCEPT !.tx = 0] \in [text : Copies!Texts, tx : 0 .. MaxTx]
          BY <4>1
        <4>3. target' = [target EXCEPT ![p] = [target[p] EXCEPT !.tx = 0]]
          BY <3>2
        <4>4. target'[p] = [target[p] EXCEPT !.tx = 0] /\ \A q \in Paths \ {p} : target'[q] = target[q]
          BY <1>4, <4>3
        <4>5. target'[p].text = target[p].text /\ target'[p].tx = 0
          BY <4>1, <4>4
        <4> QED
          BY <1>4, <4>2, <4>3, <4>4, <4>5
      <3> QED
        BY <1>4, <3>1, <3>2
    <2>3. /\ staged' \in [Copies!Tx -> [Paths -> Copies!Texts]]
          /\ backup' \in [Copies!Tx -> [Paths -> Copies!Texts]]
          /\ \A t \in Copies!Tx \ {j.tx} : staged'[t] = staged[t] /\ backup'[t] = backup[t]
          /\ \A q \in Paths \ {p} : staged'[j.tx][q] = staged[j.tx][q] /\ backup'[j.tx][q] = backup[j.tx][q]
      <3>1. staged' = staged \/ staged' = [staged EXCEPT ![j.tx][p] = None]
        BY <1>7, <1>8
      <3>2. backup' = backup \/ backup' = [backup EXCEPT ![j.tx][p] = None]
        BY <1>7, <1>8
      <3>3. staged' \in [Copies!Tx -> [Paths -> Copies!Texts]]
            /\ backup' \in [Copies!Tx -> [Paths -> Copies!Texts]]
        <4>1. staged[j.tx] \in [Paths -> Copies!Texts] /\ backup[j.tx] \in [Paths -> Copies!Texts]
          BY <1>3, <1>4
        <4>2. [staged[j.tx] EXCEPT ![p] = None] \in [Paths -> Copies!Texts]
              /\ [backup[j.tx] EXCEPT ![p] = None] \in [Paths -> Copies!Texts]
          BY <1>4, <4>1
        <4> QED
          BY <1>3, <1>4, <3>1, <3>2, <4>2
      <3> QED
        BY <1>3, <1>4, <3>1, <3>2, <3>3
    <2>5. Filed'
      BY <2>1, <2>2, <2>3, HereIs DEF Filed
    <2>6. Spare'
      <3>1. \A t \in Copies!Tx : t > txs => t # j.tx
        BY <1>2, <1>3, <1>4 DEF Copies!Tx
      <3>2. \A q \in Paths : target'[q].tx <= txs
        <4> SUFFICES ASSUME NEW q \in Paths PROVE target'[q].tx <= txs
          OBVIOUS
        <4>1. target[q].tx <= txs /\ target'[q].tx \in {0, target[q].tx}
          BY <2>2, HereIs DEF Spare
        <4> QED
          BY <1>4, <4>1
      <3> QED
        BY <2>1, <2>3, <3>1, <3>2, HereIs DEF Spare
    <2>7. Copies!UserTextKept'
      <3>1. backup[j.tx][p] = Own => backup'[j.tx][p] = Own
        BY <1>3, <1>7, <1>8, HereIs DEF Copies!Conflict, Copies!CopiesAssumption
      <3>2. \A q \in Paths : target'[q].text = target[q].text
        BY <2>2
      <3>3. \A q \in Paths, s \in Copies!Tx : q # p \/ s # j.tx => backup'[s][q] = backup[s][q]
        BY <2>3
      <3>4. target[p].text = Own => target'[p].text = Own
        BY <3>2
      <3>5. Copies!UserTextKept /\ kept' = kept /\ j.tx \in Copies!Tx /\ kept \subseteq Paths
        BY <1>3, <1>4, <2>1, HereIs
      <3> QED
        BY <3>1, <3>2, <3>3, <3>4, <3>5, TextsStay
    <2>8. WorksOf(w)'
      BY <1>0, <1>2, <1>3, <2>1, SameJournal DEF WorksOf, Copies!Under
    <2>9. ASSUME ~ edited PROVE Sound' /\ Steady(w)'
      <3>1. Cleaned(j, p)'
        <4>1. CASE staged[j.tx][p] # None
          <5>1. Placed(j, p) /\ Copies!After(j)[p] # None
            BY <1>2, <1>5, <2>9, <4>1 DEF Placed, Cleaned
          <5>2. target[p] = At(Copies!After(j)[p], j.tx) /\ backup[j.tx][p] = Copies!Before(j)[p]
            BY <5>1 DEF Placed
          <5>3. target' = [target EXCEPT ![p].tx = 0] /\ staged'[j.tx][p] = None /\ backup' = backup
            BY <1>3, <1>4, <1>7, <1>8, <4>1, <5>2, AtIs
          <5>4. target'[p] = At(Copies!After(j)[p], 0)
            BY <1>4, <5>2, <5>3 DEF At
          <5> QED
            BY <5>2, <5>3, <5>4 DEF Cleaned
        <4>2. CASE staged[j.tx][p] = None
          <5>1. target[p] = At(Copies!After(j)[p], 0)
            BY <1>2, <1>5, <2>9, <4>2, AtIs DEF Placed, Cleaned
          <5>2. target' = target /\ staged'[j.tx][p] = None /\ backup'[j.tx][p] = None
            BY <1>3, <1>4, <1>7, <1>8, <4>2
          <5> QED
            BY <5>1, <5>2 DEF Cleaned
        <4> QED
          BY <4>1, <4>2
      <3>2. Journaled(j)'
        BY <1>2, <1>5, <2>1, <2>2, <2>3, <2>9, <3>1, Onward
      <3>3. Sound'
        BY <1>2, <1>3, <2>1, <3>2 DEF Sound
      <3>4. \A q \in Copies!Changes(j) \ todo'[w] : Cleaned(j, q)'
        <4>1. \A q \in Copies!Changes(j) \ todo'[w] : q = p \/ (q \in Paths \ {p} /\ q \in Copies!Changes(j) \ todo[w])
          BY <1>2, <2>1 DEF Copies!Changes
        <4>2. \A q \in Paths \ {p} : Cleaned(j, q)' <=> Cleaned(j, q)
          BY <2>2, <2>3 DEF Cleaned
        <4> QED
          BY <1>5, <2>9, <3>1, <4>1, <4>2
      <3>5. Copies!Committed(j)'
        BY <1>5, <2>1, <2>9 DEF Copies!Committed
      <3>6. Steady(w)'
        BY <1>0, <2>1, <3>4, <3>5, SameJournal DEF Steady
      <3> QED
        BY <3>3, <3>6
    <2> QED
      BY <1>2, <2>1, <2>5, <2>6, <2>7, <2>8, <2>9 DEF Filing
  <1> QED
    BY <1>6, <1>8

\* Whatever the writer under the lock does keeps the invariant.
LEMMA WorkKeeps ==
    ASSUME Here, NEW w \in Writers, WorkStep(w)
    PROVE  CopiesInv'
  <1>1. Filing(w)
    BY RecoverStep, PrepareStep, WriteJournalStep, ApplyOwnStep, LookStep, MoveStep, PlaceStep, WriteIndexStep,
       WriteManifestStep, VerifyStep, CleanStep, FinishStep DEF WorkStep
  <1> QED
    BY <1>1, Steps, FilingIs

-----------------------------------------------------------------------------
\* What a step leaves alone when it touches neither the files nor what one writer has.
LEMMA Aside ==
    ASSUME Here, Still, NEW v \in Writers, at'[v] = at[v], want'[v] = want[v], mine'[v] = mine[v], todo'[v] = todo[v]
    PROVE  WorksOf(v)' /\ (~ edited => Steady(v)')
  <1>1. /\ Copies!Changes(mine[v])' = Copies!Changes(mine[v]) /\ Copies!Before(mine[v])' = Copies!Before(mine[v])
        /\ Copies!After(mine[v])' = Copies!After(mine[v])
        /\ Copies!NextFile(v)' = Copies!NextFile(v)
    BY SameJournal
  <1>2. WorksOf(v)'
    BY <1>1, HereIs DEF WorksOf, Still
  <1>3. PICK j : j = mine[v]
    OBVIOUS
  <1>4. PICK p : p = Copies!NextFile(v)
    OBVIOUS
  <1>5. ASSUME Steady(v) PROVE Steady(v)'
    <2>1. /\ Copies!Committed(j)' <=> Copies!Committed(j)
          /\ \A q : (Untouched(j, q)' <=> Untouched(j, q)) /\ (Placed(j, q)' <=> Placed(j, q)) /\ (Cleaned(j, q)' <=> Cleaned(j, q))
      BY StillKeeps
    <2>2. mine'[v] = j /\ Copies!NextFile(v)' = p /\ Copies!Changes(j) = Copies!Changes(mine[v])
          /\ Copies!Changes(mine[v])' = Copies!Changes(j)
          /\ Copies!Before(j) = Copies!Before(mine[v]) /\ Copies!Before(mine[v])' = Copies!Before(j)
          /\ Copies!After(j) = Copies!After(mine[v]) /\ Copies!After(mine[v])' = Copies!After(j)
      BY <1>1, <1>3, <1>4
    <2> QED
      BY <1>3, <1>4, <1>5, <2>1, <2>2 DEF Steady, Still
  <1> QED
    BY <1>2, <1>5, HereIs

\* A step that gets or gives up the lock: what is left to see of it.
LEMMA LocksAre ==
    ASSUME Here, NEW w \in Writers, Still, Local', Counted', LockKept', Copies!OneWriter', WorksOf(w)', Steady(w)',
           \A v \in Writers \ {w} : at'[v] = at[v] /\ want'[v] = want[v] /\ mine'[v] = mine[v] /\ todo'[v] = todo[v]
    PROVE  CopiesInv'
  <1>1. Filed' /\ Spare' /\ Copies!UserTextKept' /\ Sound' /\ (journal' # None => journal'.tx <= txs')
    BY StillKeeps
  <1>2. \A v \in Writers : WorksOf(v)' /\ (~ edited' => Steady(v)')
    <2> SUFFICES ASSUME NEW v \in Writers PROVE WorksOf(v)' /\ (~ edited' => Steady(v)')
      OBVIOUS
    <2>1. CASE v = w
      BY <2>1
    <2>2. CASE v # w
      BY <2>2, Aside DEF Still
    <2> QED
      BY <2>1, <2>2
  <1>3. Works'
    BY <1>1, <1>2 DEF Works
  <1>4. Shapes'
    BY <1>1, ShapesAre DEF Shapes, Copies!TypeOK, Filed, Local, Counted, Locks
  <1> QED
    BY <1>1, <1>2, <1>3, <1>4 DEF CopiesInv

LEMMA LockSteps ==
    ASSUME Here, NEW w \in Writers, LockStep(w)
    PROVE  CopiesInv'
  <1> USE DEF Copies!files, Copies!meta, Copies!locals, Copies!history, Copies!alone, Copies!Keeping, Copies!GoTo
  <1>1. /\ at \in [Writers -> Copies!Under \cup {"out", "link", "probe", "unlink", "refused", "release", "releasing"}]
        /\ mine \in [Writers -> Copies!Journals \cup {None}] /\ want \in [Writers -> Snapshots \cup {None}]
        /\ todo \in [Writers -> SUBSET Paths] /\ copyLock \in Locks \cup {None}
        /\ held \in [Writers -> Locks \cup {None}]
        /\ life \in [Writers -> Nat] /\ mishaps \in 0 .. MaxFaults /\ (\A v \in Writers : life[v] <= mishaps)
        /\ usurped \in BOOLEAN /\ tries \in [Writers -> Nat] /\ ~ usurped
        /\ LockKept /\ Copies!OneWriter /\ WorksOf(w) /\ None \notin Snapshots
    BY HereIs DEF Local, Counted, Copies!CopiesAssumption
  <1>2. Still
    BY DEF LockStep, Still, Copies!Begin, Copies!Link, Copies!Probe, Copies!Unlink, Copies!Release,
       Copies!Released, Copies!Fail, Copies!Crash
  <1>3. \A v \in Writers \ {w} : at'[v] = at[v] /\ want'[v] = want[v] /\ mine'[v] = mine[v] /\ todo'[v] = todo[v]
                                /\ held'[v] = held[v] /\ tries'[v] = tries[v]
    BY <1>1 DEF LockStep, Copies!Begin, Copies!Link, Copies!Probe, Copies!Unlink, Copies!Release, Copies!Released,
       Copies!Fail, Copies!Crash, Copies!Forgotten
  <1>4. Local'
    <2>1. at' \in [Writers -> Copies!Under \cup {"out", "link", "probe", "unlink", "refused", "release", "releasing"}]
      BY <1>1 DEF LockStep, Copies!Begin, Copies!Link, Copies!Probe, Copies!Unlink, Copies!Release,
         Copies!Released, Copies!Fail, Copies!Crash, Copies!Under
    <2>2. want' \in [Writers -> Snapshots \cup {None}]
      BY <1>1 DEF LockStep, Copies!Begin, Copies!Link, Copies!Probe, Copies!Unlink, Copies!Release,
         Copies!Released, Copies!Fail, Copies!Crash, Copies!Forgotten
    <2>3. mine' \in [Writers -> Copies!Journals \cup {None}]
      BY <1>1 DEF LockStep, Copies!Begin, Copies!Link, Copies!Probe, Copies!Unlink, Copies!Release,
         Copies!Released, Copies!Fail, Copies!Crash, Copies!Forgotten
    <2>4. todo' \in [Writers -> SUBSET Paths]
      BY <1>1 DEF LockStep, Copies!Begin, Copies!Link, Copies!Probe, Copies!Unlink, Copies!Release,
         Copies!Released, Copies!Fail, Copies!Crash, Copies!Forgotten
    <2> QED
      BY <2>1, <2>2, <2>3, <2>4 DEF Local
  <1>5. \A v \in Writers : /\ copyLock # None => copyLock.owner \in Writers /\ copyLock.life \in Nat
                           /\ held[v] # None => held[v].owner \in Writers /\ held[v].life \in Nat
    BY <1>1 DEF Locks
  <1>6. \A v \in Writers : /\ Copies!Self(v).owner = v /\ Copies!Self(v).life = life[v] /\ Copies!Self(v) # None
                           /\ Copies!Self(v) \in Locks
    <2> SUFFICES ASSUME NEW v \in Writers
                 PROVE  Copies!Self(v).owner = v /\ Copies!Self(v).life = life[v] /\ Copies!Self(v) # None /\ Copies!Self(v) \in Locks
      OBVIOUS
    <2>1. life[v] \in 0 .. MaxFaults
      BY <1>1, HereIs DEF Copies!CopiesAssumption
    <2>2. Copies!Self(v) \in Locks /\ Copies!Self(v) \in [owner : Writers, life : Nat]
      BY <2>1 DEF Copies!Self, Locks
    <2> QED
      BY <2>2, HereIs DEF Copies!Self, Copies!CopiesAssumption
  <1>7. \A v \in Writers : at[v] \in Copies!Under \cup {"refused", "releasing"} => copyLock = Copies!Self(v)
    BY <1>1 DEF LockKept
  <1>8. "out" \notin Copies!Under /\ "link" \notin Copies!Under /\ "probe" \notin Copies!Under
        /\ "unlink" \notin Copies!Under /\ "refused" \notin Copies!Under
        /\ "release" \notin Copies!Under /\ "releasing" \notin Copies!Under /\ "recover" \in Copies!Under
    BY DEF Copies!Under
  <1> DEFINE Kept == Counted' /\ LockKept' /\ Copies!OneWriter' /\ WorksOf(w)' /\ Steady(w)'
  <1>9. ASSUME at'[w] \notin Copies!Under, at'[w] # "refused", at'[w] \in {"link", "probe", "unlink"} => want'[w] # None
        PROVE  Copies!OneWriter' /\ WorksOf(w)' /\ Steady(w)'
    <2>1. Copies!OneWriter'
      BY <1>1, <1>3, <1>9 DEF Copies!OneWriter
    <2>2. WorksOf(w)'
      BY <1>9 DEF WorksOf, Copies!Under
    <2>3. Steady(w)'
      BY <1>9 DEF Steady, Copies!Under
    <2> QED
      BY <2>1, <2>2, <2>3
  <1>10. ASSUME UNCHANGED <<life, mishaps>> PROVE \A v \in Writers : Copies!Self(v)' = Copies!Self(v)
    BY <1>10 DEF Copies!Self
  <1>a1. ASSUME NEW s \in Snapshots, Copies!Begin(w, s) PROVE Kept
    <2>1. at'[w] = "link" /\ want'[w] = s /\ tries'[w] = 0 /\ s # None
          /\ UNCHANGED <<copyLock, held, life, mishaps, usurped>>
      BY <1>1, <1>a1 DEF Copies!Begin
    <2>2. Counted'
      BY <1>1, <1>a1 DEF Copies!Begin, Counted
    <2>3. LockKept'
      BY <1>1, <1>3, <1>8, <1>10, <2>1 DEF LockKept, Copies!Dead
    <2> QED
      BY <1>8, <1>9, <2>1, <2>2, <2>3
  <1>a2. ASSUME Copies!Link(w) PROVE Kept
    <2>1. at[w] = "link" /\ want[w] # None /\ want' = want /\ tries[w] \in 0 .. 2 /\ tries'[w] = tries[w] + 1
          /\ UNCHANGED <<life, mishaps, usurped>>
      BY <1>1, <1>a2 DEF Copies!Link, WorksOf, LockKept
    <2>2. tries' \in [Writers -> Nat]
      BY <1>1, <1>a2, <2>1 DEF Copies!Link
    <2>3. CASE tries[w] = 2
      <3>1. at'[w] = "release" /\ UNCHANGED <<copyLock, held>>
        BY <1>1, <1>a2, <2>3 DEF Copies!Link
      <3>2. LockKept'
        BY <1>1, <1>3, <1>8, <1>10, <2>1, <3>1 DEF LockKept, Copies!Dead
      <3>3. Counted'
        BY <1>1, <2>1, <2>2, <3>1 DEF Counted
      <3> QED
        BY <1>8, <1>9, <3>1, <3>2, <3>3
    <2>4. CASE tries[w] < 2 /\ copyLock = None
      <3>1. at'[w] = "recover" /\ copyLock' = Copies!Self(w) /\ held' = held
        BY <1>1, <1>a2, <2>4 DEF Copies!Link
      <3>2. \A v \in Writers : at[v] \notin Copies!Under \cup {"refused", "releasing"}
        BY <1>6, <1>7, <2>4
      <3>3. LockKept'
        <4>1. copyLock'.life <= life'[copyLock'.owner]
          BY <1>1, <1>6, <2>1, <3>1
        <4> QED
          BY <1>1, <1>3, <1>8, <1>10, <2>1, <3>1, <3>2, <4>1 DEF LockKept, Copies!Dead
      <3>4. Counted'
        BY <1>1, <1>6, <2>1, <2>2, <3>1 DEF Counted
      <3>5. Copies!OneWriter'
        BY <1>3, <3>2 DEF Copies!OneWriter
      <3>6. WorksOf(w)' /\ Steady(w)'
        BY <2>1, <3>1 DEF WorksOf, Steady, Copies!Under
      <3> QED
        BY <3>3, <3>4, <3>5, <3>6
    <2>5. CASE tries[w] < 2 /\ copyLock # None
      <3>1. at'[w] = "probe" /\ copyLock' = copyLock /\ held' = [held EXCEPT ![w] = copyLock]
            /\ tries'[w] \in 0 .. 2
        BY <1>1, <1>a2, <2>1, <2>5 DEF Copies!Link
      <3>2. LockKept'
        BY <1>1, <1>3, <1>8, <1>10, <2>1, <2>5, <3>1 DEF LockKept, Copies!Dead
      <3>3. Counted'
        BY <1>1, <2>1, <2>2, <3>1 DEF Counted
      <3> QED
        BY <1>8, <1>9, <2>1, <3>1, <3>2, <3>3
    <2> QED
      BY <2>1, <2>3, <2>4, <2>5
  <1>a3. ASSUME Copies!Probe(w) PROVE Kept
    <2>1. /\ at[w] = "probe" /\ at'[w] = IF Copies!Dead(held[w]) /\ copyLock = held[w] THEN "unlink" ELSE "release"
          /\ want[w] # None /\ want' = want /\ UNCHANGED <<copyLock, held, life, mishaps, usurped, tries>>
      BY <1>1, <1>a3 DEF Copies!Probe, WorksOf
    <2>2. Counted'
      BY <1>1, <2>1 DEF Counted
    <2>3. LockKept'
      BY <1>1, <1>3, <1>8, <1>10, <2>1 DEF LockKept, Copies!Dead
    <2> QED
      BY <1>8, <1>9, <2>1, <2>2, <2>3
  <1>a4. ASSUME Copies!Unlink(w) PROVE Kept
    <2>1. /\ at[w] = "unlink" /\ at'[w] \in {"release", "link"} /\ copyLock' = None
          /\ want[w] # None /\ want' = want /\ UNCHANGED <<held, life, mishaps, tries>>
          /\ usurped' = (copyLock \notin {None, held[w]} /\ ~ Copies!Dead(copyLock))
      BY <1>1, <1>a4 DEF Copies!Unlink, WorksOf
    <2>2. Counted'
      BY <1>1, <2>1 DEF Counted
    <2>3. ASSUME ~ usurped', NEW v \in Writers PROVE at[v] \notin Copies!Under \cup {"refused", "releasing"}
      <3>1. SUFFICES ASSUME copyLock = Copies!Self(v) PROVE FALSE
        BY <1>7
      <3>2. copyLock = held[w] \/ Copies!Dead(copyLock)
        BY <1>6, <2>1, <2>3, <3>1
      <3>3. Copies!Dead(copyLock)
        BY <1>1, <2>1, <3>2 DEF LockKept
      <3> QED
        BY <1>6, <3>1, <3>3 DEF Copies!Dead
    <2>4. LockKept'
      BY <1>1, <1>3, <1>8, <1>10, <2>1, <2>3 DEF LockKept, Copies!Dead
    <2> QED
      BY <1>8, <1>9, <2>1, <2>2, <2>4
  <1>a5. ASSUME Copies!Release(w) PROVE Kept
    <2>1. /\ at'[w] = (IF copyLock = Copies!Self(w) THEN "releasing" ELSE "out")
          /\ held' = [held EXCEPT ![w] = None]
          /\ tries' = [tries EXCEPT ![w] = 0] /\ UNCHANGED <<copyLock, life, mishaps, usurped>>
      BY <1>1, <1>a5 DEF Copies!Release, Copies!Forgotten
    <2>2. Counted'
      BY <1>1, <2>1 DEF Counted
    <2>3. LockKept'
      BY <1>1, <1>3, <1>8, <1>10, <2>1 DEF LockKept, Copies!Dead
    <2> QED
      BY <1>8, <1>9, <2>1, <2>2, <2>3
  <1>a6. ASSUME Copies!Released(w) PROVE Kept
    <2>1. at[w] = "releasing" /\ at'[w] = "out" /\ copyLock' = None
          /\ UNCHANGED <<held, tries, life, mishaps, usurped>>
      BY <1>1, <1>a6 DEF Copies!Released
    <2>2. Counted'
      BY <1>1, <2>1 DEF Counted
    <2>3. \A v \in Writers \ {w} : at[v] \notin Copies!Under \cup {"refused", "releasing"}
      BY <1>6, <1>7, <2>1
    <2>4. LockKept'
      BY <1>1, <1>3, <1>8, <1>10, <2>1, <2>3 DEF LockKept, Copies!Dead
    <2> QED
      BY <1>8, <1>9, <2>1, <2>2, <2>4
  <1>a7. ASSUME Copies!Fail(w) PROVE Kept
    <2>1. /\ at'[w] = "release" /\ UNCHANGED <<copyLock, held, tries, life, usurped>>
          /\ (mishaps' = mishaps \/ (mishaps < MaxFaults /\ mishaps' = mishaps + 1))
      <3>1. at'[w] = "release" /\ UNCHANGED <<copyLock, held, tries, life, usurped>>
        BY <1>1, <1>a7 DEF Copies!Fail
      <3>2. mishaps' = mishaps \/ (mishaps < MaxFaults /\ mishaps' = mishaps + 1)
        BY <1>a7 DEF Copies!Fail
      <3> QED
        BY <3>1, <3>2
    <2>2. Counted'
      <3>1. mishaps' \in 0 .. MaxFaults /\ mishaps <= mishaps'
        BY <1>1, <2>1, HereIs DEF Copies!CopiesAssumption
      <3>2. \A v \in Writers : life[v] <= mishaps'
        BY <1>1, <3>1
      <3> QED
        BY <1>1, <2>1, <3>1, <3>2 DEF Counted
    <2>3. LockKept'
      BY <1>1, <1>3, <1>8, <2>1 DEF LockKept, Copies!Dead, Copies!Self
    <2> QED
      BY <1>8, <1>9, <2>1, <2>2, <2>3
  <1>a8. ASSUME Copies!Crash(w) PROVE Kept
    <2>1. /\ at'[w] = "out" /\ UNCHANGED <<copyLock, usurped>> /\ held' = [held EXCEPT ![w] = None]
          /\ tries' = [tries EXCEPT ![w] = 0] /\ mishaps < MaxFaults /\ mishaps' = mishaps + 1
          /\ life' = [life EXCEPT ![w] = life[w] + 1]
      BY <1>1, <1>a8 DEF Copies!Crash, Copies!Forgotten
    <2>2. Counted'
      <3>1. mishaps' \in 0 .. MaxFaults /\ mishaps' = mishaps + 1
        BY <1>1, <2>1, HereIs DEF Copies!CopiesAssumption
      <3>2. life' \in [Writers -> Nat] /\ \A v \in Writers : life'[v] <= mishaps'
        BY <1>1, <2>1, <3>1
      <3> QED
        BY <1>1, <2>1, <3>1, <3>2 DEF Counted
    <2>3. \A v \in Writers : life[v] <= life'[v] /\ life'[v] \in Nat
      BY <1>1, <2>1
    <2>4. \A v \in Writers \ {w} : life'[v] = life[v]
      BY <1>1, <2>1
    <2>5. LockKept'
      <3>1. copyLock' # None => copyLock'.life <= life'[copyLock'.owner]
        BY <1>1, <1>5, <2>1, <2>3 DEF LockKept
      <3>2. ASSUME NEW v \in Writers \ {w}
            PROVE  /\ held'[v] # None => held'[v].life <= life'[held'[v].owner]
                   /\ at'[v] = "unlink" => Copies!Dead(held[v])'
                   /\ at'[v] \in Copies!Under \cup {"refused", "releasing"} => copyLock' = Copies!Self(v)'
        <4>1. held'[v] = held[v] /\ at'[v] = at[v]
          BY <1>3
        <4>2. held[v] # None => held[v].life <= life[held[v].owner] /\ held[v].owner \in Writers /\ held[v].life \in Nat
          BY <1>1, <1>5 DEF LockKept
        <4>3. at[v] = "unlink" => held[v] # None /\ Copies!Dead(held[v])
          BY <1>1 DEF LockKept
        <4>4. at'[v] = "unlink" => Copies!Dead(held[v])'
          <5>1. SUFFICES ASSUME at[v] = "unlink" PROVE life'[held'[v].owner] # held'[v].life
            BY <4>1 DEF Copies!Dead
          <5>2. life[held[v].owner] # held[v].life /\ held[v] # None
            BY <4>3, <5>1 DEF Copies!Dead
          <5>3. life[held[v].owner] <= life'[held[v].owner] /\ life[held[v].owner] \in Nat
                /\ life'[held[v].owner] \in Nat
            BY <1>1, <2>3, <4>2, <5>2
          <5> QED
            BY <4>1, <4>2, <5>2, <5>3
        <4>5. Copies!Self(v)' = Copies!Self(v)
          BY <2>4 DEF Copies!Self
        <4>6. held[v] # None => held[v].life <= life'[held[v].owner]
          BY <1>1, <2>3, <4>2
        <4> QED
          BY <1>7, <2>1, <4>1, <4>4, <4>5, <4>6
      <3>3. \A v \in Writers \ {w} : /\ at'[v] \in {"link", "probe", "unlink"} => tries'[v] \in 0 .. 2
                                     /\ at'[v] \in {"probe", "unlink"} => held'[v] # None
        BY <1>1, <1>3 DEF LockKept
      <3>4. held'[w] = None
        BY <1>1, <2>1
      <3> QED
        BY <1>8, <2>1, <3>1, <3>2, <3>3, <3>4 DEF LockKept
    <2> QED
      BY <1>8, <1>9, <2>1, <2>2, <2>5
  <1>b. Kept
    BY <1>a1, <1>a2, <1>a3, <1>a4, <1>a5, <1>a6, <1>a7, <1>a8 DEF LockStep
  <1> QED
    BY <1>2, <1>3, <1>4, <1>b, LocksAre

\* The user changes a copy: after that nothing is promised but what they wrote.
LEMMA UserKeeps ==
    ASSUME Here, NEW p \in Paths, Copies!User(p)
    PROVE  CopiesInv'
  <1>1. /\ target \in [Paths -> [text : Copies!Texts, tx : 0 .. MaxTx]]
        /\ staged \in [Copies!Tx -> [Paths -> Copies!Texts]]
        /\ backup \in [Copies!Tx -> [Paths -> Copies!Texts]] /\ MaxTx \in Nat /\ txs \in 0 .. MaxTx
        /\ kept \subseteq Paths
        /\ mishaps \in 0 .. MaxFaults /\ MaxFaults \in Nat
    BY HereIs DEF Filed, Counted, Copies!CopiesAssumption
  <1>2. /\ edited' = TRUE /\ mishaps' = mishaps + 1 /\ mishaps < MaxFaults
        /\ UNCHANGED <<backup, index, manifest, journal, copyLock, life, at, want, mine, held, todo, tries, txs, usurped>>
    BY DEF Copies!User, Copies!meta, Copies!locals
  <1>3. target[p] \in [text : Copies!Texts, tx : 0 .. MaxTx] /\ target[p].tx \in 0 .. MaxTx /\ 0 \in 0 .. MaxTx
        /\ Own \in Copies!Texts /\ None \in Copies!Texts
    BY <1>1 DEF Copies!Texts
  <1>4. PICK new \in [text : Copies!Texts, tx : 0 .. MaxTx] :
            /\ target' = [target EXCEPT ![p] = new] /\ new.tx \in {0, target[p].tx}
            /\ new.text = Own \/ p \notin kept'
            /\ kept' \subseteq kept \cup {p}
    <2>1. CASE target' = [target EXCEPT ![p].text = Own] /\ kept' = kept \cup {p}
      <3> DEFINE n == [target[p] EXCEPT !.text = Own]
      <3>1. n \in [text : Copies!Texts, tx : 0 .. MaxTx] /\ n.tx = target[p].tx /\ n.text = Own
        BY <1>3
      <3>2. target' = [target EXCEPT ![p] = n]
        BY <2>1
      <3> QED
        BY <2>1, <3>1, <3>2
    <2>2. CASE target' = [target EXCEPT ![p] = [text |-> Own, tx |-> 0]] /\ kept' = kept \cup {p}
      <3> DEFINE n == [text |-> Own, tx |-> 0]
      <3>1. n \in [text : Copies!Texts, tx : 0 .. MaxTx] /\ n.tx = 0 /\ n.text = Own
        BY <1>3
      <3> QED
        BY <2>2, <3>1
    <2>3. CASE target' = [target EXCEPT ![p] = Copies!Absent] /\ kept' = kept \ {p}
      <3>1. Copies!Absent \in [text : Copies!Texts, tx : 0 .. MaxTx] /\ Copies!Absent.tx = 0
        BY <1>3 DEF Copies!Absent
      <3> QED
        BY <2>3, <3>1
    <2> QED
      BY <2>1, <2>2, <2>3 DEF Copies!User
  <1>5. target' \in [Paths -> [text : Copies!Texts, tx : 0 .. MaxTx]] /\ target'[p] = new
        /\ \A q \in Paths \ {p} : target'[q] = target[q]
    BY <1>1, <1>4
  <1>6. /\ staged' \in [Copies!Tx -> [Paths -> Copies!Texts]] /\ \A t \in Copies!Tx : t # target[p].tx => staged'[t] = staged[t]
    <2>1. staged' = staged \/ (target[p].tx # 0 /\ staged' = [staged EXCEPT ![target[p].tx][p] = Own])
      BY DEF Copies!User
    <2>2. target[p].tx # 0 => target[p].tx \in Copies!Tx
      BY <1>1, <1>3 DEF Copies!Tx
    <2>3. CASE target[p].tx # 0 /\ staged' = [staged EXCEPT ![target[p].tx][p] = Own]
      <3>1. [staged[target[p].tx] EXCEPT ![p] = Own] \in [Paths -> Copies!Texts]
        BY <1>1, <1>3, <2>2, <2>3
      <3> QED
        BY <1>1, <2>2, <2>3, <3>1
    <2> QED
      BY <1>1, <2>1, <2>3
  <1>7. Filed'
    BY <1>1, <1>2, <1>4, <1>5, <1>6, HereIs DEF Filed
  <1>8. Local' /\ Copies!OneWriter'
    BY <1>2, HereIs DEF Local, Copies!OneWriter
  <1>9. Counted'
    <2>1. mishaps' \in 0 .. MaxFaults /\ \A v \in Writers : life[v] <= mishaps'
      BY <1>1, <1>2, HereIs DEF Counted
    <2> QED
      BY <1>2, <2>1, HereIs DEF Counted
  <1>10. LockKept'
    BY <1>2, HereIs DEF LockKept, Copies!Dead, Copies!Self
  <1>11. Works'
    <2>1. \A v \in Writers : /\ Copies!Changes(mine[v])' = Copies!Changes(mine[v]) /\ Copies!NextFile(v)' = Copies!NextFile(v)
      BY <1>2, SameJournal
    <2>2. \A v \in Writers : WorksOf(v)'
      BY <1>2, <2>1, HereIs DEF WorksOf
    <2> QED
      BY <1>2, <2>2, HereIs DEF Works
  <1>12. Spare'
    <2>1. target[p].tx <= txs
      BY HereIs DEF Spare
    <2>2. \A t \in Copies!Tx : t > txs => t # target[p].tx
      BY <1>1, <1>3, <2>1 DEF Copies!Tx
    <2>3. \A q \in Paths : target'[q].tx <= txs
      BY <1>1, <1>4, <1>5, <2>1, HereIs DEF Spare
    <2> QED
      BY <1>2, <1>6, <2>2, <2>3, HereIs DEF Spare
  <1>13. Copies!UserTextKept'
    BY <1>1, <1>2, <1>4, <1>5, HereIs DEF Copies!UserTextKept
  <1>14. Shapes'
    BY <1>7, <1>8, <1>9, ShapesAre DEF Shapes, Copies!TypeOK, Filed, Local, Counted, Locks
  <1> QED
    BY <1>2, <1>8, <1>10, <1>11, <1>12, <1>13, <1>14 DEF CopiesInv, Sound

LEMMA CopiesSteps ==
    ASSUME Copies!CopiesAssumption, CopiesInv, Copies!Next
    PROVE  CopiesInv'
  <1>1. Here
    BY DEF Here, Copies!Next
  <1> QED
    BY <1>1, WorkKeeps, LockSteps, UserKeeps DEF Copies!Next, Copies!Step, WorkStep, LockStep

LEMMA CopiesStutter == ASSUME CopiesInv, UNCHANGED Copies!vars PROVE CopiesInv'
  <1> USE DEF Copies!vars, Copies!files, Copies!locals, Copies!history
  <1>1. Shapes' /\ LockKept' /\ Copies!OneWriter' /\ Spare' /\ Copies!UserTextKept'
    BY DEF CopiesInv, Shapes, Copies!TypeOK, LockKept, Copies!Dead, Copies!Self, Copies!OneWriter, Spare,
       Copies!UserTextKept
  <1>2. \A w \in Writers : Copies!NextFile(w)' = Copies!NextFile(w) /\ Copies!Changes(mine[w])' = Copies!Changes(mine[w])
    BY DEF Copies!NextFile, Copies!Changes, Copies!Before, Copies!After, Copies!FilesOf
  <1>3. Works'
    BY <1>2 DEF CopiesInv, Works, WorksOf
  <1>4. Sound' /\ (~ edited' => \A w \in Writers : Steady(w)')
    BY <1>2 DEF CopiesInv, Sound, Rest, Journaled, Steady, Copies!Committed, Untouched, Moved, Placed, Cleaned,
       Copies!Before, Copies!After, Copies!Changes, Copies!FilesOf
  <1> QED
    BY <1>1, <1>3, <1>4 DEF CopiesInv

\* The invariant of the managed copies, for any writers, files, transactions and faults.
THEOREM CopiesHolds == ASSUME Copies!CopiesAssumption PROVE Copies!Spec => []CopiesInv
  <1>1. Copies!Init => CopiesInv
    BY CopiesBegin
  <1>2. CopiesInv /\ [Copies!Next]_(Copies!vars) => CopiesInv'
    BY CopiesSteps, CopiesStutter
  <1> QED
    BY <1>1, <1>2, PTL DEF Copies!Spec

LEMMA CopiesGive == ASSUME Copies!CopiesAssumption, CopiesInv PROVE Copies!CopiesSafe
  <1>1. Copies!TypeOK /\ Copies!UserTextKept /\ Copies!OneWriter
    BY DEF CopiesInv, Shapes
  <1>2. Copies!WholeAtRest
    BY AtIs DEF CopiesInv, Sound, Rest, Copies!WholeAtRest
  <1>3. Copies!NeverStuck
    BY DEF CopiesInv, Steady, Copies!NeverStuck
  <1>4. Copies!RollsForward
    <2> SUFFICES ASSUME ~ edited, journal # None, NEW p \in Copies!Changes(journal)
                 PROVE  /\ Copies!After(journal)[p] # None => Copies!After(journal)[p] \in {target[p].text, staged[journal.tx][p]}
                        /\ Copies!Committed(journal) \/ Copies!Before(journal)[p] = None
                             \/ Copies!Before(journal)[p] \in {target[p].text, backup[journal.tx][p]}
      BY DEF Copies!RollsForward
    <2>1. journal \in Copies!Journals /\ Journaled(journal)
      BY DEF CopiesInv, Shapes, Copies!TypeOK, Sound
    <2>2. CASE Copies!Committed(journal)
      <3>1. Placed(journal, p) \/ Cleaned(journal, p)
        BY <2>1, <2>2, AfterCommit
      <3> QED
        BY <2>2, <3>1, AtIs DEF Placed, Cleaned
    <2>3. CASE ~ Copies!Committed(journal)
      <3>1. Untouched(journal, p) \/ Moved(journal, p) \/ Placed(journal, p)
        BY <2>1, <2>3, BeforeCommit
      <3> QED
        BY <3>1, AtIs DEF Untouched, Moved, Placed
    <2> QED
      BY <2>2, <2>3
  <1> QED
    BY <1>1, <1>2, <1>3, <1>4 DEF Copies!CopiesSafe

\* Without an edit the copies are one snapshot or the journal explains them and the recovery
\* goes on; with one, what the user wrote is kept; and one writer is at work.
THEOREM CopiesIsSafe == ASSUME Copies!CopiesAssumption PROVE Copies!Spec => []Copies!CopiesSafe
  <1>1. CopiesInv => Copies!CopiesSafe
    BY CopiesGive
  <1> QED
    BY <1>1, CopiesHolds, PTL

=============================================================================
