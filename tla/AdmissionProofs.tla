--------------------------- MODULE AdmissionProofs ---------------------------
(***************************************************************************)
(* Proofs about Admission, for every set of runs, keys, worktrees, guards  *)
(* and callers and every number of daemon replacements.  IndInv is         *)
(* inductive; each of its conjuncts has a lemma with one step per action.  *)
(* The numbering of the steps is the same in every one of these lemmas.    *)
(***************************************************************************)
EXTENDS Admission, TLAPS

USE DEF memory, durable, world, history

(* The initial states satisfy the invariant. *)
LEMMA IndInvInit == Init => IndInv
<1> SUFFICES ASSUME Init PROVE IndInv
  OBVIOUS
<1> USE RunAssumption, BootsAssumption DEF Init
<1>1. boots \in 0..MaxBoots
  OBVIOUS
<1>2. call \in [Caller -> CallRec]
  BY DEF CallRec, Idle, Ops, PendingOps, ReleaseOps, CleanupOps
<1>3. guard \in [Guard -> GuardRec]
  BY DEF NoGuard, GuardRec
<1>4. TypeOK
  BY <1>1, <1>2, <1>3 DEF TypeOK
<1>5. \A c \in Caller : call[c].op = "idle"
  BY DEF Idle
<1>6. \A r \in Run : ~Occupies(r)
  BY <1>5 DEF Occupies, Coming, PendingOps
<1>7. CallsNamed /\ LeaseHeldByOccupant /\ CleanupFence /\ FenceExcludes
  BY <1>5, <1>6 DEF CallsNamed, LeaseHeldByOccupant, CleanupFence, FenceExcludes,
      CleanupOps
<1>8. GuardsHeld /\ GateOpen /\ DownQuiet /\ GateSound
  BY <1>5, <1>6 DEF GuardsHeld, GateOpen, DownQuiet, GateSound, Tracked
<1> QED BY <1>4, <1>7, <1>8 DEF IndInv

(* Every step keeps the types.  A step that uses call[c].run as a run relies *)
(* on CallsNamed.                                                            *)
LEMMA TypeStep ==
  ASSUME TypeOK, CallsNamed, [Next]_vars PROVE TypeOK'
<1> USE RunAssumption DEF CallsNamed, TypeOK, CallRec, Ops, PendingOps, ReleaseOps,
    CleanupOps
<1>1. ASSUME NEW c \in Caller, NEW r \in Run, Acquire(c, r) PROVE TypeOK'
  BY <1>1 DEF Acquire, AdmitLiveRun, Kept, SweptDisk, Idle
<1>2. ASSUME NEW c \in Caller, NEW r \in Run, Reattach(c, r) PROVE TypeOK'
  BY <1>2 DEF Reattach, AdmitLiveRun, Kept, SweptDisk, Idle
<1>3. ASSUME NEW c \in Caller, NEW r \in Run, Release(c, r) PROVE TypeOK'
  BY <1>3 DEF Release, Idle
<1>4. ASSUME NEW c \in Caller, DriverAcquire(c) PROVE TypeOK'
  BY <1>4 DEF DriverAcquire
<1>5. ASSUME NEW c \in Caller, LogAcquire(c) PROVE TypeOK'
  BY <1>5 DEF LogAcquire
<1>6. ASSUME NEW c \in Caller, DriverAttach(c) PROVE TypeOK'
  BY <1>6 DEF DriverAttach
<1>7. ASSUME NEW c \in Caller, InsertRecord(c) PROVE TypeOK'
  BY <1>7 DEF InsertRecord, Idle
<1>8. ASSUME NEW c \in Caller, CallFails(c) PROVE TypeOK'
  BY <1>8 DEF CallFails, Coming
<1>9. ASSUME NEW c \in Caller, DropLease(c) PROVE TypeOK'
  BY <1>9 DEF DropLease, NoteYank, Idle
<1>10. ASSUME NEW c \in Caller, ReleaseAborted(c) PROVE TypeOK'
  BY <1>10 DEF ReleaseAborted, Idle
<1>11. ASSUME NEW c \in Caller, NEW b \in BOOLEAN, RemoveReleased(c, b) PROVE TypeOK'
  BY <1>11 DEF RemoveReleased, StopAndRemove, NoteYank
<1>12. ASSUME NEW c \in Caller, NEW b \in BOOLEAN, AppendRelease(c, b) PROVE TypeOK'
  BY <1>12 DEF AppendRelease, Idle
<1>13. ASSUME NEW c \in Caller, NEW b \in BOOLEAN, CleanupRemoveReleased(c, b) PROVE
    TypeOK'
  BY <1>13 DEF CleanupRemoveReleased, StopAndRemove, NoteYank
<1>14. ASSUME NEW c \in Caller, NEW g \in Guard, NEW r \in Run,
    PrepareDispatchCleanup(c, g, r) PROVE TypeOK'
  BY <1>14 DEF PrepareDispatchCleanup, Kept, SweptDisk, Idle, GuardRec
<1>15. ASSUME NEW c \in Caller, CleanupRefused(c) PROVE TypeOK'
  BY <1>15 DEF CleanupRefused, FinishDispatchCleanup, Idle
<1>16. ASSUME NEW c \in Caller, CleanupRelease(c) PROVE TypeOK'
  BY <1>16 DEF CleanupRelease
<1>17. ASSUME NEW c \in Caller, CleanupProceeds(c) PROVE TypeOK'
  BY <1>17 DEF CleanupProceeds
<1>18. ASSUME NEW c \in Caller, CleanupDone(c) PROVE TypeOK'
  BY <1>18 DEF CleanupDone, FinishDispatchCleanup, Idle
<1>19. ASSUME NEW c \in Caller, CleanupDropped(c) PROVE TypeOK'
  BY <1>19 DEF CleanupDropped, Idle
<1>20. ASSUME NEW g \in Guard, NEW w \in Worktree, NEW k \in Key, NEW by \in {"pid",
    "lease"}, NEW b \in BOOLEAN,
         NEW x \in {NoRun} \cup {r \in Run : KeyOf[r] = k}, ReserveDispatchClose(g, w,
             k, x, by, b) PROVE TypeOK'
  BY <1>20 DEF ReserveDispatchClose, Kept, SweptDisk, GuardRec
<1>21. ASSUME NEW g \in Guard, NEW b \in BOOLEAN, RenewDispatchClose(g, b) PROVE TypeOK'
  BY <1>21 DEF RenewDispatchClose
<1>22. ASSUME NEW g \in Guard, LeaseExpires(g) PROVE TypeOK'
  BY <1>22 DEF LeaseExpires
<1>23. ASSUME NEW g \in Guard, HolderDone(g) PROVE TypeOK'
  BY <1>23 DEF HolderDone
<1>24. ASSUME NEW g \in Guard, FinishDispatchClose(g) PROVE TypeOK'
  BY <1>24 DEF FinishDispatchClose
<1>25. ASSUME NEW g \in Guard, HolderDies(g) PROVE TypeOK'
  BY <1>25 DEF HolderDies
<1>26. ASSUME CollectCandidates PROVE TypeOK'
  BY <1>26 DEF CollectCandidates, Candidates
<1>27. ASSUME FinishBootReattach PROVE TypeOK'
  BY <1>27 DEF FinishBootReattach
<1>28. ASSUME NEW r \in Run, BootReattach(r) PROVE TypeOK'
  BY <1>28 DEF BootReattach, AdmitLiveRun, Kept, SweptDisk, Idle
<1>29. ASSUME NEW r \in Run, BootSkip(r) PROVE TypeOK'
  BY <1>29 DEF BootSkip
<1>30. ASSUME PauseAcquisition PROVE TypeOK'
  BY <1>30 DEF PauseAcquisition
<1>31. ASSUME RefusedRequest PROVE TypeOK'
  BY <1>31 DEF RefusedRequest, Kept, SweptDisk
<1>32. ASSUME DaemonBoots PROVE TypeOK'
  BY <1>32 DEF DaemonBoots
<1>33. ASSUME NEW k \in Key, ReleaseOrphanedLease(k) PROVE TypeOK'
  BY <1>33 DEF ReleaseOrphanedLease
<1>34. ASSUME NEW survivors \in SUBSET alive, DaemonStops(survivors) PROVE TypeOK'
  <2>1. boots' \in 0..MaxBoots
    BY <1>34, BootsAssumption DEF DaemonStops
  <2>2. call' \in [Caller -> CallRec]
    BY <1>34 DEF DaemonStops, Idle
  <2>3. /\ leases' \in [Key -> Run \cup {NoRun}]
        /\ runs' \in [Run -> {"none", "live", "releasing"}]
        /\ holder' \in [Guard -> {"unused", "working", "finishing", "gone"}]
    BY <1>34 DEF DaemonStops
  <2> QED BY <1>34, <2>1, <2>2, <2>3 DEF DaemonStops, Candidates
<1>35. ASSUME NEW r \in Run, WorkerExits(r) PROVE TypeOK'
  BY <1>35 DEF WorkerExits
<1>36. CASE UNCHANGED vars BY <1>36 DEF vars
<1> HIDE DEF CallsNamed, TypeOK, CallRec, Ops, PendingOps, ReleaseOps, CleanupOps
<1> QED BY <1>1, <1>2, <1>3, <1>4, <1>5, <1>6, <1>7, <1>8, <1>9, <1>10, <1>11, <1>12,
    <1>13, <1>14, <1>15, <1>16, <1>17, <1>18, <1>19, <1>20, <1>21, <1>22, <1>23, <1>24,
    <1>25, <1>26, <1>27, <1>28, <1>29, <1>30, <1>31, <1>32, <1>33, <1>34, <1>35, <1>36
    DEF Next, CallerNext, HolderNext, BootNext, DaemonNext

(* A cleanup's reservation is its own and stays in the table while it runs. *)
LEMMA CallsStep ==
  ASSUME IndInv, [Next]_vars PROVE CallsNamed'
<1> USE RunAssumption DEF IndInv, CallsNamed, GuardsHeld, DownQuiet, TypeOK, CallRec,
    Ops, PendingOps, ReleaseOps, CleanupOps, Coming
<1>1. ASSUME NEW c \in Caller, NEW r \in Run, Acquire(c, r) PROVE CallsNamed'
  BY <1>1 DEF Acquire, AdmitLiveRun, Kept, SweptDisk, IsAbandoned, Idle
<1>2. ASSUME NEW c \in Caller, NEW r \in Run, Reattach(c, r) PROVE CallsNamed'
  BY <1>2 DEF Reattach, AdmitLiveRun, Kept, SweptDisk, IsAbandoned, Idle
<1>3. ASSUME NEW c \in Caller, NEW r \in Run, Release(c, r) PROVE CallsNamed'
  BY <1>3 DEF Release, Idle
<1>4. ASSUME NEW c \in Caller, DriverAcquire(c) PROVE CallsNamed'
  BY <1>4 DEF DriverAcquire, Idle
<1>5. ASSUME NEW c \in Caller, LogAcquire(c) PROVE CallsNamed'
  BY <1>5 DEF LogAcquire, Idle
<1>6. ASSUME NEW c \in Caller, DriverAttach(c) PROVE CallsNamed'
  BY <1>6 DEF DriverAttach, Idle
<1>7. ASSUME NEW c \in Caller, InsertRecord(c) PROVE CallsNamed'
  BY <1>7 DEF InsertRecord, Idle
<1>8. ASSUME NEW c \in Caller, CallFails(c) PROVE CallsNamed'
  BY <1>8 DEF CallFails, Idle
<1>9. ASSUME NEW c \in Caller, DropLease(c) PROVE CallsNamed'
  BY <1>9 DEF DropLease, NoteYank, Idle
<1>10. ASSUME NEW c \in Caller, ReleaseAborted(c) PROVE CallsNamed'
  BY <1>10 DEF ReleaseAborted, Idle
<1>11. ASSUME NEW c \in Caller, NEW b \in BOOLEAN, RemoveReleased(c, b) PROVE
    CallsNamed'
  BY <1>11 DEF RemoveReleased, StopAndRemove, NoteYank
<1>12. ASSUME NEW c \in Caller, NEW b \in BOOLEAN, AppendRelease(c, b) PROVE CallsNamed'
  BY <1>12 DEF AppendRelease, Idle
<1>13. ASSUME NEW c \in Caller, NEW b \in BOOLEAN, CleanupRemoveReleased(c, b) PROVE
    CallsNamed'
  BY <1>13 DEF CleanupRemoveReleased, StopAndRemove, NoteYank
<1>14. ASSUME NEW c \in Caller, NEW g \in Guard, NEW r \in Run,
    PrepareDispatchCleanup(c, g, r) PROVE CallsNamed'
  BY <1>14 DEF PrepareDispatchCleanup, Kept, IsAbandoned, SweptDisk, Idle, LeasePending,
      Fenced
<1>15. ASSUME NEW c \in Caller, CleanupRefused(c) PROVE CallsNamed'
  BY <1>15 DEF CleanupRefused, FinishDispatchCleanup, Idle
<1>16. ASSUME NEW c \in Caller, CleanupRelease(c) PROVE CallsNamed'
  BY <1>16 DEF CleanupRelease, Idle
<1>17. ASSUME NEW c \in Caller, CleanupProceeds(c) PROVE CallsNamed'
  BY <1>17 DEF CleanupProceeds, Idle
<1>18. ASSUME NEW c \in Caller, CleanupDone(c) PROVE CallsNamed'
  BY <1>18 DEF CleanupDone, FinishDispatchCleanup, Idle
<1>19. ASSUME NEW c \in Caller, CleanupDropped(c) PROVE CallsNamed'
  BY <1>19 DEF CleanupDropped, Idle
<1>20. ASSUME NEW g \in Guard, NEW w \in Worktree, NEW k \in Key, NEW by \in {"pid",
    "lease"}, NEW b \in BOOLEAN,
         NEW x \in {NoRun} \cup {r \in Run : KeyOf[r] = k}, ReserveDispatchClose(g, w,
             k, x, by, b) PROVE CallsNamed'
  BY <1>20 DEF ReserveDispatchClose, Kept, IsAbandoned, SweptDisk, NoBlockingRun,
      PendingIn, LeasePending
<1>21. ASSUME NEW g \in Guard, NEW b \in BOOLEAN, RenewDispatchClose(g, b) PROVE
    CallsNamed'
  BY <1>21 DEF RenewDispatchClose
<1>22. ASSUME NEW g \in Guard, LeaseExpires(g) PROVE CallsNamed'
  BY <1>22 DEF LeaseExpires
<1>23. ASSUME NEW g \in Guard, HolderDone(g) PROVE CallsNamed'
  BY <1>23 DEF HolderDone
<1>24. ASSUME NEW g \in Guard, FinishDispatchClose(g) PROVE CallsNamed'
  BY <1>24 DEF FinishDispatchClose
<1>25. ASSUME NEW g \in Guard, HolderDies(g) PROVE CallsNamed'
  BY <1>25 DEF HolderDies
<1>26. ASSUME CollectCandidates PROVE CallsNamed'
  BY <1>26 DEF CollectCandidates, Candidates
<1>27. ASSUME FinishBootReattach PROVE CallsNamed'
  BY <1>27 DEF FinishBootReattach
<1>28. ASSUME NEW r \in Run, BootReattach(r) PROVE CallsNamed'
  BY <1>28 DEF BootReattach, AdmitLiveRun, Kept, SweptDisk, IsAbandoned, Idle
<1>29. ASSUME NEW r \in Run, BootSkip(r) PROVE CallsNamed'
  BY <1>29 DEF BootSkip
<1>30. ASSUME PauseAcquisition PROVE CallsNamed'
  BY <1>30 DEF PauseAcquisition
<1>31. ASSUME RefusedRequest PROVE CallsNamed'
  BY <1>31 DEF RefusedRequest, Kept, IsAbandoned, SweptDisk
<1>32. ASSUME DaemonBoots PROVE CallsNamed'
  BY <1>32 DEF DaemonBoots, Idle, IsAbandoned
<1>33. ASSUME NEW k \in Key, ReleaseOrphanedLease(k) PROVE CallsNamed'
  BY <1>33 DEF ReleaseOrphanedLease, LeasePending
<1>34. ASSUME NEW survivors \in SUBSET alive, DaemonStops(survivors) PROVE CallsNamed'
  BY <1>34 DEF DaemonStops, Idle, Candidates
<1>35. ASSUME NEW r \in Run, WorkerExits(r) PROVE CallsNamed'
  BY <1>35 DEF WorkerExits, Idle
<1>36. CASE UNCHANGED vars BY <1>36 DEF vars
<1> HIDE DEF IndInv, CallsNamed, GuardsHeld, DownQuiet, TypeOK, CallRec, Ops,
    PendingOps, ReleaseOps, CleanupOps, Coming
<1> QED BY <1>1, <1>2, <1>3, <1>4, <1>5, <1>6, <1>7, <1>8, <1>9, <1>10, <1>11, <1>12,
    <1>13, <1>14, <1>15, <1>16, <1>17, <1>18, <1>19, <1>20, <1>21, <1>22, <1>23, <1>24,
    <1>25, <1>26, <1>27, <1>28, <1>29, <1>30, <1>31, <1>32, <1>33, <1>34, <1>35, <1>36
    DEF Next, CallerNext, HolderNext, BootNext, DaemonNext

(* Removing a lease by key is harmless because, for a key that was not yanked,
   the occupant whose record goes is the only one the key has. *)
LEMMA LeaseStep ==
  ASSUME IndInv, [Next]_vars PROVE LeaseHeldByOccupant'
<1> USE RunAssumption DEF IndInv, CallsNamed, LeaseHeldByOccupant, Occupies,
    LeaseAdmits, DownQuiet, TypeOK, CallRec, Ops, PendingOps, ReleaseOps, CleanupOps,
    Coming
<1>1. ASSUME NEW c \in Caller, NEW r \in Run, Acquire(c, r) PROVE LeaseHeldByOccupant'
  BY <1>1 DEF Acquire, AdmitLiveRun, Kept, SweptDisk, IsAbandoned, Idle
<1>2. ASSUME NEW c \in Caller, NEW r \in Run, Reattach(c, r) PROVE LeaseHeldByOccupant'
  BY <1>2 DEF Reattach, AdmitLiveRun, Kept, SweptDisk, IsAbandoned, Idle
<1>3. ASSUME NEW c \in Caller, NEW r \in Run, Release(c, r) PROVE LeaseHeldByOccupant'
  BY <1>3 DEF Release, Idle
<1>4. ASSUME NEW c \in Caller, DriverAcquire(c) PROVE LeaseHeldByOccupant'
  BY <1>4 DEF DriverAcquire, Idle
<1>5. ASSUME NEW c \in Caller, LogAcquire(c) PROVE LeaseHeldByOccupant'
  BY <1>5 DEF LogAcquire, Idle
<1>6. ASSUME NEW c \in Caller, DriverAttach(c) PROVE LeaseHeldByOccupant'
  BY <1>6 DEF DriverAttach, Idle
<1>7. ASSUME NEW c \in Caller, InsertRecord(c) PROVE LeaseHeldByOccupant'
  BY <1>7 DEF InsertRecord, Idle
<1>8. ASSUME NEW c \in Caller, CallFails(c) PROVE LeaseHeldByOccupant'
  BY <1>8 DEF CallFails, Idle
<1>9. ASSUME NEW c \in Caller, DropLease(c) PROVE LeaseHeldByOccupant'
  BY <1>9 DEF DropLease, NoteYank, Idle
<1>10. ASSUME NEW c \in Caller, ReleaseAborted(c) PROVE LeaseHeldByOccupant'
  BY <1>10 DEF ReleaseAborted, Idle
<1>11. ASSUME NEW c \in Caller, NEW b \in BOOLEAN, RemoveReleased(c, b) PROVE
    LeaseHeldByOccupant'
  BY <1>11 DEF RemoveReleased, StopAndRemove, NoteYank
<1>12. ASSUME NEW c \in Caller, NEW b \in BOOLEAN, AppendRelease(c, b) PROVE
    LeaseHeldByOccupant'
  BY <1>12 DEF AppendRelease, Idle
<1>13. ASSUME NEW c \in Caller, NEW b \in BOOLEAN, CleanupRemoveReleased(c, b) PROVE
    LeaseHeldByOccupant'
  BY <1>13 DEF CleanupRemoveReleased, StopAndRemove, NoteYank
<1>14. ASSUME NEW c \in Caller, NEW g \in Guard, NEW r \in Run,
    PrepareDispatchCleanup(c, g, r) PROVE LeaseHeldByOccupant'
  BY <1>14 DEF PrepareDispatchCleanup, Kept, IsAbandoned, SweptDisk, Idle, LeasePending,
      Fenced
<1>15. ASSUME NEW c \in Caller, CleanupRefused(c) PROVE LeaseHeldByOccupant'
  BY <1>15 DEF CleanupRefused, FinishDispatchCleanup, Idle
<1>16. ASSUME NEW c \in Caller, CleanupRelease(c) PROVE LeaseHeldByOccupant'
  BY <1>16 DEF CleanupRelease, Idle
<1>17. ASSUME NEW c \in Caller, CleanupProceeds(c) PROVE LeaseHeldByOccupant'
  BY <1>17 DEF CleanupProceeds, Idle
<1>18. ASSUME NEW c \in Caller, CleanupDone(c) PROVE LeaseHeldByOccupant'
  BY <1>18 DEF CleanupDone, FinishDispatchCleanup, Idle
<1>19. ASSUME NEW c \in Caller, CleanupDropped(c) PROVE LeaseHeldByOccupant'
  BY <1>19 DEF CleanupDropped, Idle
<1>20. ASSUME NEW g \in Guard, NEW w \in Worktree, NEW k \in Key, NEW by \in {"pid",
    "lease"}, NEW b \in BOOLEAN,
         NEW x \in {NoRun} \cup {r \in Run : KeyOf[r] = k}, ReserveDispatchClose(g, w,
             k, x, by, b) PROVE LeaseHeldByOccupant'
  BY <1>20 DEF ReserveDispatchClose, Kept, IsAbandoned, SweptDisk, NoBlockingRun,
      PendingIn, LeasePending
<1>21. ASSUME NEW g \in Guard, NEW b \in BOOLEAN, RenewDispatchClose(g, b) PROVE
    LeaseHeldByOccupant'
  BY <1>21 DEF RenewDispatchClose
<1>22. ASSUME NEW g \in Guard, LeaseExpires(g) PROVE LeaseHeldByOccupant'
  BY <1>22 DEF LeaseExpires
<1>23. ASSUME NEW g \in Guard, HolderDone(g) PROVE LeaseHeldByOccupant'
  BY <1>23 DEF HolderDone
<1>24. ASSUME NEW g \in Guard, FinishDispatchClose(g) PROVE LeaseHeldByOccupant'
  BY <1>24 DEF FinishDispatchClose
<1>25. ASSUME NEW g \in Guard, HolderDies(g) PROVE LeaseHeldByOccupant'
  BY <1>25 DEF HolderDies
<1>26. ASSUME CollectCandidates PROVE LeaseHeldByOccupant'
  BY <1>26 DEF CollectCandidates, Candidates
<1>27. ASSUME FinishBootReattach PROVE LeaseHeldByOccupant'
  BY <1>27 DEF FinishBootReattach
<1>28. ASSUME NEW r \in Run, BootReattach(r) PROVE LeaseHeldByOccupant'
  BY <1>28 DEF BootReattach, AdmitLiveRun, Kept, SweptDisk, IsAbandoned, Idle
<1>29. ASSUME NEW r \in Run, BootSkip(r) PROVE LeaseHeldByOccupant'
  BY <1>29 DEF BootSkip
<1>30. ASSUME PauseAcquisition PROVE LeaseHeldByOccupant'
  BY <1>30 DEF PauseAcquisition
<1>31. ASSUME RefusedRequest PROVE LeaseHeldByOccupant'
  BY <1>31 DEF RefusedRequest, Kept, IsAbandoned, SweptDisk
<1>32. ASSUME DaemonBoots PROVE LeaseHeldByOccupant'
  BY <1>32 DEF DaemonBoots, Idle, IsAbandoned
<1>33. ASSUME NEW k \in Key, ReleaseOrphanedLease(k) PROVE LeaseHeldByOccupant'
  BY <1>33 DEF ReleaseOrphanedLease, LeasePending
<1>34. ASSUME NEW survivors \in SUBSET alive, DaemonStops(survivors) PROVE
    LeaseHeldByOccupant'
  BY <1>34 DEF DaemonStops, Idle, Candidates
<1>35. ASSUME NEW r \in Run, WorkerExits(r) PROVE LeaseHeldByOccupant'
  BY <1>35 DEF WorkerExits, Idle
<1>36. CASE UNCHANGED vars BY <1>36 DEF vars
<1> HIDE DEF IndInv, CallsNamed, LeaseHeldByOccupant, Occupies, LeaseAdmits, DownQuiet,
    TypeOK, CallRec, Ops, PendingOps, ReleaseOps, CleanupOps, Coming
<1> QED BY <1>1, <1>2, <1>3, <1>4, <1>5, <1>6, <1>7, <1>8, <1>9, <1>10, <1>11, <1>12,
    <1>13, <1>14, <1>15, <1>16, <1>17, <1>18, <1>19, <1>20, <1>21, <1>22, <1>23, <1>24,
    <1>25, <1>26, <1>27, <1>28, <1>29, <1>30, <1>31, <1>32, <1>33, <1>34, <1>35, <1>36
    DEF Next, CallerNext, HolderNext, BootNext, DaemonNext

(* The fence a cleanup installs keeps every other attempt of its task out. *)
LEMMA CleanupStep ==
  ASSUME IndInv, [Next]_vars PROVE CleanupFence'
<1> USE RunAssumption DEF IndInv, CallsNamed, LeaseHeldByOccupant, Occupies,
    CleanupFence, DownQuiet, LeaseAdmits,
    FenceAdmits, Fenced, TypeOK, CallRec, Ops, PendingOps, ReleaseOps, CleanupOps, Coming
<1>1. ASSUME NEW c \in Caller, NEW r \in Run, Acquire(c, r) PROVE CleanupFence'
  BY <1>1 DEF Acquire, AdmitLiveRun, Kept, SweptDisk, IsAbandoned, Idle
<1>2. ASSUME NEW c \in Caller, NEW r \in Run, Reattach(c, r) PROVE CleanupFence'
  BY <1>2 DEF Reattach, AdmitLiveRun, Kept, SweptDisk, IsAbandoned, Idle
<1>3. ASSUME NEW c \in Caller, NEW r \in Run, Release(c, r) PROVE CleanupFence'
  BY <1>3 DEF Release, Idle
<1>4. ASSUME NEW c \in Caller, DriverAcquire(c) PROVE CleanupFence'
  BY <1>4 DEF DriverAcquire, Idle
<1>5. ASSUME NEW c \in Caller, LogAcquire(c) PROVE CleanupFence'
  BY <1>5 DEF LogAcquire, Idle
<1>6. ASSUME NEW c \in Caller, DriverAttach(c) PROVE CleanupFence'
  BY <1>6 DEF DriverAttach, Idle
<1>7. ASSUME NEW c \in Caller, InsertRecord(c) PROVE CleanupFence'
  BY <1>7 DEF InsertRecord, Idle
<1>8. ASSUME NEW c \in Caller, CallFails(c) PROVE CleanupFence'
  BY <1>8 DEF CallFails, Idle
<1>9. ASSUME NEW c \in Caller, DropLease(c) PROVE CleanupFence'
  BY <1>9 DEF DropLease, NoteYank, Idle
<1>10. ASSUME NEW c \in Caller, ReleaseAborted(c) PROVE CleanupFence'
  BY <1>10 DEF ReleaseAborted, Idle
<1>11. ASSUME NEW c \in Caller, NEW b \in BOOLEAN, RemoveReleased(c, b) PROVE
    CleanupFence'
  BY <1>11 DEF RemoveReleased, StopAndRemove, NoteYank
<1>12. ASSUME NEW c \in Caller, NEW b \in BOOLEAN, AppendRelease(c, b) PROVE
    CleanupFence'
  BY <1>12 DEF AppendRelease, Idle
<1>13. ASSUME NEW c \in Caller, NEW b \in BOOLEAN, CleanupRemoveReleased(c, b) PROVE
    CleanupFence'
  BY <1>13 DEF CleanupRemoveReleased, StopAndRemove, NoteYank
<1>14. ASSUME NEW c \in Caller, NEW g \in Guard, NEW r \in Run,
    PrepareDispatchCleanup(c, g, r) PROVE CleanupFence'
  BY <1>14 DEF PrepareDispatchCleanup, Kept, IsAbandoned, SweptDisk, Idle, LeasePending,
      Fenced
<1>15. ASSUME NEW c \in Caller, CleanupRefused(c) PROVE CleanupFence'
  BY <1>15 DEF CleanupRefused, FinishDispatchCleanup, Idle
<1>16. ASSUME NEW c \in Caller, CleanupRelease(c) PROVE CleanupFence'
  BY <1>16 DEF CleanupRelease, Idle
<1>17. ASSUME NEW c \in Caller, CleanupProceeds(c) PROVE CleanupFence'
  BY <1>17 DEF CleanupProceeds, Idle
<1>18. ASSUME NEW c \in Caller, CleanupDone(c) PROVE CleanupFence'
  BY <1>18 DEF CleanupDone, FinishDispatchCleanup, Idle
<1>19. ASSUME NEW c \in Caller, CleanupDropped(c) PROVE CleanupFence'
  BY <1>19 DEF CleanupDropped, Idle
<1>20. ASSUME NEW g \in Guard, NEW w \in Worktree, NEW k \in Key, NEW by \in {"pid",
    "lease"}, NEW b \in BOOLEAN,
         NEW x \in {NoRun} \cup {r \in Run : KeyOf[r] = k}, ReserveDispatchClose(g, w,
             k, x, by, b) PROVE CleanupFence'
  BY <1>20 DEF ReserveDispatchClose, Kept, IsAbandoned, SweptDisk, NoBlockingRun,
      PendingIn, LeasePending
<1>21. ASSUME NEW g \in Guard, NEW b \in BOOLEAN, RenewDispatchClose(g, b) PROVE
    CleanupFence'
  BY <1>21 DEF RenewDispatchClose
<1>22. ASSUME NEW g \in Guard, LeaseExpires(g) PROVE CleanupFence'
  BY <1>22 DEF LeaseExpires
<1>23. ASSUME NEW g \in Guard, HolderDone(g) PROVE CleanupFence'
  BY <1>23 DEF HolderDone
<1>24. ASSUME NEW g \in Guard, FinishDispatchClose(g) PROVE CleanupFence'
  BY <1>24 DEF FinishDispatchClose
<1>25. ASSUME NEW g \in Guard, HolderDies(g) PROVE CleanupFence'
  BY <1>25 DEF HolderDies
<1>26. ASSUME CollectCandidates PROVE CleanupFence'
  BY <1>26 DEF CollectCandidates, Candidates
<1>27. ASSUME FinishBootReattach PROVE CleanupFence'
  BY <1>27 DEF FinishBootReattach
<1>28. ASSUME NEW r \in Run, BootReattach(r) PROVE CleanupFence'
  BY <1>28 DEF BootReattach, AdmitLiveRun, Kept, SweptDisk, IsAbandoned, Idle
<1>29. ASSUME NEW r \in Run, BootSkip(r) PROVE CleanupFence'
  BY <1>29 DEF BootSkip
<1>30. ASSUME PauseAcquisition PROVE CleanupFence'
  BY <1>30 DEF PauseAcquisition
<1>31. ASSUME RefusedRequest PROVE CleanupFence'
  BY <1>31 DEF RefusedRequest, Kept, IsAbandoned, SweptDisk
<1>32. ASSUME DaemonBoots PROVE CleanupFence'
  BY <1>32 DEF DaemonBoots, Idle, IsAbandoned
<1>33. ASSUME NEW k \in Key, ReleaseOrphanedLease(k) PROVE CleanupFence'
  BY <1>33 DEF ReleaseOrphanedLease, LeasePending
<1>34. ASSUME NEW survivors \in SUBSET alive, DaemonStops(survivors) PROVE CleanupFence'
  BY <1>34 DEF DaemonStops, Idle, Candidates
<1>35. ASSUME NEW r \in Run, WorkerExits(r) PROVE CleanupFence'
  BY <1>35 DEF WorkerExits, Idle
<1>36. CASE UNCHANGED vars BY <1>36 DEF vars
<1> HIDE DEF IndInv, CallsNamed, LeaseHeldByOccupant, Occupies, CleanupFence, DownQuiet,
    LeaseAdmits,
    FenceAdmits, Fenced, TypeOK, CallRec, Ops, PendingOps, ReleaseOps, CleanupOps, Coming
<1> QED BY <1>1, <1>2, <1>3, <1>4, <1>5, <1>6, <1>7, <1>8, <1>9, <1>10, <1>11, <1>12,
    <1>13, <1>14, <1>15, <1>16, <1>17, <1>18, <1>19, <1>20, <1>21, <1>22, <1>23, <1>24,
    <1>25, <1>26, <1>27, <1>28, <1>29, <1>30, <1>31, <1>32, <1>33, <1>34, <1>35, <1>36
    DEF Next, CallerNext, HolderNext, BootNext, DaemonNext

(* A working holder's guard survives every sweep and every replacement. *)
LEMMA GuardsStep ==
  ASSUME IndInv, [Next]_vars PROVE GuardsHeld'
<1> USE RunAssumption DEF IndInv, CallsNamed, GuardsHeld, Fenced, TypeOK, CallRec, Ops,
    PendingOps, ReleaseOps, CleanupOps
<1>1. ASSUME NEW c \in Caller, NEW r \in Run, Acquire(c, r) PROVE GuardsHeld'
  BY <1>1 DEF Acquire, AdmitLiveRun, Kept, SweptDisk, IsAbandoned, Idle
<1>2. ASSUME NEW c \in Caller, NEW r \in Run, Reattach(c, r) PROVE GuardsHeld'
  BY <1>2 DEF Reattach, AdmitLiveRun, Kept, SweptDisk, IsAbandoned, Idle
<1>3. ASSUME NEW c \in Caller, NEW r \in Run, Release(c, r) PROVE GuardsHeld'
  BY <1>3 DEF Release, Idle
<1>4. ASSUME NEW c \in Caller, DriverAcquire(c) PROVE GuardsHeld'
  BY <1>4 DEF DriverAcquire, Idle
<1>5. ASSUME NEW c \in Caller, LogAcquire(c) PROVE GuardsHeld'
  BY <1>5 DEF LogAcquire, Idle
<1>6. ASSUME NEW c \in Caller, DriverAttach(c) PROVE GuardsHeld'
  BY <1>6 DEF DriverAttach, Idle
<1>7. ASSUME NEW c \in Caller, InsertRecord(c) PROVE GuardsHeld'
  BY <1>7 DEF InsertRecord, Idle
<1>8. ASSUME NEW c \in Caller, CallFails(c) PROVE GuardsHeld'
  BY <1>8 DEF CallFails, Idle
<1>9. ASSUME NEW c \in Caller, DropLease(c) PROVE GuardsHeld'
  BY <1>9 DEF DropLease, NoteYank, Idle
<1>10. ASSUME NEW c \in Caller, ReleaseAborted(c) PROVE GuardsHeld'
  BY <1>10 DEF ReleaseAborted, Idle
<1>11. ASSUME NEW c \in Caller, NEW b \in BOOLEAN, RemoveReleased(c, b) PROVE
    GuardsHeld'
  BY <1>11 DEF RemoveReleased, StopAndRemove, NoteYank
<1>12. ASSUME NEW c \in Caller, NEW b \in BOOLEAN, AppendRelease(c, b) PROVE GuardsHeld'
  BY <1>12 DEF AppendRelease, Idle
<1>13. ASSUME NEW c \in Caller, NEW b \in BOOLEAN, CleanupRemoveReleased(c, b) PROVE
    GuardsHeld'
  BY <1>13 DEF CleanupRemoveReleased, StopAndRemove, NoteYank
<1>14. ASSUME NEW c \in Caller, NEW g \in Guard, NEW r \in Run,
    PrepareDispatchCleanup(c, g, r) PROVE GuardsHeld'
  BY <1>14 DEF PrepareDispatchCleanup, Kept, IsAbandoned, SweptDisk, Idle, LeasePending,
      Fenced
<1>15. ASSUME NEW c \in Caller, CleanupRefused(c) PROVE GuardsHeld'
  BY <1>15 DEF CleanupRefused, FinishDispatchCleanup, Idle
<1>16. ASSUME NEW c \in Caller, CleanupRelease(c) PROVE GuardsHeld'
  BY <1>16 DEF CleanupRelease, Idle
<1>17. ASSUME NEW c \in Caller, CleanupProceeds(c) PROVE GuardsHeld'
  BY <1>17 DEF CleanupProceeds, Idle
<1>18. ASSUME NEW c \in Caller, CleanupDone(c) PROVE GuardsHeld'
  BY <1>18 DEF CleanupDone, FinishDispatchCleanup, Idle
<1>19. ASSUME NEW c \in Caller, CleanupDropped(c) PROVE GuardsHeld'
  BY <1>19 DEF CleanupDropped, Idle
<1>20. ASSUME NEW g \in Guard, NEW w \in Worktree, NEW k \in Key, NEW by \in {"pid",
    "lease"}, NEW b \in BOOLEAN,
         NEW x \in {NoRun} \cup {r \in Run : KeyOf[r] = k}, ReserveDispatchClose(g, w,
             k, x, by, b) PROVE GuardsHeld'
  BY <1>20 DEF ReserveDispatchClose, Kept, IsAbandoned, SweptDisk, NoBlockingRun,
      PendingIn, LeasePending
<1>21. ASSUME NEW g \in Guard, NEW b \in BOOLEAN, RenewDispatchClose(g, b) PROVE
    GuardsHeld'
  BY <1>21 DEF RenewDispatchClose
<1>22. ASSUME NEW g \in Guard, LeaseExpires(g) PROVE GuardsHeld'
  BY <1>22 DEF LeaseExpires
<1>23. ASSUME NEW g \in Guard, HolderDone(g) PROVE GuardsHeld'
  BY <1>23 DEF HolderDone
<1>24. ASSUME NEW g \in Guard, FinishDispatchClose(g) PROVE GuardsHeld'
  BY <1>24 DEF FinishDispatchClose
<1>25. ASSUME NEW g \in Guard, HolderDies(g) PROVE GuardsHeld'
  BY <1>25 DEF HolderDies
<1>26. ASSUME CollectCandidates PROVE GuardsHeld'
  BY <1>26 DEF CollectCandidates, Candidates
<1>27. ASSUME FinishBootReattach PROVE GuardsHeld'
  BY <1>27 DEF FinishBootReattach
<1>28. ASSUME NEW r \in Run, BootReattach(r) PROVE GuardsHeld'
  BY <1>28 DEF BootReattach, AdmitLiveRun, Kept, SweptDisk, IsAbandoned, Idle
<1>29. ASSUME NEW r \in Run, BootSkip(r) PROVE GuardsHeld'
  BY <1>29 DEF BootSkip
<1>30. ASSUME PauseAcquisition PROVE GuardsHeld'
  BY <1>30 DEF PauseAcquisition
<1>31. ASSUME RefusedRequest PROVE GuardsHeld'
  BY <1>31 DEF RefusedRequest, Kept, IsAbandoned, SweptDisk
<1>32. ASSUME DaemonBoots PROVE GuardsHeld'
  BY <1>32 DEF DaemonBoots, Idle, IsAbandoned
<1>33. ASSUME NEW k \in Key, ReleaseOrphanedLease(k) PROVE GuardsHeld'
  BY <1>33 DEF ReleaseOrphanedLease, LeasePending
<1>34. ASSUME NEW survivors \in SUBSET alive, DaemonStops(survivors) PROVE GuardsHeld'
  BY <1>34 DEF DaemonStops, Idle, Candidates
<1>35. ASSUME NEW r \in Run, WorkerExits(r) PROVE GuardsHeld'
  BY <1>35 DEF WorkerExits, Idle
<1>36. CASE UNCHANGED vars BY <1>36 DEF vars
<1> HIDE DEF IndInv, CallsNamed, GuardsHeld, Fenced, TypeOK, CallRec, Ops, PendingOps,
    ReleaseOps, CleanupOps
<1> QED BY <1>1, <1>2, <1>3, <1>4, <1>5, <1>6, <1>7, <1>8, <1>9, <1>10, <1>11, <1>12,
    <1>13, <1>14, <1>15, <1>16, <1>17, <1>18, <1>19, <1>20, <1>21, <1>22, <1>23, <1>24,
    <1>25, <1>26, <1>27, <1>28, <1>29, <1>30, <1>31, <1>32, <1>33, <1>34, <1>35, <1>36
    DEF Next, CallerNext, HolderNext, BootNext, DaemonNext

(* The gate opens only over a finished scan. *)
LEMMA OpenStep ==
  ASSUME IndInv, [Next]_vars PROVE GateOpen'
<1> USE RunAssumption DEF IndInv, CallsNamed, GateOpen, DownQuiet, TypeOK, CallRec, Ops,
    PendingOps, ReleaseOps, CleanupOps
<1>1. ASSUME NEW c \in Caller, NEW r \in Run, Acquire(c, r) PROVE GateOpen'
  BY <1>1 DEF Acquire, AdmitLiveRun, Kept, SweptDisk, IsAbandoned, Idle
<1>2. ASSUME NEW c \in Caller, NEW r \in Run, Reattach(c, r) PROVE GateOpen'
  BY <1>2 DEF Reattach, AdmitLiveRun, Kept, SweptDisk, IsAbandoned, Idle
<1>3. ASSUME NEW c \in Caller, NEW r \in Run, Release(c, r) PROVE GateOpen'
  BY <1>3 DEF Release, Idle
<1>4. ASSUME NEW c \in Caller, DriverAcquire(c) PROVE GateOpen'
  BY <1>4 DEF DriverAcquire, Idle
<1>5. ASSUME NEW c \in Caller, LogAcquire(c) PROVE GateOpen'
  BY <1>5 DEF LogAcquire, Idle
<1>6. ASSUME NEW c \in Caller, DriverAttach(c) PROVE GateOpen'
  BY <1>6 DEF DriverAttach, Idle
<1>7. ASSUME NEW c \in Caller, InsertRecord(c) PROVE GateOpen'
  BY <1>7 DEF InsertRecord, Idle
<1>8. ASSUME NEW c \in Caller, CallFails(c) PROVE GateOpen'
  BY <1>8 DEF CallFails, Idle
<1>9. ASSUME NEW c \in Caller, DropLease(c) PROVE GateOpen'
  BY <1>9 DEF DropLease, NoteYank, Idle
<1>10. ASSUME NEW c \in Caller, ReleaseAborted(c) PROVE GateOpen'
  BY <1>10 DEF ReleaseAborted, Idle
<1>11. ASSUME NEW c \in Caller, NEW b \in BOOLEAN, RemoveReleased(c, b) PROVE GateOpen'
  BY <1>11 DEF RemoveReleased, StopAndRemove, NoteYank
<1>12. ASSUME NEW c \in Caller, NEW b \in BOOLEAN, AppendRelease(c, b) PROVE GateOpen'
  BY <1>12 DEF AppendRelease, Idle
<1>13. ASSUME NEW c \in Caller, NEW b \in BOOLEAN, CleanupRemoveReleased(c, b) PROVE
    GateOpen'
  BY <1>13 DEF CleanupRemoveReleased, StopAndRemove, NoteYank
<1>14. ASSUME NEW c \in Caller, NEW g \in Guard, NEW r \in Run,
    PrepareDispatchCleanup(c, g, r) PROVE GateOpen'
  BY <1>14 DEF PrepareDispatchCleanup, Kept, IsAbandoned, SweptDisk, Idle, LeasePending,
      Fenced
<1>15. ASSUME NEW c \in Caller, CleanupRefused(c) PROVE GateOpen'
  BY <1>15 DEF CleanupRefused, FinishDispatchCleanup, Idle
<1>16. ASSUME NEW c \in Caller, CleanupRelease(c) PROVE GateOpen'
  BY <1>16 DEF CleanupRelease, Idle
<1>17. ASSUME NEW c \in Caller, CleanupProceeds(c) PROVE GateOpen'
  BY <1>17 DEF CleanupProceeds, Idle
<1>18. ASSUME NEW c \in Caller, CleanupDone(c) PROVE GateOpen'
  BY <1>18 DEF CleanupDone, FinishDispatchCleanup, Idle
<1>19. ASSUME NEW c \in Caller, CleanupDropped(c) PROVE GateOpen'
  BY <1>19 DEF CleanupDropped, Idle
<1>20. ASSUME NEW g \in Guard, NEW w \in Worktree, NEW k \in Key, NEW by \in {"pid",
    "lease"}, NEW b \in BOOLEAN,
         NEW x \in {NoRun} \cup {r \in Run : KeyOf[r] = k}, ReserveDispatchClose(g, w,
             k, x, by, b) PROVE GateOpen'
  BY <1>20 DEF ReserveDispatchClose, Kept, IsAbandoned, SweptDisk, NoBlockingRun,
      PendingIn, LeasePending
<1>21. ASSUME NEW g \in Guard, NEW b \in BOOLEAN, RenewDispatchClose(g, b) PROVE
    GateOpen'
  BY <1>21 DEF RenewDispatchClose
<1>22. ASSUME NEW g \in Guard, LeaseExpires(g) PROVE GateOpen'
  BY <1>22 DEF LeaseExpires
<1>23. ASSUME NEW g \in Guard, HolderDone(g) PROVE GateOpen'
  BY <1>23 DEF HolderDone
<1>24. ASSUME NEW g \in Guard, FinishDispatchClose(g) PROVE GateOpen'
  BY <1>24 DEF FinishDispatchClose
<1>25. ASSUME NEW g \in Guard, HolderDies(g) PROVE GateOpen'
  BY <1>25 DEF HolderDies
<1>26. ASSUME CollectCandidates PROVE GateOpen'
  BY <1>26 DEF CollectCandidates, Candidates
<1>27. ASSUME FinishBootReattach PROVE GateOpen'
  BY <1>27 DEF FinishBootReattach
<1>28. ASSUME NEW r \in Run, BootReattach(r) PROVE GateOpen'
  BY <1>28 DEF BootReattach, AdmitLiveRun, Kept, SweptDisk, IsAbandoned, Idle
<1>29. ASSUME NEW r \in Run, BootSkip(r) PROVE GateOpen'
  BY <1>29 DEF BootSkip
<1>30. ASSUME PauseAcquisition PROVE GateOpen'
  BY <1>30 DEF PauseAcquisition
<1>31. ASSUME RefusedRequest PROVE GateOpen'
  BY <1>31 DEF RefusedRequest, Kept, IsAbandoned, SweptDisk
<1>32. ASSUME DaemonBoots PROVE GateOpen'
  BY <1>32 DEF DaemonBoots, Idle, IsAbandoned
<1>33. ASSUME NEW k \in Key, ReleaseOrphanedLease(k) PROVE GateOpen'
  BY <1>33 DEF ReleaseOrphanedLease, LeasePending
<1>34. ASSUME NEW survivors \in SUBSET alive, DaemonStops(survivors) PROVE GateOpen'
  BY <1>34 DEF DaemonStops, Idle, Candidates
<1>35. ASSUME NEW r \in Run, WorkerExits(r) PROVE GateOpen'
  BY <1>35 DEF WorkerExits, Idle
<1>36. CASE UNCHANGED vars BY <1>36 DEF vars
<1> HIDE DEF IndInv, CallsNamed, GateOpen, DownQuiet, TypeOK, CallRec, Ops, PendingOps,
    ReleaseOps, CleanupOps
<1> QED BY <1>1, <1>2, <1>3, <1>4, <1>5, <1>6, <1>7, <1>8, <1>9, <1>10, <1>11, <1>12,
    <1>13, <1>14, <1>15, <1>16, <1>17, <1>18, <1>19, <1>20, <1>21, <1>22, <1>23, <1>24,
    <1>25, <1>26, <1>27, <1>28, <1>29, <1>30, <1>31, <1>32, <1>33, <1>34, <1>35, <1>36
    DEF Next, CallerNext, HolderNext, BootNext, DaemonNext

(* Nothing runs in a daemon that is down. *)
LEMMA DownStep ==
  ASSUME IndInv, [Next]_vars PROVE DownQuiet'
<1> USE RunAssumption DEF IndInv, CallsNamed, DownQuiet, Candidates, Coming, TypeOK,
    CallRec, Ops, PendingOps, ReleaseOps, CleanupOps
<1>1. ASSUME NEW c \in Caller, NEW r \in Run, Acquire(c, r) PROVE DownQuiet'
  BY <1>1 DEF Acquire, AdmitLiveRun, Kept, SweptDisk, IsAbandoned, Idle
<1>2. ASSUME NEW c \in Caller, NEW r \in Run, Reattach(c, r) PROVE DownQuiet'
  BY <1>2 DEF Reattach, AdmitLiveRun, Kept, SweptDisk, IsAbandoned, Idle
<1>3. ASSUME NEW c \in Caller, NEW r \in Run, Release(c, r) PROVE DownQuiet'
  BY <1>3 DEF Release, Idle
<1>4. ASSUME NEW c \in Caller, DriverAcquire(c) PROVE DownQuiet'
  BY <1>4 DEF DriverAcquire, Idle
<1>5. ASSUME NEW c \in Caller, LogAcquire(c) PROVE DownQuiet'
  BY <1>5 DEF LogAcquire, Idle
<1>6. ASSUME NEW c \in Caller, DriverAttach(c) PROVE DownQuiet'
  BY <1>6 DEF DriverAttach, Idle
<1>7. ASSUME NEW c \in Caller, InsertRecord(c) PROVE DownQuiet'
  BY <1>7 DEF InsertRecord, Idle
<1>8. ASSUME NEW c \in Caller, CallFails(c) PROVE DownQuiet'
  BY <1>8 DEF CallFails, Idle
<1>9. ASSUME NEW c \in Caller, DropLease(c) PROVE DownQuiet'
  BY <1>9 DEF DropLease, NoteYank, Idle
<1>10. ASSUME NEW c \in Caller, ReleaseAborted(c) PROVE DownQuiet'
  BY <1>10 DEF ReleaseAborted, Idle
<1>11. ASSUME NEW c \in Caller, NEW b \in BOOLEAN, RemoveReleased(c, b) PROVE DownQuiet'
  BY <1>11 DEF RemoveReleased, StopAndRemove, NoteYank
<1>12. ASSUME NEW c \in Caller, NEW b \in BOOLEAN, AppendRelease(c, b) PROVE DownQuiet'
  BY <1>12 DEF AppendRelease, Idle
<1>13. ASSUME NEW c \in Caller, NEW b \in BOOLEAN, CleanupRemoveReleased(c, b) PROVE
    DownQuiet'
  BY <1>13 DEF CleanupRemoveReleased, StopAndRemove, NoteYank
<1>14. ASSUME NEW c \in Caller, NEW g \in Guard, NEW r \in Run,
    PrepareDispatchCleanup(c, g, r) PROVE DownQuiet'
  BY <1>14 DEF PrepareDispatchCleanup, Kept, IsAbandoned, SweptDisk, Idle, LeasePending,
      Fenced
<1>15. ASSUME NEW c \in Caller, CleanupRefused(c) PROVE DownQuiet'
  BY <1>15 DEF CleanupRefused, FinishDispatchCleanup, Idle
<1>16. ASSUME NEW c \in Caller, CleanupRelease(c) PROVE DownQuiet'
  BY <1>16 DEF CleanupRelease, Idle
<1>17. ASSUME NEW c \in Caller, CleanupProceeds(c) PROVE DownQuiet'
  BY <1>17 DEF CleanupProceeds, Idle
<1>18. ASSUME NEW c \in Caller, CleanupDone(c) PROVE DownQuiet'
  BY <1>18 DEF CleanupDone, FinishDispatchCleanup, Idle
<1>19. ASSUME NEW c \in Caller, CleanupDropped(c) PROVE DownQuiet'
  BY <1>19 DEF CleanupDropped, Idle
<1>20. ASSUME NEW g \in Guard, NEW w \in Worktree, NEW k \in Key, NEW by \in {"pid",
    "lease"}, NEW b \in BOOLEAN,
         NEW x \in {NoRun} \cup {r \in Run : KeyOf[r] = k}, ReserveDispatchClose(g, w,
             k, x, by, b) PROVE DownQuiet'
  BY <1>20 DEF ReserveDispatchClose, Kept, IsAbandoned, SweptDisk, NoBlockingRun,
      PendingIn, LeasePending
<1>21. ASSUME NEW g \in Guard, NEW b \in BOOLEAN, RenewDispatchClose(g, b) PROVE
    DownQuiet'
  BY <1>21 DEF RenewDispatchClose
<1>22. ASSUME NEW g \in Guard, LeaseExpires(g) PROVE DownQuiet'
  BY <1>22 DEF LeaseExpires
<1>23. ASSUME NEW g \in Guard, HolderDone(g) PROVE DownQuiet'
  BY <1>23 DEF HolderDone
<1>24. ASSUME NEW g \in Guard, FinishDispatchClose(g) PROVE DownQuiet'
  BY <1>24 DEF FinishDispatchClose
<1>25. ASSUME NEW g \in Guard, HolderDies(g) PROVE DownQuiet'
  BY <1>25 DEF HolderDies
<1>26. ASSUME CollectCandidates PROVE DownQuiet'
  BY <1>26 DEF CollectCandidates, Candidates
<1>27. ASSUME FinishBootReattach PROVE DownQuiet'
  BY <1>27 DEF FinishBootReattach
<1>28. ASSUME NEW r \in Run, BootReattach(r) PROVE DownQuiet'
  BY <1>28 DEF BootReattach, AdmitLiveRun, Kept, SweptDisk, IsAbandoned, Idle
<1>29. ASSUME NEW r \in Run, BootSkip(r) PROVE DownQuiet'
  BY <1>29 DEF BootSkip
<1>30. ASSUME PauseAcquisition PROVE DownQuiet'
  BY <1>30 DEF PauseAcquisition
<1>31. ASSUME RefusedRequest PROVE DownQuiet'
  BY <1>31 DEF RefusedRequest, Kept, IsAbandoned, SweptDisk
<1>32. ASSUME DaemonBoots PROVE DownQuiet'
  BY <1>32 DEF DaemonBoots, Idle, IsAbandoned
<1>33. ASSUME NEW k \in Key, ReleaseOrphanedLease(k) PROVE DownQuiet'
  BY <1>33 DEF ReleaseOrphanedLease, LeasePending
<1>34. ASSUME NEW survivors \in SUBSET alive, DaemonStops(survivors) PROVE DownQuiet'
  BY <1>34 DEF DaemonStops, Idle, Candidates
<1>35. ASSUME NEW r \in Run, WorkerExits(r) PROVE DownQuiet'
  BY <1>35 DEF WorkerExits, Idle
<1>36. CASE UNCHANGED vars BY <1>36 DEF vars
<1> HIDE DEF IndInv, CallsNamed, DownQuiet, Candidates, Coming, TypeOK, CallRec, Ops,
    PendingOps, ReleaseOps, CleanupOps
<1> QED BY <1>1, <1>2, <1>3, <1>4, <1>5, <1>6, <1>7, <1>8, <1>9, <1>10, <1>11, <1>12,
    <1>13, <1>14, <1>15, <1>16, <1>17, <1>18, <1>19, <1>20, <1>21, <1>22, <1>23, <1>24,
    <1>25, <1>26, <1>27, <1>28, <1>29, <1>30, <1>31, <1>32, <1>33, <1>34, <1>35, <1>36
    DEF Next, CallerNext, HolderNext, BootNext, DaemonNext

(* What an action has to show to preserve GateSound. *)
LEMMA GateFrame ==
  ASSUME GateSound, up' => up,
         \A q \in Run : (Tracked(q) => Tracked(q)') /\ (Owed(q) => Tracked(q)' \/ Owed(q)'),
         \A d \in Caller, q \in Run :
             call'[d].op = "removed" /\ call'[d].run = q =>
                 Tracked(q)' \/ (call[d].op = "removed" /\ call[d].run = q)
  PROVE GateSound'
  BY DEF GateSound, Tracked, Occupies, Coming, Owed, Candidates

(* No step loses sight of a worker without the scan still owing it a visit. *)
LEMMA GateStep ==
  ASSUME IndInv, [Next]_vars PROVE GateSound'
<1> USE RunAssumption DEF IndInv, CallsNamed, GateOpen, DownQuiet, TypeOK, CallRec, Ops,
    PendingOps, ReleaseOps, CleanupOps
<1>1. ASSUME NEW c \in Caller, NEW r \in Run, Acquire(c, r) PROVE GateSound'
  <2>1. \A q \in Run : Tracked(q) => Tracked(q)'
    BY <1>1 DEF Acquire, AdmitLiveRun, Idle, Tracked, Occupies, Coming
  <2>2. \A q \in Run : Owed(q) => Tracked(q)' \/ Owed(q)'
    BY <1>1 DEF Acquire, AdmitLiveRun, Idle, Owed, Candidates
  <2>3. \A d \in Caller, q \in Run : call'[d].op = "removed" /\ call'[d].run = q =>
            Tracked(q)' \/ (call[d].op = "removed" /\ call[d].run = q)
    BY <1>1 DEF Acquire, AdmitLiveRun, Idle
  <2> QED BY <1>1, <2>1, <2>2, <2>3, GateFrame DEF Acquire
<1>2. ASSUME NEW c \in Caller, NEW r \in Run, Reattach(c, r) PROVE GateSound'
  <2>1. \A q \in Run : Tracked(q) => Tracked(q)'
    BY <1>2 DEF Reattach, AdmitLiveRun, Idle, Tracked, Occupies, Coming
  <2>2. \A q \in Run : Owed(q) => Tracked(q)' \/ Owed(q)'
    BY <1>2 DEF Reattach, AdmitLiveRun, Idle, Owed, Candidates
  <2>3. \A d \in Caller, q \in Run : call'[d].op = "removed" /\ call'[d].run = q =>
            Tracked(q)' \/ (call[d].op = "removed" /\ call[d].run = q)
    BY <1>2 DEF Reattach, AdmitLiveRun, Idle
  <2> QED BY <1>2, <2>1, <2>2, <2>3, GateFrame DEF Reattach
<1>3. ASSUME NEW c \in Caller, NEW r \in Run, Release(c, r) PROVE GateSound'
  <2>1. \A q \in Run : Tracked(q) => Tracked(q)'
    BY <1>3 DEF Release, Idle, Tracked, Occupies, Coming
  <2>2. \A q \in Run : Owed(q) => Tracked(q)' \/ Owed(q)'
    BY <1>3 DEF Release, Idle, Owed, Candidates
  <2>3. \A d \in Caller, q \in Run : call'[d].op = "removed" /\ call'[d].run = q =>
            Tracked(q)' \/ (call[d].op = "removed" /\ call[d].run = q)
    BY <1>3 DEF Release, Idle
  <2> QED BY <1>3, <2>1, <2>2, <2>3, GateFrame DEF Release
<1>4. ASSUME NEW c \in Caller, DriverAcquire(c) PROVE GateSound'
  <2>1. \A q \in Run : Tracked(q) => Tracked(q)'
    BY <1>4 DEF DriverAcquire, Tracked, Occupies, Coming
  <2>2. \A q \in Run : Owed(q) => Tracked(q)' \/ Owed(q)'
    BY <1>4 DEF DriverAcquire, Owed, Candidates
  <2>3. \A d \in Caller, q \in Run : call'[d].op = "removed" /\ call'[d].run = q =>
            Tracked(q)' \/ (call[d].op = "removed" /\ call[d].run = q)
    BY <1>4 DEF DriverAcquire
  <2> QED BY <1>4, <2>1, <2>2, <2>3, GateFrame DEF DriverAcquire
<1>5. ASSUME NEW c \in Caller, LogAcquire(c) PROVE GateSound'
  <2>1. \A q \in Run : Tracked(q) => Tracked(q)'
    BY <1>5 DEF LogAcquire, Tracked, Occupies, Coming
  <2>2. \A q \in Run : Owed(q) => Tracked(q)' \/ Owed(q)'
    BY <1>5 DEF LogAcquire, Owed, Candidates
  <2>3. \A d \in Caller, q \in Run : call'[d].op = "removed" /\ call'[d].run = q =>
            Tracked(q)' \/ (call[d].op = "removed" /\ call[d].run = q)
    BY <1>5 DEF LogAcquire
  <2> QED BY <1>5, <2>1, <2>2, <2>3, GateFrame DEF LogAcquire
<1>6. ASSUME NEW c \in Caller, DriverAttach(c) PROVE GateSound'
  <2>1. \A q \in Run : Tracked(q) => Tracked(q)'
    BY <1>6 DEF DriverAttach, Tracked, Occupies, Coming
  <2>2. \A q \in Run : Owed(q) => Tracked(q)' \/ Owed(q)'
    BY <1>6 DEF DriverAttach, Owed, Candidates
  <2>3. \A d \in Caller, q \in Run : call'[d].op = "removed" /\ call'[d].run = q =>
            Tracked(q)' \/ (call[d].op = "removed" /\ call[d].run = q)
    BY <1>6 DEF DriverAttach
  <2> QED BY <1>6, <2>1, <2>2, <2>3, GateFrame DEF DriverAttach
<1>7. ASSUME NEW c \in Caller, InsertRecord(c) PROVE GateSound'
  <2>1. \A q \in Run : Tracked(q) => Tracked(q)'
    BY <1>7 DEF InsertRecord, Idle, Tracked, Occupies, Coming
  <2>2. \A q \in Run : Owed(q) => Tracked(q)' \/ Owed(q)'
    BY <1>7 DEF InsertRecord, Idle, Owed, Candidates
  <2>3. \A d \in Caller, q \in Run : call'[d].op = "removed" /\ call'[d].run = q =>
            Tracked(q)' \/ (call[d].op = "removed" /\ call[d].run = q)
    BY <1>7 DEF InsertRecord, Idle
  <2> QED BY <1>7, <2>1, <2>2, <2>3, GateFrame DEF InsertRecord
<1>8. ASSUME NEW c \in Caller, CallFails(c) PROVE GateSound'
  <2>1. \A q \in Run : Tracked(q) => Tracked(q)'
    BY <1>8 DEF CallFails, Tracked, Occupies, Coming
  <2>2. \A q \in Run : Owed(q) => Tracked(q)' \/ Owed(q)'
    BY <1>8 DEF CallFails, Owed, Candidates
  <2>3. \A d \in Caller, q \in Run : call'[d].op = "removed" /\ call'[d].run = q =>
            Tracked(q)' \/ (call[d].op = "removed" /\ call[d].run = q)
    BY <1>8 DEF CallFails
  <2> QED BY <1>8, <2>1, <2>2, <2>3, GateFrame DEF CallFails
<1>9. ASSUME NEW c \in Caller, DropLease(c) PROVE GateSound'
  <2>1. \A q \in Run : Tracked(q) => Tracked(q)'
    BY <1>9 DEF DropLease, Idle, Tracked, Occupies, Coming
  <2>2. \A q \in Run : Owed(q) => Tracked(q)' \/ Owed(q)'
    BY <1>9 DEF DropLease, Idle, Owed, Candidates
  <2>3. \A d \in Caller, q \in Run : call'[d].op = "removed" /\ call'[d].run = q =>
            Tracked(q)' \/ (call[d].op = "removed" /\ call[d].run = q)
    BY <1>9 DEF DropLease, Idle
  <2> QED BY <1>9, <2>1, <2>2, <2>3, GateFrame DEF DropLease
<1>10. ASSUME NEW c \in Caller, ReleaseAborted(c) PROVE GateSound'
  <2>1. \A q \in Run : Tracked(q) => Tracked(q)'
    BY <1>10 DEF ReleaseAborted, Idle, Tracked, Occupies, Coming
  <2>2. \A q \in Run : Owed(q) => Tracked(q)' \/ Owed(q)'
    BY <1>10 DEF ReleaseAborted, Idle, Owed, Candidates
  <2>3. \A d \in Caller, q \in Run : call'[d].op = "removed" /\ call'[d].run = q =>
            Tracked(q)' \/ (call[d].op = "removed" /\ call[d].run = q)
    BY <1>10 DEF ReleaseAborted, Idle
  <2> QED BY <1>10, <2>1, <2>2, <2>3, GateFrame DEF ReleaseAborted
<1>11. ASSUME NEW c \in Caller, NEW b \in BOOLEAN, RemoveReleased(c, b) PROVE GateSound'
  <2>1. \A q \in Run : Tracked(q) => Tracked(q)'
    BY <1>11 DEF RemoveReleased, StopAndRemove, Tracked, Occupies, Coming
  <2>2. \A q \in Run : Owed(q) => Tracked(q)' \/ Owed(q)'
    BY <1>11 DEF RemoveReleased, StopAndRemove, Owed, Candidates
  <2>3. \A d \in Caller, q \in Run : call'[d].op = "removed" /\ call'[d].run = q =>
            Tracked(q)' \/ (call[d].op = "removed" /\ call[d].run = q)
    BY <1>11 DEF RemoveReleased, StopAndRemove, Tracked
  <2> QED BY <1>11, <2>1, <2>2, <2>3, GateFrame DEF RemoveReleased
<1>12. ASSUME NEW c \in Caller, NEW b \in BOOLEAN, AppendRelease(c, b) PROVE GateSound'
  <2>1. \A q \in Run : Tracked(q) => Tracked(q)'
    BY <1>12 DEF AppendRelease, Idle, Tracked, Occupies, Coming
  <2>2. \A q \in Run : Owed(q) => Tracked(q)' \/ Owed(q)'
    BY <1>12 DEF AppendRelease, Idle, Owed, Candidates, GateSound, Tracked, Occupies,
        Coming
  <2>3. \A d \in Caller, q \in Run : call'[d].op = "removed" /\ call'[d].run = q =>
            Tracked(q)' \/ (call[d].op = "removed" /\ call[d].run = q)
    BY <1>12 DEF AppendRelease, Idle
  <2> QED BY <1>12, <2>1, <2>2, <2>3, GateFrame DEF AppendRelease
<1>13. ASSUME NEW c \in Caller, NEW b \in BOOLEAN, CleanupRemoveReleased(c, b) PROVE
    GateSound'
  <2>1. \A q \in Run : Tracked(q) => Tracked(q)'
    BY <1>13 DEF CleanupRemoveReleased, StopAndRemove, Tracked, Occupies, Coming
  <2>2. \A q \in Run : Owed(q) => Tracked(q)' \/ Owed(q)'
    BY <1>13 DEF CleanupRemoveReleased, StopAndRemove, Owed, Candidates
  <2>3. \A d \in Caller, q \in Run : call'[d].op = "removed" /\ call'[d].run = q =>
            Tracked(q)' \/ (call[d].op = "removed" /\ call[d].run = q)
    BY <1>13 DEF CleanupRemoveReleased, StopAndRemove
  <2> QED BY <1>13, <2>1, <2>2, <2>3, GateFrame DEF CleanupRemoveReleased
<1>14. ASSUME NEW c \in Caller, NEW g \in Guard, NEW r \in Run,
    PrepareDispatchCleanup(c, g, r) PROVE GateSound'
  <2>1. \A q \in Run : Tracked(q) => Tracked(q)'
    BY <1>14 DEF PrepareDispatchCleanup, Idle, Tracked, Occupies, Coming
  <2>2. \A q \in Run : Owed(q) => Tracked(q)' \/ Owed(q)'
    BY <1>14 DEF PrepareDispatchCleanup, Idle, Owed, Candidates
  <2>3. \A d \in Caller, q \in Run : call'[d].op = "removed" /\ call'[d].run = q =>
            Tracked(q)' \/ (call[d].op = "removed" /\ call[d].run = q)
    BY <1>14 DEF PrepareDispatchCleanup, Idle
  <2> QED BY <1>14, <2>1, <2>2, <2>3, GateFrame DEF PrepareDispatchCleanup
<1>15. ASSUME NEW c \in Caller, CleanupRefused(c) PROVE GateSound'
  <2>1. \A q \in Run : Tracked(q) => Tracked(q)'
    BY <1>15 DEF CleanupRefused, FinishDispatchCleanup, Idle, Tracked, Occupies, Coming
  <2>2. \A q \in Run : Owed(q) => Tracked(q)' \/ Owed(q)'
    BY <1>15 DEF CleanupRefused, FinishDispatchCleanup, Idle, Owed, Candidates
  <2>3. \A d \in Caller, q \in Run : call'[d].op = "removed" /\ call'[d].run = q =>
            Tracked(q)' \/ (call[d].op = "removed" /\ call[d].run = q)
    BY <1>15 DEF CleanupRefused, FinishDispatchCleanup, Idle
  <2> QED BY <1>15, <2>1, <2>2, <2>3, GateFrame DEF CleanupRefused
<1>16. ASSUME NEW c \in Caller, CleanupRelease(c) PROVE GateSound'
  <2>1. \A q \in Run : Tracked(q) => Tracked(q)'
    BY <1>16 DEF CleanupRelease, Tracked, Occupies, Coming
  <2>2. \A q \in Run : Owed(q) => Tracked(q)' \/ Owed(q)'
    BY <1>16 DEF CleanupRelease, Owed, Candidates
  <2>3. \A d \in Caller, q \in Run : call'[d].op = "removed" /\ call'[d].run = q =>
            Tracked(q)' \/ (call[d].op = "removed" /\ call[d].run = q)
    BY <1>16 DEF CleanupRelease
  <2> QED BY <1>16, <2>1, <2>2, <2>3, GateFrame DEF CleanupRelease
<1>17. ASSUME NEW c \in Caller, CleanupProceeds(c) PROVE GateSound'
  <2>1. \A q \in Run : Tracked(q) => Tracked(q)'
    BY <1>17 DEF CleanupProceeds, Tracked, Occupies, Coming
  <2>2. \A q \in Run : Owed(q) => Tracked(q)' \/ Owed(q)'
    BY <1>17 DEF CleanupProceeds, Owed, Candidates
  <2>3. \A d \in Caller, q \in Run : call'[d].op = "removed" /\ call'[d].run = q =>
            Tracked(q)' \/ (call[d].op = "removed" /\ call[d].run = q)
    BY <1>17 DEF CleanupProceeds
  <2> QED BY <1>17, <2>1, <2>2, <2>3, GateFrame DEF CleanupProceeds
<1>18. ASSUME NEW c \in Caller, CleanupDone(c) PROVE GateSound'
  <2>1. \A q \in Run : Tracked(q) => Tracked(q)'
    BY <1>18 DEF CleanupDone, FinishDispatchCleanup, Idle, Tracked, Occupies, Coming
  <2>2. \A q \in Run : Owed(q) => Tracked(q)' \/ Owed(q)'
    BY <1>18 DEF CleanupDone, FinishDispatchCleanup, Idle, Owed, Candidates
  <2>3. \A d \in Caller, q \in Run : call'[d].op = "removed" /\ call'[d].run = q =>
            Tracked(q)' \/ (call[d].op = "removed" /\ call[d].run = q)
    BY <1>18 DEF CleanupDone, FinishDispatchCleanup, Idle
  <2> QED BY <1>18, <2>1, <2>2, <2>3, GateFrame DEF CleanupDone
<1>19. ASSUME NEW c \in Caller, CleanupDropped(c) PROVE GateSound'
  <2>1. \A q \in Run : Tracked(q) => Tracked(q)'
    BY <1>19 DEF CleanupDropped, Idle, Tracked, Occupies, Coming
  <2>2. \A q \in Run : Owed(q) => Tracked(q)' \/ Owed(q)'
    BY <1>19 DEF CleanupDropped, Idle, Owed, Candidates
  <2>3. \A d \in Caller, q \in Run : call'[d].op = "removed" /\ call'[d].run = q =>
            Tracked(q)' \/ (call[d].op = "removed" /\ call[d].run = q)
    BY <1>19 DEF CleanupDropped, Idle
  <2> QED BY <1>19, <2>1, <2>2, <2>3, GateFrame DEF CleanupDropped
<1>20. ASSUME NEW g \in Guard, NEW w \in Worktree, NEW k \in Key, NEW by \in {"pid",
    "lease"}, NEW b \in BOOLEAN,
         NEW x \in {NoRun} \cup {r \in Run : KeyOf[r] = k}, ReserveDispatchClose(g, w,
             k, x, by, b) PROVE GateSound'
  BY <1>20 DEF ReserveDispatchClose, GateSound, Tracked, Occupies, Coming, Owed,
      Candidates
<1>21. ASSUME NEW g \in Guard, NEW b \in BOOLEAN, RenewDispatchClose(g, b) PROVE
    GateSound'
  BY <1>21 DEF RenewDispatchClose, GateSound, Tracked, Occupies, Coming, Owed,
      Candidates
<1>22. ASSUME NEW g \in Guard, LeaseExpires(g) PROVE GateSound'
  BY <1>22 DEF LeaseExpires, GateSound, Tracked, Occupies, Coming, Owed, Candidates
<1>23. ASSUME NEW g \in Guard, HolderDone(g) PROVE GateSound'
  BY <1>23 DEF HolderDone, GateSound, Tracked, Occupies, Coming, Owed, Candidates
<1>24. ASSUME NEW g \in Guard, FinishDispatchClose(g) PROVE GateSound'
  BY <1>24 DEF FinishDispatchClose, GateSound, Tracked, Occupies, Coming, Owed,
      Candidates
<1>25. ASSUME NEW g \in Guard, HolderDies(g) PROVE GateSound'
  BY <1>25 DEF HolderDies, GateSound, Tracked, Occupies, Coming, Owed, Candidates
<1>26. ASSUME CollectCandidates PROVE GateSound'
  <2>1. \A q \in Run : Tracked(q) => Tracked(q)'
    BY <1>26 DEF CollectCandidates, Tracked, Occupies, Coming
  <2>2. \A q \in Run : Owed(q) => Tracked(q)' \/ Owed(q)'
    BY <1>26 DEF CollectCandidates, Owed, Candidates
  <2>3. \A d \in Caller, q \in Run : call'[d].op = "removed" /\ call'[d].run = q =>
            Tracked(q)' \/ (call[d].op = "removed" /\ call[d].run = q)
    BY <1>26 DEF CollectCandidates
  <2> QED BY <1>26, <2>1, <2>2, <2>3, GateFrame DEF CollectCandidates
<1>27. ASSUME FinishBootReattach PROVE GateSound'
  BY <1>27 DEF FinishBootReattach, GateSound, Tracked, Occupies, Coming, Owed,
      Candidates
<1>28. ASSUME NEW r \in Run, BootReattach(r) PROVE GateSound'
  <2>1. \A q \in Run : Tracked(q) => Tracked(q)'
    BY <1>28, CallerAssumption DEF BootReattach, AdmitLiveRun, Idle, Tracked, Occupies,
        Coming
  <2>2. \A q \in Run : Owed(q) => Tracked(q)' \/ Owed(q)'
    BY <1>28, CallerAssumption DEF BootReattach, AdmitLiveRun, Idle, Owed, Candidates,
        Tracked, Occupies, Coming
  <2>3. \A d \in Caller, q \in Run : call'[d].op = "removed" /\ call'[d].run = q =>
            Tracked(q)' \/ (call[d].op = "removed" /\ call[d].run = q)
    BY <1>28, CallerAssumption DEF BootReattach, AdmitLiveRun, Idle
  <2> QED BY <1>28, <2>1, <2>2, <2>3, GateFrame DEF BootReattach
<1>29. ASSUME NEW r \in Run, BootSkip(r) PROVE GateSound'
  <2>1. \A q \in Run : Tracked(q) => Tracked(q)'
    BY <1>29, CallerAssumption DEF BootSkip, Tracked, Occupies, Coming
  <2>2. \A q \in Run : Owed(q) => Tracked(q)' \/ Owed(q)'
    BY <1>29, CallerAssumption DEF BootSkip, Owed, Candidates, Tracked, Occupies, Coming
  <2>3. \A d \in Caller, q \in Run : call'[d].op = "removed" /\ call'[d].run = q =>
            Tracked(q)' \/ (call[d].op = "removed" /\ call[d].run = q)
    BY <1>29, CallerAssumption DEF BootSkip
  <2> QED BY <1>29, <2>1, <2>2, <2>3, GateFrame DEF BootSkip
<1>30. ASSUME PauseAcquisition PROVE GateSound'
  BY <1>30 DEF PauseAcquisition, GateSound, Tracked, Occupies, Coming, Owed, Candidates
<1>31. ASSUME RefusedRequest PROVE GateSound'
  BY <1>31 DEF RefusedRequest, GateSound, Tracked, Occupies, Coming, Owed, Candidates
<1>32. ASSUME DaemonBoots PROVE GateSound'
  BY <1>32 DEF DaemonBoots, GateSound, Tracked, Owed, Candidates, Idle
<1>33. ASSUME NEW k \in Key, ReleaseOrphanedLease(k) PROVE GateSound'
  BY <1>33 DEF ReleaseOrphanedLease, GateSound, Tracked, Occupies, Coming, Owed,
      Candidates
<1>34. ASSUME NEW survivors \in SUBSET alive, DaemonStops(survivors) PROVE GateSound'
  BY <1>34 DEF DaemonStops, GateSound, Idle
<1>35. ASSUME NEW r \in Run, WorkerExits(r) PROVE GateSound'
  BY <1>35 DEF WorkerExits, GateSound, Tracked, Occupies, Coming, Owed, Candidates
<1>36. CASE UNCHANGED vars BY <1>36 DEF vars, GateSound, Tracked, Occupies, Coming,
    Owed, Candidates
<1> HIDE DEF IndInv, CallsNamed, GateOpen, DownQuiet, TypeOK, CallRec, Ops, PendingOps,
    ReleaseOps, CleanupOps
<1> QED BY <1>1, <1>2, <1>3, <1>4, <1>5, <1>6, <1>7, <1>8, <1>9, <1>10, <1>11, <1>12,
    <1>13, <1>14, <1>15, <1>16, <1>17, <1>18, <1>19, <1>20, <1>21, <1>22, <1>23, <1>24,
    <1>25, <1>26, <1>27, <1>28, <1>29, <1>30, <1>31, <1>32, <1>33, <1>34, <1>35, <1>36
    DEF Next, CallerNext, HolderNext, BootNext, DaemonNext

(* The fence: admission refuses the reserved worktree, and a reservation is
   granted only over a complete run map that shows nobody in it. *)
LEMMA FenceStep ==
  ASSUME IndInv, [Next]_vars PROVE FenceExcludes'
<1> USE RunAssumption DEF IndInv, CallsNamed, LeaseHeldByOccupant, DownQuiet, GateOpen,
    GateSound, Occupies, FenceExcludes,
    GuardsHeld, Tracked, Owed, Candidates, FenceAdmits, Fenced, TypeOK, CallRec, Ops, PendingOps, ReleaseOps, CleanupOps, Coming
<1>1. ASSUME NEW c \in Caller, NEW r \in Run, Acquire(c, r) PROVE FenceExcludes'
  BY <1>1 DEF Acquire, AdmitLiveRun, Kept, SweptDisk, IsAbandoned, Idle
<1>2. ASSUME NEW c \in Caller, NEW r \in Run, Reattach(c, r) PROVE FenceExcludes'
  BY <1>2 DEF Reattach, AdmitLiveRun, Kept, SweptDisk, IsAbandoned, Idle
<1>3. ASSUME NEW c \in Caller, NEW r \in Run, Release(c, r) PROVE FenceExcludes'
  BY <1>3 DEF Release, Idle
<1>4. ASSUME NEW c \in Caller, DriverAcquire(c) PROVE FenceExcludes'
  BY <1>4 DEF DriverAcquire, Idle
<1>5. ASSUME NEW c \in Caller, LogAcquire(c) PROVE FenceExcludes'
  BY <1>5 DEF LogAcquire, Idle
<1>6. ASSUME NEW c \in Caller, DriverAttach(c) PROVE FenceExcludes'
  BY <1>6 DEF DriverAttach, Idle
<1>7. ASSUME NEW c \in Caller, InsertRecord(c) PROVE FenceExcludes'
  BY <1>7 DEF InsertRecord, Idle
<1>8. ASSUME NEW c \in Caller, CallFails(c) PROVE FenceExcludes'
  BY <1>8 DEF CallFails, Idle
<1>9. ASSUME NEW c \in Caller, DropLease(c) PROVE FenceExcludes'
  BY <1>9 DEF DropLease, NoteYank, Idle
<1>10. ASSUME NEW c \in Caller, ReleaseAborted(c) PROVE FenceExcludes'
  BY <1>10 DEF ReleaseAborted, Idle
<1>11. ASSUME NEW c \in Caller, NEW b \in BOOLEAN, RemoveReleased(c, b) PROVE
    FenceExcludes'
  BY <1>11 DEF RemoveReleased, StopAndRemove, NoteYank
<1>12. ASSUME NEW c \in Caller, NEW b \in BOOLEAN, AppendRelease(c, b) PROVE
    FenceExcludes'
  BY <1>12 DEF AppendRelease, Idle
<1>13. ASSUME NEW c \in Caller, NEW b \in BOOLEAN, CleanupRemoveReleased(c, b) PROVE
    FenceExcludes'
  BY <1>13 DEF CleanupRemoveReleased, StopAndRemove, NoteYank
<1>14. ASSUME NEW c \in Caller, NEW g \in Guard, NEW r \in Run,
    PrepareDispatchCleanup(c, g, r) PROVE FenceExcludes'
  BY <1>14 DEF PrepareDispatchCleanup, Kept, IsAbandoned, SweptDisk, Idle, LeasePending,
      Fenced
<1>15. ASSUME NEW c \in Caller, CleanupRefused(c) PROVE FenceExcludes'
  BY <1>15 DEF CleanupRefused, FinishDispatchCleanup, Idle
<1>16. ASSUME NEW c \in Caller, CleanupRelease(c) PROVE FenceExcludes'
  BY <1>16 DEF CleanupRelease, Idle
<1>17. ASSUME NEW c \in Caller, CleanupProceeds(c) PROVE FenceExcludes'
  BY <1>17 DEF CleanupProceeds, Idle
<1>18. ASSUME NEW c \in Caller, CleanupDone(c) PROVE FenceExcludes'
  BY <1>18 DEF CleanupDone, FinishDispatchCleanup, Idle
<1>19. ASSUME NEW c \in Caller, CleanupDropped(c) PROVE FenceExcludes'
  BY <1>19 DEF CleanupDropped, Idle
<1>20. ASSUME NEW g \in Guard, NEW w \in Worktree, NEW k \in Key, NEW by \in {"pid",
    "lease"}, NEW b \in BOOLEAN,
         NEW x \in {NoRun} \cup {r \in Run : KeyOf[r] = k}, ReserveDispatchClose(g, w,
             k, x, by, b) PROVE FenceExcludes'
  BY <1>20 DEF ReserveDispatchClose, Kept, IsAbandoned, SweptDisk, NoBlockingRun,
      PendingIn, LeasePending
<1>21. ASSUME NEW g \in Guard, NEW b \in BOOLEAN, RenewDispatchClose(g, b) PROVE
    FenceExcludes'
  BY <1>21 DEF RenewDispatchClose
<1>22. ASSUME NEW g \in Guard, LeaseExpires(g) PROVE FenceExcludes'
  BY <1>22 DEF LeaseExpires
<1>23. ASSUME NEW g \in Guard, HolderDone(g) PROVE FenceExcludes'
  BY <1>23 DEF HolderDone
<1>24. ASSUME NEW g \in Guard, FinishDispatchClose(g) PROVE FenceExcludes'
  BY <1>24 DEF FinishDispatchClose
<1>25. ASSUME NEW g \in Guard, HolderDies(g) PROVE FenceExcludes'
  BY <1>25 DEF HolderDies
<1>26. ASSUME CollectCandidates PROVE FenceExcludes'
  BY <1>26 DEF CollectCandidates, Candidates
<1>27. ASSUME FinishBootReattach PROVE FenceExcludes'
  BY <1>27 DEF FinishBootReattach
<1>28. ASSUME NEW r \in Run, BootReattach(r) PROVE FenceExcludes'
  BY <1>28 DEF BootReattach, AdmitLiveRun, Kept, SweptDisk, IsAbandoned, Idle
<1>29. ASSUME NEW r \in Run, BootSkip(r) PROVE FenceExcludes'
  BY <1>29 DEF BootSkip
<1>30. ASSUME PauseAcquisition PROVE FenceExcludes'
  BY <1>30 DEF PauseAcquisition
<1>31. ASSUME RefusedRequest PROVE FenceExcludes'
  BY <1>31 DEF RefusedRequest, Kept, IsAbandoned, SweptDisk
<1>32. ASSUME DaemonBoots PROVE FenceExcludes'
  BY <1>32 DEF DaemonBoots, Idle, IsAbandoned
<1>33. ASSUME NEW k \in Key, ReleaseOrphanedLease(k) PROVE FenceExcludes'
  BY <1>33 DEF ReleaseOrphanedLease, LeasePending
<1>34. ASSUME NEW survivors \in SUBSET alive, DaemonStops(survivors) PROVE
    FenceExcludes'
  BY <1>34 DEF DaemonStops, Idle, Candidates
<1>35. ASSUME NEW r \in Run, WorkerExits(r) PROVE FenceExcludes'
  BY <1>35 DEF WorkerExits, Idle
<1>36. CASE UNCHANGED vars BY <1>36 DEF vars
<1> HIDE DEF IndInv, CallsNamed, LeaseHeldByOccupant, DownQuiet, GateOpen, GateSound,
    Occupies, FenceExcludes,
    GuardsHeld, Tracked, Owed, Candidates, FenceAdmits, Fenced, TypeOK, CallRec, Ops, PendingOps, ReleaseOps, CleanupOps, Coming
<1> QED BY <1>1, <1>2, <1>3, <1>4, <1>5, <1>6, <1>7, <1>8, <1>9, <1>10, <1>11, <1>12,
    <1>13, <1>14, <1>15, <1>16, <1>17, <1>18, <1>19, <1>20, <1>21, <1>22, <1>23, <1>24,
    <1>25, <1>26, <1>27, <1>28, <1>29, <1>30, <1>31, <1>32, <1>33, <1>34, <1>35, <1>36
    DEF Next, CallerNext, HolderNext, BootNext, DaemonNext

(* The invariant is inductive, so it holds of every reachable state. *)
THEOREM Invariance == Spec => []IndInv
<1>1. IndInv /\ [Next]_vars => IndInv'
  <2> SUFFICES ASSUME IndInv, [Next]_vars PROVE IndInv'
    OBVIOUS
  <2>1. TypeOK /\ CallsNamed
    BY DEF IndInv
  <2>2. TypeOK' /\ CallsNamed' /\ LeaseHeldByOccupant' /\ CleanupFence'
    BY <2>1, TypeStep, CallsStep, LeaseStep, CleanupStep
  <2>3. GuardsHeld' /\ GateOpen' /\ DownQuiet' /\ GateSound' /\ FenceExcludes'
    BY GuardsStep, OpenStep, DownStep, GateStep, FenceStep
  <2> QED BY <2>2, <2>3 DEF IndInv
<1> QED BY <1>1, IndInvInit, PTL DEF Spec

(* TypeOK holds in every reachable state of the admission code. *)
THEOREM TypeCorrect == Spec => []TypeOK
<1>1. IndInv => TypeOK
  BY DEF IndInv
<1> QED BY <1>1, Invariance, PTL

(* Leases are exclusive: admit_live_run and the lease bookkeeping of acquire,
   reattach, release and their failures never let two runs of one key be
   recorded or on their way in, unless a lease of that key was removed from
   under a pending admission. *)
THEOREM LeaseExclusion == Spec => []LeaseExclusive
<1>1. IndInv => LeaseExclusive
  BY DEF IndInv, LeaseHeldByOccupant, LeaseExclusive
<1> QED BY <1>1, Invariance, PTL

(* The close guard's fence: reserve_dispatch_close, admit_live_run, the sweep,
   CloseGuardStore and the boot gate together keep every other run out of a
   worktree that a guard's holder is deleting, across daemon replacement. *)
THEOREM Fence == Spec => []FenceExcludes
<1>1. IndInv => FenceExcludes
  BY DEF IndInv
<1> QED BY <1>1, Invariance, PTL

(* prepare_dispatch_cleanup's fence: while the daemon deletes a worktree no
   other attempt of that task is recorded in it or on its way into it. *)
THEOREM CleanupIsQuiet == Spec => []CleanupQuiet
<1>1. IndInv => CleanupQuiet
  BY DEF IndInv, CleanupFence, CleanupQuiet, CleanupOps
<1> QED BY <1>1, Invariance, PTL

=============================================================================
