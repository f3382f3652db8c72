-------------------------- MODULE CacheScan_proofs --------------------------
(***************************************************************************)
(* Theorems about CacheScan, for any number of threads and fingerprints    *)
(* and any bounds.  What a Check says of a pair is right, and the cache    *)
(* keeps every promise of ClipCache while the scanner reads beside the     *)
(* threads and takes their locks.                                          *)
(*                                                                         *)
(* The invariant is Core of ClipCache_proofs, with the scanner among the   *)
(* owners of locks, and what the scanner may rely on where it is.          *)
(***************************************************************************)
EXTENDS CacheScan, ClipCache_proofs

Owners == Threads \cup {NoThread, Scanner}
LockedPcs == {"lockedJson", "lockedSt", "unlock"}
Verdicts == {"none", "missing_json", "missing_safetensors", "generation_mismatch", "busy", "ok"}

ScanTypes ==
    /\ scanPc \in {"idle", "pick", "peekJson", "peekSt", "tryLock"} \cup LockedPcs
    /\ listed \subseteq Fps /\ at \in Fps
    /\ peeked \in Nat /\ entrySeen \in Nat
    /\ verdict \in [Fps -> Verdicts]
    /\ scansLeft \in Nat

\* A generation that is being saved is newer than the skeleton it will replace.
Fresh ==
    \A t \in Threads : pc[t] \in {"writeTmpJson", "publishSt"} => json[fp[t]] < gen[t]

\* Under its lock the scanner has read what is on disk, and judges that.
Held ==
    /\ scanPc \in LockedPcs => fpLock[at] = Scanner
    /\ scanPc = "lockedSt" =>
          peeked = json[at] /\ peeked # Absent /\ entrySeen = Entry(at)
    /\ (scanPc = "unlock" /\ verdict[at] = "generation_mismatch") =>
          json[at] # Absent /\ st[at] # json[at]

\* Without a lock, tensors it will find to be of the generation it has read are
\* those it would have found then: no save publishes that generation any more.
Peeked ==
    scanPc = "peekSt" =>
        /\ peeked # Absent /\ peeked <= drawn[at]
        /\ st[at] = peeked => entrySeen = peeked
        /\ \A t \in Threads :
              (pc[t] \in {"writeTmpJson", "publishSt"} /\ fp[t] = at) => gen[t] # peeked

\* Each listed pair is judged once, and again only when it has a problem.
Judged ==
    /\ scanPc = "idle" => listed = {}
    /\ \A f \in listed : verdict[f] = "none"
    /\ scanPc \notin {"idle", "pick"} => at \notin listed
    /\ scanPc \in {"peekJson", "peekSt"} => verdict[at] = "none"
    /\ scanPc \in {"tryLock", "lockedJson", "lockedSt"} => verdict[at] # "ok"
    /\ scanPc = "unlock" => verdict[at] \in {"missing_json", "generation_mismatch", "ok"}
    /\ verdict[at] = "ok" => entrySeen = peeked /\ peeked # Absent

ScanInv == Core(Owners) /\ Fresh /\ ScanTypes /\ Held /\ Peeked /\ Judged

\* The steps of ClipCache but the restart, which takes the scanner with it.
ThreadStep == (\E t \in Threads : Step(t) \/ Request(t)) \/ Rest

-----------------------------------------------------------------------------
(* The steps of the threads.                                               *)

\* A fresh generation is newer than what is published, until it is.
LEMMA FreshStep ==
    ASSUME NEW owners, Types(owners), Locks, Files, Fresh, [Next]_vars
    PROVE  Fresh'
<1> USE DEF Fresh, Locks, Files, SkeletonNeverAlone, vars, disk, locks, encoders,
        request, reads, budget, GoTo, Fault, Outcome, Pcs, HoldingPcs, LookupPcs,
        EncoderPcs, SavePcs, GcPcs, Types, Absent, Miss
  (* The lock of the fingerprint. *)
<1>1. ASSUME NEW t \in Threads, LockFp(t) PROVE Fresh'
  BY <1>1 DEF LockFp
<1>2. ASSUME NEW t \in Threads, LockTimeout(t) PROVE Fresh'
  BY <1>2 DEF LockTimeout
<1>3. ASSUME NEW t \in Threads, UnlockFp(t) PROVE Fresh'
  BY <1>3 DEF UnlockFp
  (* load_conditioning(). *)
<1>4. ASSUME NEW t \in Threads, Lookup(t) PROVE Fresh'
  BY <1>4 DEF Lookup
<1>5. ASSUME NEW t \in Threads, Heal(t) PROVE Fresh'
  BY <1>5 DEF Heal
<1>6. ASSUME NEW t \in Threads, ReadJson(t) PROVE Fresh'
  BY <1>6 DEF ReadJson
<1>7. ASSUME NEW t \in Threads, ReadHeader(t) PROVE Fresh'
  BY <1>7 DEF ReadHeader
<1>8. ASSUME NEW t \in Threads, LoadFile(t) PROVE Fresh'
  BY <1>8 DEF LoadFile
<1>9. ASSUME NEW t \in Threads, ReadError(t) PROVE Fresh'
  BY <1>9 DEF ReadError
<1>10. ASSUME NEW t \in Threads, ValidateHit(t) PROVE Fresh'
  BY <1>10 DEF ValidateHit
  (* The encoder. *)
<1>11. ASSUME NEW t \in Threads, LockEnc(t) PROVE Fresh'
  BY <1>11 DEF LockEnc
<1>12. ASSUME NEW t \in Threads, LoadClip(t) PROVE Fresh'
  BY <1>12 DEF LoadClip
<1>13. ASSUME NEW t \in Threads, Encode(t) PROVE Fresh'
  BY <1>13 DEF Encode
<1>14. ASSUME NEW t \in Threads, Unload(t) PROVE Fresh'
  BY <1>14 DEF Unload
<1>15. ASSUME NEW t \in Threads, UnlockEnc(t) PROVE Fresh'
  BY <1>15 DEF UnlockEnc
<1>16. ASSUME NEW t \in Threads, SafetyNet(t) PROVE Fresh'
  BY <1>16 DEF SafetyNet
  (* save_conditioning(). *)
<1>17. ASSUME NEW t \in Threads, WriteTmp(t) PROVE Fresh'
  BY <1>17 DEF WriteTmp
<1>18. ASSUME NEW t \in Threads, WriteTmpJson(t) PROVE Fresh'
  BY <1>18 DEF WriteTmpJson
<1>19. ASSUME NEW t \in Threads, PublishSt(t) PROVE Fresh'
  BY <1>19 DEF PublishSt
<1>20. ASSUME NEW t \in Threads, PublishJson(t) PROVE Fresh'
  BY <1>20 DEF PublishJson
<1>21. ASSUME NEW t \in Threads, CleanTmp(t) PROVE Fresh'
  BY <1>21 DEF CleanTmp
  (* delete_conditioning(). *)
<1>22. ASSUME NEW t \in Threads, UnlinkJson(t) PROVE Fresh'
  BY <1>22 DEF UnlinkJson
<1>23. ASSUME NEW t \in Threads, UnlinkSt(t) PROVE Fresh'
  BY <1>23 DEF UnlinkSt
  (* gc_orphaned_cache_files(). *)
<1>24. ASSUME NEW t \in Threads, NEW f \in Fps, SweepNext(t, f)
      PROVE  Fresh'
  BY <1>24 DEF SweepNext
<1>25. ASSUME NEW t \in Threads, SweepDone(t) PROVE Fresh'
  BY <1>25 DEF SweepDone
<1>26. ASSUME NEW t \in Threads, GcTry(t) PROVE Fresh'
  BY <1>26 DEF GcTry
<1>27. ASSUME NEW t \in Threads, GcRecheck(t) PROVE Fresh'
  BY <1>27 DEF GcRecheck
<1>28. ASSUME NEW t \in Threads, GcUnlink(t) PROVE Fresh'
  BY <1>28 DEF GcUnlink
<1>29. ASSUME NEW t \in Threads, GcUnlock(t) PROVE Fresh'
  BY <1>29 DEF GcUnlock
  (* Requests, a restart, rest. *)
<1>30. ASSUME NEW t \in Threads, NEW f \in Fps, NEW k \in {"auto", "refresh", "delete"},
             StartOn(t, f, k)
      PROVE  Fresh'
  BY <1>30 DEF StartOn, Start
<1>31. ASSUME NEW t \in Threads, StartCheck(t) PROVE Fresh'
  BY <1>31 DEF StartCheck, Start
<1>32. ASSUME Crash PROVE Fresh'
  BY <1>32 DEF Crash
<1>33. ASSUME Rest \/ UNCHANGED vars PROVE Fresh'
  BY <1>33 DEF Rest
<1> HIDE DEF Fresh
<1> QED
  BY <1>1, <1>2, <1>3, <1>4, <1>5, <1>6, <1>7, <1>8, <1>9, <1>10, <1>11, <1>12,
     <1>13, <1>14, <1>15, <1>16, <1>17, <1>18, <1>19, <1>20, <1>21, <1>22, <1>23,
     <1>24, <1>25, <1>26, <1>27, <1>28, <1>29, <1>30, <1>31, <1>32, <1>33 DEF Next,
     Step, Request

\* While the scanner holds the lock of a pair, no thread touches the pair.
LEMMA HeldStep ==
    ASSUME Types(Owners), Locks, ScanTypes, Held, [ThreadStep]_vars, UNCHANGED scanVars
    PROVE  Held'
<1> USE ScanAssumption, ConstantsAssumption DEF Held, Entry, Locks, ScanTypes, scanVars, Owners,
        vars, disk, locks, encoders,
        request, reads, budget, GoTo, Fault, Outcome, Pcs, HoldingPcs, LookupPcs,
        EncoderPcs, SavePcs, GcPcs, Types, Absent, Miss
  (* The lock of the fingerprint. *)
<1>1. ASSUME NEW t \in Threads, LockFp(t) PROVE Held'
  BY <1>1 DEF LockFp
<1>2. ASSUME NEW t \in Threads, LockTimeout(t) PROVE Held'
  BY <1>2 DEF LockTimeout
<1>3. ASSUME NEW t \in Threads, UnlockFp(t) PROVE Held'
  BY <1>3 DEF UnlockFp
  (* load_conditioning(). *)
<1>4. ASSUME NEW t \in Threads, Lookup(t) PROVE Held'
  BY <1>4 DEF Lookup
<1>5. ASSUME NEW t \in Threads, Heal(t) PROVE Held'
  BY <1>5 DEF Heal
<1>6. ASSUME NEW t \in Threads, ReadJson(t) PROVE Held'
  BY <1>6 DEF ReadJson
<1>7. ASSUME NEW t \in Threads, ReadHeader(t) PROVE Held'
  BY <1>7 DEF ReadHeader
<1>8. ASSUME NEW t \in Threads, LoadFile(t) PROVE Held'
  BY <1>8 DEF LoadFile
<1>9. ASSUME NEW t \in Threads, ReadError(t) PROVE Held'
  BY <1>9 DEF ReadError
<1>10. ASSUME NEW t \in Threads, ValidateHit(t) PROVE Held'
  BY <1>10 DEF ValidateHit
  (* The encoder. *)
<1>11. ASSUME NEW t \in Threads, LockEnc(t) PROVE Held'
  BY <1>11 DEF LockEnc
<1>12. ASSUME NEW t \in Threads, LoadClip(t) PROVE Held'
  BY <1>12 DEF LoadClip
<1>13. ASSUME NEW t \in Threads, Encode(t) PROVE Held'
  BY <1>13 DEF Encode
<1>14. ASSUME NEW t \in Threads, Unload(t) PROVE Held'
  BY <1>14 DEF Unload
<1>15. ASSUME NEW t \in Threads, UnlockEnc(t) PROVE Held'
  BY <1>15 DEF UnlockEnc
<1>16. ASSUME NEW t \in Threads, SafetyNet(t) PROVE Held'
  BY <1>16 DEF SafetyNet
  (* save_conditioning(). *)
<1>17. ASSUME NEW t \in Threads, WriteTmp(t) PROVE Held'
  BY <1>17 DEF WriteTmp
<1>18. ASSUME NEW t \in Threads, WriteTmpJson(t) PROVE Held'
  BY <1>18 DEF WriteTmpJson
<1>19. ASSUME NEW t \in Threads, PublishSt(t) PROVE Held'
  BY <1>19 DEF PublishSt
<1>20. ASSUME NEW t \in Threads, PublishJson(t) PROVE Held'
  BY <1>20 DEF PublishJson
<1>21. ASSUME NEW t \in Threads, CleanTmp(t) PROVE Held'
  BY <1>21 DEF CleanTmp
  (* delete_conditioning(). *)
<1>22. ASSUME NEW t \in Threads, UnlinkJson(t) PROVE Held'
  BY <1>22 DEF UnlinkJson
<1>23. ASSUME NEW t \in Threads, UnlinkSt(t) PROVE Held'
  BY <1>23 DEF UnlinkSt
  (* gc_orphaned_cache_files(). *)
<1>24. ASSUME NEW t \in Threads, NEW f \in Fps, SweepNext(t, f)
      PROVE  Held'
  BY <1>24 DEF SweepNext
<1>25. ASSUME NEW t \in Threads, SweepDone(t) PROVE Held'
  BY <1>25 DEF SweepDone
<1>26. ASSUME NEW t \in Threads, GcTry(t) PROVE Held'
  BY <1>26 DEF GcTry
<1>27. ASSUME NEW t \in Threads, GcRecheck(t) PROVE Held'
  BY <1>27 DEF GcRecheck
<1>28. ASSUME NEW t \in Threads, GcUnlink(t) PROVE Held'
  BY <1>28 DEF GcUnlink
<1>29. ASSUME NEW t \in Threads, GcUnlock(t) PROVE Held'
  BY <1>29 DEF GcUnlock
  (* Requests, rest. *)
<1>30. ASSUME NEW t \in Threads, NEW f \in Fps, NEW k \in {"auto", "refresh", "delete"},
             StartOn(t, f, k)
      PROVE  Held'
  BY <1>30 DEF StartOn, Start
<1>31. ASSUME NEW t \in Threads, StartCheck(t) PROVE Held'
  BY <1>31 DEF StartCheck, Start
<1>32. ASSUME Rest \/ UNCHANGED vars PROVE Held'
  BY <1>32 DEF Rest
<1> HIDE DEF Held
<1> QED
  BY <1>1, <1>2, <1>3, <1>4, <1>5, <1>6, <1>7, <1>8, <1>9, <1>10, <1>11, <1>12,
     <1>13, <1>14, <1>15, <1>16, <1>17, <1>18, <1>19, <1>20, <1>21, <1>22, <1>23,
     <1>24, <1>25, <1>26, <1>27, <1>28, <1>29, <1>30, <1>31, <1>32 DEF ThreadStep,
     Step, Request

\* What the scanner has read without the lock is published no second time.
LEMMA PeekedStep ==
    ASSUME Types(Owners), Locks, Files, Fresh, ScanTypes, Peeked, [ThreadStep]_vars,
           UNCHANGED scanVars
    PROVE  Peeked'
<1> USE DEF Peeked, Entry, Locks, Files, SkeletonNeverAlone, ScanTypes, scanVars, Owners,
        vars, disk, locks, encoders,
        request, reads, budget, GoTo, Fault, Outcome, Pcs, HoldingPcs, LookupPcs,
        EncoderPcs, SavePcs, GcPcs, Types, Absent, Miss
  (* The lock of the fingerprint. *)
<1>1. ASSUME NEW t \in Threads, LockFp(t) PROVE Peeked'
  BY <1>1 DEF LockFp
<1>2. ASSUME NEW t \in Threads, LockTimeout(t) PROVE Peeked'
  BY <1>2 DEF LockTimeout
<1>3. ASSUME NEW t \in Threads, UnlockFp(t) PROVE Peeked'
  BY <1>3 DEF UnlockFp
  (* load_conditioning(). *)
<1>4. ASSUME NEW t \in Threads, Lookup(t) PROVE Peeked'
  BY <1>4 DEF Lookup
<1>5. ASSUME NEW t \in Threads, Heal(t) PROVE Peeked'
  BY <1>5 DEF Heal
<1>6. ASSUME NEW t \in Threads, ReadJson(t) PROVE Peeked'
  BY <1>6 DEF ReadJson
<1>7. ASSUME NEW t \in Threads, ReadHeader(t) PROVE Peeked'
  BY <1>7 DEF ReadHeader
<1>8. ASSUME NEW t \in Threads, LoadFile(t) PROVE Peeked'
  BY <1>8 DEF LoadFile
<1>9. ASSUME NEW t \in Threads, ReadError(t) PROVE Peeked'
  BY <1>9 DEF ReadError
<1>10. ASSUME NEW t \in Threads, ValidateHit(t) PROVE Peeked'
  BY <1>10 DEF ValidateHit
  (* The encoder. *)
<1>11. ASSUME NEW t \in Threads, LockEnc(t) PROVE Peeked'
  BY <1>11 DEF LockEnc
<1>12. ASSUME NEW t \in Threads, LoadClip(t) PROVE Peeked'
  BY <1>12 DEF LoadClip
<1>13. ASSUME NEW t \in Threads, Encode(t) PROVE Peeked'
  BY <1>13 DEF Encode
<1>14. ASSUME NEW t \in Threads, Unload(t) PROVE Peeked'
  BY <1>14 DEF Unload
<1>15. ASSUME NEW t \in Threads, UnlockEnc(t) PROVE Peeked'
  BY <1>15 DEF UnlockEnc
<1>16. ASSUME NEW t \in Threads, SafetyNet(t) PROVE Peeked'
  BY <1>16 DEF SafetyNet
  (* save_conditioning(). *)
<1>17. ASSUME NEW t \in Threads, WriteTmp(t) PROVE Peeked'
  BY <1>17 DEF WriteTmp
<1>18. ASSUME NEW t \in Threads, WriteTmpJson(t) PROVE Peeked'
  BY <1>18 DEF WriteTmpJson
<1>19. ASSUME NEW t \in Threads, PublishSt(t) PROVE Peeked'
  BY <1>19 DEF PublishSt
<1>20. ASSUME NEW t \in Threads, PublishJson(t) PROVE Peeked'
  BY <1>20 DEF PublishJson
<1>21. ASSUME NEW t \in Threads, CleanTmp(t) PROVE Peeked'
  BY <1>21 DEF CleanTmp
  (* delete_conditioning(). *)
<1>22. ASSUME NEW t \in Threads, UnlinkJson(t) PROVE Peeked'
  BY <1>22 DEF UnlinkJson
<1>23. ASSUME NEW t \in Threads, UnlinkSt(t) PROVE Peeked'
  BY <1>23 DEF UnlinkSt
  (* gc_orphaned_cache_files(). *)
<1>24. ASSUME NEW t \in Threads, NEW f \in Fps, SweepNext(t, f)
      PROVE  Peeked'
  BY <1>24 DEF SweepNext
<1>25. ASSUME NEW t \in Threads, SweepDone(t) PROVE Peeked'
  BY <1>25 DEF SweepDone
<1>26. ASSUME NEW t \in Threads, GcTry(t) PROVE Peeked'
  BY <1>26 DEF GcTry
<1>27. ASSUME NEW t \in Threads, GcRecheck(t) PROVE Peeked'
  BY <1>27 DEF GcRecheck
<1>28. ASSUME NEW t \in Threads, GcUnlink(t) PROVE Peeked'
  BY <1>28 DEF GcUnlink
<1>29. ASSUME NEW t \in Threads, GcUnlock(t) PROVE Peeked'
  BY <1>29 DEF GcUnlock
  (* Requests, rest. *)
<1>30. ASSUME NEW t \in Threads, NEW f \in Fps, NEW k \in {"auto", "refresh", "delete"},
             StartOn(t, f, k)
      PROVE  Peeked'
  BY <1>30 DEF StartOn, Start
<1>31. ASSUME NEW t \in Threads, StartCheck(t) PROVE Peeked'
  BY <1>31 DEF StartCheck, Start
<1>32. ASSUME Rest \/ UNCHANGED vars PROVE Peeked'
  BY <1>32 DEF Rest
<1> HIDE DEF Peeked
<1> QED
  BY <1>1, <1>2, <1>3, <1>4, <1>5, <1>6, <1>7, <1>8, <1>9, <1>10, <1>11, <1>12,
     <1>13, <1>14, <1>15, <1>16, <1>17, <1>18, <1>19, <1>20, <1>21, <1>22, <1>23,
     <1>24, <1>25, <1>26, <1>27, <1>28, <1>29, <1>30, <1>31, <1>32 DEF ThreadStep,
     Step, Request

-----------------------------------------------------------------------------
(* The steps of the scanner.                                               *)

\* To the threads, the scanner taking or leaving a lock it owns is nothing.
LEMMA CoreFrame ==
    ASSUME Core(Owners), Fresh, ScanTypes, Held, ScanStep
    PROVE  Core(Owners)' /\ Fresh'
<1>1. UNCHANGED <<disk, encLock, encoders, pc, request, reads, result, todo, budget>>
  BY DEF ScanStep, List, Pick, Report, PeekJson, PeekSt, TryLock, LockedJson, LockedSt,
         Unlock, ReadSkeleton, ReadTensorHeader, vars, locks
<1>2. /\ fpLock' \in [Fps -> Owners]
      /\ \A f \in Fps : fpLock[f] \in Threads => fpLock'[f] = fpLock[f]
  <2> USE ScanAssumption DEF Core, Types, Owners, ScanTypes, Held, LockedPcs
  <2>1. CASE TryLock
    BY <2>1, ConstantsAssumption DEF TryLock
  <2>2. CASE Unlock
    BY <2>2, ConstantsAssumption DEF Unlock
  <2>3. CASE UNCHANGED vars
    BY <2>3 DEF vars, locks
  <2> QED
    BY <2>1, <2>2, <2>3
    DEF ScanStep, List, Pick, Report, PeekJson, PeekSt, LockedJson, LockedSt, ReadSkeleton,
        ReadTensorHeader
<1> USE <1>1 DEF Core, disk, encoders, request, reads, budget
<1>3. Types(Owners)'
  BY <1>2 DEF Types
<1>4. Locks'
  BY <1>2 DEF Types, Locks
<1>5. Kinds' /\ Files' /\ Reads' /\ Fresh'
  BY DEF Kinds, Files, SkeletonNeverAlone, Reads, Fresh
<1>6. HitIsOneEntry' /\ AutoEncodesOnlyMisses' /\ Saves'
  BY DEF HitIsOneEntry, AutoEncodesOnlyMisses, Saves, WrittenIsReadable, Entry
<1>7. Encoders' /\ Wrong' /\ Gens'
  BY DEF Encoders, Wrong, WrongNeverStored, Gens
<1>8. Temps'
  BY DEF Temps, TmpAccounted, TmpOf
<1> QED
  BY <1>3, <1>4, <1>5, <1>6, <1>7, <1>8

\* What the scanner relies on, it has just read.
LEMMA ScannerStep ==
    ASSUME ScanInv, ScanStep
    PROVE  ScanTypes' /\ Held' /\ Peeked' /\ Judged'
<1> USE ConstantsAssumption, ScanAssumption
    DEF ScanInv, Core, Types, ScanTypes, Held, Peeked, Judged, LockedPcs, Verdicts, Entry,
        Absent, vars, disk, locks, encoders, request, reads, budget, ReadSkeleton,
        ReadTensorHeader, Problem
<1>1. CASE List
  BY <1>1 DEF List
<1>2. ASSUME NEW f \in Fps, Pick(f) PROVE ScanTypes' /\ Held' /\ Peeked' /\ Judged'
  BY <1>2 DEF Pick
<1>3. CASE Report
  BY <1>3 DEF Report
<1>4. CASE PeekJson
  BY <1>4 DEF PeekJson, Fresh, Files
<1>5. CASE PeekSt
  BY <1>5 DEF PeekSt
<1>6. CASE TryLock
  BY <1>6 DEF TryLock
<1>7. CASE LockedJson
  BY <1>7 DEF LockedJson
<1>8. CASE LockedSt
  BY <1>8 DEF LockedSt, Files, SkeletonNeverAlone
<1>9. CASE Unlock
  BY <1>9 DEF Unlock
<1> QED
  BY <1>1, <1>2, <1>3, <1>4, <1>5, <1>6, <1>7, <1>8, <1>9 DEF ScanStep

-----------------------------------------------------------------------------
(* Theorems.                                                               *)

\* Every step of the composition is a step of ClipCache, or the scanner's and
\* changes nothing a client of the cache can see.
LEMMA ScanNextSplits ==
    ASSUME [ScanNext]_allVars
    PROVE  \/ ScanStep
           \/ [ThreadStep]_vars /\ UNCHANGED scanVars
           \/ ScanCrash
  BY DEF ScanNext, ThreadStep, allVars

\* No step of the composition leaves ScanInv.
LEMMA NextScanInv == ScanInv /\ [ScanNext]_allVars => ScanInv'
<1> SUFFICES ASSUME ScanInv, [ScanNext]_allVars PROVE ScanInv'
  OBVIOUS
<1>1. CASE ScanStep
  BY <1>1, CoreFrame, ScannerStep DEF ScanInv
<1>2. CASE [ThreadStep]_vars /\ UNCHANGED scanVars
  <2>1. [Next]_vars
    BY <1>2 DEF ThreadStep, Next
  <2>2. Threads \cup {NoThread} \subseteq Owners
    BY DEF Owners
  <2>3. Core(Owners)' /\ Fresh'
    BY <2>1, <2>2, CoreStep, FreshStep DEF ScanInv, Core
  <2>4. ScanTypes' /\ Judged'
    BY <1>2 DEF ScanInv, ScanTypes, Judged, scanVars
  <2>5. Held' /\ Peeked'
    BY <1>2, HeldStep, PeekedStep DEF ScanInv, Core
  <2> QED
    BY <2>3, <2>4, <2>5 DEF ScanInv
<1>3. CASE ScanCrash
  <2>1. [Next]_vars
    BY <1>3 DEF ScanCrash, Next
  <2>2. Threads \cup {NoThread} \subseteq Owners
    BY DEF Owners
  <2>3. Core(Owners)' /\ Fresh'
    BY <2>1, <2>2, CoreStep, FreshStep DEF ScanInv, Core
  <2>4. ScanTypes' /\ Held' /\ Peeked' /\ Judged'
    BY <1>3 DEF ScanInv, ScanCrash, ScanTypes, Held, Peeked, Judged, LockedPcs, Verdicts
  <2> QED
    BY <2>3, <2>4 DEF ScanInv
<1> QED
  BY <1>1, <1>2, <1>3, ScanNextSplits

\* ScanInv holds throughout: the files under a Check are those its scanner has
\* judged, as long as it holds their lock, and the promises of the cache hold
\* beside it.
THEOREM ScanInvariance == ScanSpec => []ScanInv
<1>1. ScanInit => ScanInv
  <2> SUFFICES ASSUME ScanInit PROVE ScanInv
    OBVIOUS
  <2>1. Core(Threads \cup {NoThread})
    BY InitIInv DEF ScanInit, IInv
  <2>2. Core(Owners)
    BY <2>1 DEF Core, Types, Owners
  <2>3. Fresh
    BY DEF ScanInit, Init, Fresh
  <2>4. ScanTypes /\ Held /\ Peeked /\ Judged
    BY ScanAssumption, ConstantsAssumption
    DEF ScanInit, ScanTypes, Held, Peeked, Judged, LockedPcs, Verdicts, Absent
  <2> QED
    BY <2>2, <2>3, <2>4 DEF ScanInv
<1> QED
  BY <1>1, NextScanInv, PTL DEF ScanSpec

\* What a Check reports is right: a mismatch is one no save is about to mend,
\* tensors are never missed under a skeleton, and what is called good without
\* any lock was one whole entry when its skeleton was read (store.py:
\* inspect_conditioning_pair, scanner.py: _stable_pair_issue).
THEOREM ChecksAreRight == ScanSpec => []CheckIsRight
<1>1. ScanInv => NoFalseMismatch
  <2> SUFFICES ASSUME ScanInv, scanPc = "unlock", verdict[at] = "generation_mismatch"
               PROVE  /\ json[at] # Absent /\ Entry(at) = Absent
                      /\ \A t \in Threads : fp[t] = at => pc[t] \notin SavePcs
    BY DEF NoFalseMismatch
  <2>1. json[at] # Absent /\ Entry(at) = Absent
    BY DEF ScanInv, Held, Entry
  <2>2. fpLock[at] = Scanner
    BY DEF ScanInv, Held, LockedPcs
  <2>3. ASSUME NEW t \in Threads, fp[t] = at, pc[t] \in SavePcs PROVE FALSE
    BY <2>2, <2>3, ScanAssumption DEF ScanInv, Core, Locks, HoldingPcs
  <2> QED
    BY <2>1, <2>3
<1>2. ScanInv => TensorsNeverMissing /\ GoodWasAnEntry
  BY DEF ScanInv, Judged, TensorsNeverMissing, GoodWasAnEntry
<1>3. ScanInv => CheckIsRight
  BY <1>1, <1>2 DEF CheckIsRight
<1> QED
  BY <1>3, ScanInvariance, PTL

\* Whatever the scanner reads and locks meanwhile, hits are whole, encodes and
\* encoders are one, saves are readable, a wrong checkpoint stays out and a
\* single fault leaks nothing.
THEOREM CacheKeepsItsPromises ==
    ScanSpec => [](/\ HitIsOneEntry /\ AutoEncodesOnlyMisses /\ SkeletonNeverAlone
                   /\ OneEncoder /\ ResidentEncoderIsLoud
                   /\ WrittenIsReadable /\ WrongNeverStored /\ TmpAccounted)
<1>1. ScanInv => HitIsOneEntry /\ AutoEncodesOnlyMisses /\ SkeletonNeverAlone
  BY DEF ScanInv, Core, Files
<1>2. ScanInv => OneEncoder /\ ResidentEncoderIsLoud
  BY EncodersAreOne DEF ScanInv, Core, Encoders, ResidentEncoderIsLoud, EncoderPcs
<1>3. ScanInv => WrittenIsReadable /\ WrongNeverStored /\ TmpAccounted
  BY DEF ScanInv, Core, Saves, Wrong, Temps
<1> QED
  BY <1>1, <1>2, <1>3, ScanInvariance, PTL

\* A step of the scanner changes no file and ends no run.
LEMMA ScannerIsSilent ==
    ASSUME ScanStep
    PROVE  UNCHANGED <<json, st, drawn, tens, result>>
  BY DEF ScanStep, List, Pick, Report, PeekJson, PeekSt, TryLock, LockedJson, LockedSt,
         Unlock, ReadSkeleton, ReadTensorHeader, vars, disk, reads

\* A Check destroys no entry, and its locks let nobody else destroy one.
THEOREM ChecksDestroyNothing == ScanSpec => EntryLostOnlyByIntent
<1>1. ASSUME ScanInv, [ScanNext]_allVars PROVE LossIsIntended
  <2>1. CASE ScanStep
    BY <2>1, ScannerIsSilent DEF LossIsIntended, Entry
  <2>2. CASE [Next]_vars
    BY <1>1, <2>2, LossStep DEF ScanInv, Core
  <2> QED
    BY <1>1, <2>1, <2>2, ScanNextSplits DEF ThreadStep, ScanCrash, Next
<1>2. ScanInv /\ [ScanNext]_allVars => [LossIsIntended]_vars
  BY <1>1
<1> QED
  BY ScanInvariance, <1>2, PTL DEF ScanSpec, EntryLostOnlyByIntent, LossIsIntended

\* To its clients the cache with a scanner beside it is still the atomic cache.
THEOREM ScannedCacheImplements == ScanSpec => ImplementsAtomicCache
<1>1. ScanInit => Abstract!Init
  BY DEF ScanInit, Init, Abstract!Init, Abstract!Absent, Absent, Entry, Served
<1>2. ASSUME ScanInv, [ScanNext]_allVars PROVE Mapped
  <2>1. CASE ScanStep
    BY <2>1, ScannerIsSilent, SilentMaps DEF Entry, Served
  <2>2. CASE [Next]_vars
    BY <1>2, <2>2, MappedStep DEF ScanInv, Core
  <2> QED
    BY <1>2, <2>1, <2>2, ScanNextSplits DEF ThreadStep, ScanCrash, Next
<1>3. ScanInv /\ [ScanNext]_allVars => Mapped
  BY <1>2
<1> QED
  BY ScanInvariance, <1>1, <1>3, PTL DEF ScanSpec, ImplementsAtomicCache, Abstract!Spec, Mapped
=============================================================================
