-------------------------- MODULE ClipCache_proofs --------------------------
(***************************************************************************)
(* Theorems about ClipCache, for any number of threads and fingerprints    *)
(* and any bounds.  The invariant IInv says, for every program counter,    *)
(* which locks the thread holds and what it may rely on about the files    *)
(* because it holds them; every safety property of ClipCache follows.      *)
(***************************************************************************)
EXTENDS ClipCache, FiniteSetTheorems, TLAPS

\* TypeOK, but that fingerprint locks may have owners besides the threads: the
\* steps of the threads keep the invariant whoever else takes a free lock.
Types(owners) ==
    /\ json \in [Fps -> Nat]
    /\ st \in [Fps -> Nat]
    /\ tmp \in SUBSET TmpFiles
    /\ drawn \in [Fps -> Nat]
    /\ fpLock \in [Fps -> owners]
    /\ encLock \in Threads \cup {NoThread}
    /\ resident \in SUBSET Threads
    /\ stuck \in Nat
    /\ unloadFails \in Nat
    /\ pc \in [Threads -> Pcs]
    /\ op \in [Threads -> Ops]
    /\ fp \in [Threads -> Fps]
    /\ skel \in [Threads -> Nat]
    /\ tens \in [Threads -> Nat]
    /\ gen \in [Threads -> Nat]
    /\ result \in [Threads -> Results]
    /\ todo \in [Threads -> SUBSET Fps]
    /\ opsLeft \in Nat /\ faultsLeft \in Nat /\ crashesLeft \in Nat

\* Who is at a locked section holds its lock.
Locks ==
    \A t \in Threads :
        /\ pc[t] \in HoldingPcs => fpLock[fp[t]] = t
        /\ pc[t] \in EncoderPcs => encLock = t

\* Which requests reach which sections.
Kinds ==
    \A t \in Threads :
        /\ pc[t] = "lockFp" => op[t] \in Runs \cup {"delete"}
        /\ pc[t] \in LookupPcs => op[t] = "auto"
        /\ pc[t] \in {"lockEnc", "safetyNet"} \cup EncoderPcs \cup SavePcs => op[t] \in Runs
        /\ pc[t] \in {"unlinkJson", "unlinkSt"} => op[t] = "delete"
        /\ pc[t] \in {"sweep", "gcTry"} \cup GcPcs => op[t] = "check"

\* The files, and what the holder of the lock knows of them.
Files ==
    /\ SkeletonNeverAlone
    /\ \A f \in Fps : json[f] <= drawn[f] /\ st[f] <= drawn[f]
    /\ \A t \in Threads :
        /\ pc[t] \in {"heal", "gcUnlink", "unlinkSt"} => json[fp[t]] = Absent
        /\ pc[t] \in SavePcs \ {"writeTmp"} => gen[t] = drawn[fp[t]] /\ gen[t] # Absent
        /\ pc[t] = "publishJson" => st[fp[t]] = gen[t]

\* What a lookup has read is still what is on disk.
Reads ==
    \A t \in Threads :
        /\ pc[t] \in {"readHeader", "loadFile", "validate"} =>
              skel[t] = json[fp[t]] /\ skel[t] # Absent
        /\ pc[t] \in {"loadFile", "validate"} => st[fp[t]] = skel[t]
        /\ pc[t] = "validate" => tens[t] = skel[t]
        /\ result[t] = "hit" => pc[t] \in {"unlockFp", "safetyNet"} /\ op[t] = "auto"

\* What was saved is what is on disk.
Saves ==
    /\ WrittenIsReadable
    /\ \A t \in Threads : result[t] = "written" => pc[t] \in {"unlockFp", "safetyNet"}

\* Encoders outlive the encoder lock only after an unload that raised.
Encoders ==
    /\ \A t \in resident :
        /\ pc[t] \in {"encode", "unload", "unlockEnc", "unlockFp", "safetyNet"}
        /\ pc[t] \in {"unlockEnc", "unlockFp", "safetyNet"} => result[t] = "raised"
        /\ pc[t] = "unlockFp" => op[t] \in Runs
        /\ unloadFails = 0 => pc[t] \in {"encode", "unload"}
    /\ unloadFails = 0 => stuck = 0

\* A wrong checkpoint gets as far as a raised run.
Wrong ==
    /\ WrongNeverStored
    /\ \A t \in Threads : fp[t] \in WrongFps =>
        /\ pc[t] \notin SavePcs
        /\ pc[t] \in {"unload", "unlockEnc"} => result[t] = "raised"

\* The generation of a save, and the calls that have failed by then.
Gens ==
    /\ \A t \in Threads :
        /\ gen[t] # Absent => pc[t] \in SavePcs \cup {"unlockFp", "safetyNet"} /\ op[t] \in Runs
        /\ pc[t] = "writeTmp" => gen[t] = Absent
        /\ pc[t] = "cleanTmp" => faultsLeft < MaxFaults
    /\ faultsLeft <= MaxFaults /\ crashesLeft <= MaxCrashes

\* Temp files.
Temps ==
    /\ \A x \in tmp : x.gen # Absent
    /\ \A t \in Threads : pc[t] = "publishJson" => TmpOf(t, "st") \notin tmp
    /\ TmpAccounted

Core(owners) ==
    /\ Types(owners) /\ Locks /\ Kinds /\ Files /\ Reads /\ HitIsOneEntry
    /\ AutoEncodesOnlyMisses /\ Saves /\ Encoders /\ Wrong /\ Gens /\ Temps

\* In ClipCache itself, only the threads take locks.
IInv == Core(Threads \cup {NoThread})

-----------------------------------------------------------------------------
(* IInv is inductive.                                                      *)

\* Every step keeps every variable in its type.
LEMMA TypeStep ==
    ASSUME NEW owners, Threads \cup {NoThread} \subseteq owners, Types(owners), [Next]_vars
    PROVE  Types(owners)'
<1> USE ConstantsAssumption DEF Types, Absent, Runs, Ops, Results, Miss, TmpOf,
        TmpFiles, vars, disk, locks, encoders, request, reads, budget, GoTo, Fault,
        Outcome, Pcs, HoldingPcs, LookupPcs, EncoderPcs, SavePcs, GcPcs
  (* The lock of the fingerprint. *)
<1>1. ASSUME NEW t \in Threads, LockFp(t) PROVE Types(owners)'
  BY <1>1 DEF LockFp
<1>2. ASSUME NEW t \in Threads, LockTimeout(t) PROVE Types(owners)'
  BY <1>2 DEF LockTimeout
<1>3. ASSUME NEW t \in Threads, UnlockFp(t) PROVE Types(owners)'
  BY <1>3 DEF UnlockFp
  (* load_conditioning(). *)
<1>4. ASSUME NEW t \in Threads, Lookup(t) PROVE Types(owners)'
  BY <1>4 DEF Lookup
<1>5. ASSUME NEW t \in Threads, Heal(t) PROVE Types(owners)'
  BY <1>5 DEF Heal
<1>6. ASSUME NEW t \in Threads, ReadJson(t) PROVE Types(owners)'
  BY <1>6 DEF ReadJson
<1>7. ASSUME NEW t \in Threads, ReadHeader(t) PROVE Types(owners)'
  BY <1>7 DEF ReadHeader
<1>8. ASSUME NEW t \in Threads, LoadFile(t) PROVE Types(owners)'
  BY <1>8 DEF LoadFile
<1>9. ASSUME NEW t \in Threads, ReadError(t) PROVE Types(owners)'
  BY <1>9 DEF ReadError
<1>10. ASSUME NEW t \in Threads, ValidateHit(t) PROVE Types(owners)'
  BY <1>10 DEF ValidateHit
  (* The encoder. *)
<1>11. ASSUME NEW t \in Threads, LockEnc(t) PROVE Types(owners)'
  BY <1>11 DEF LockEnc
<1>12. ASSUME NEW t \in Threads, LoadClip(t) PROVE Types(owners)'
  BY <1>12 DEF LoadClip
<1>13. ASSUME NEW t \in Threads, Encode(t) PROVE Types(owners)'
  BY <1>13 DEF Encode
<1>14. ASSUME NEW t \in Threads, Unload(t) PROVE Types(owners)'
  BY <1>14 DEF Unload
<1>15. ASSUME NEW t \in Threads, UnlockEnc(t) PROVE Types(owners)'
  BY <1>15 DEF UnlockEnc
<1>16. ASSUME NEW t \in Threads, SafetyNet(t) PROVE Types(owners)'
  BY <1>16 DEF SafetyNet
  (* save_conditioning(). *)
<1>17. ASSUME NEW t \in Threads, WriteTmp(t) PROVE Types(owners)'
  BY <1>17 DEF WriteTmp
<1>18. ASSUME NEW t \in Threads, WriteTmpJson(t) PROVE Types(owners)'
  BY <1>18 DEF WriteTmpJson
<1>19. ASSUME NEW t \in Threads, PublishSt(t) PROVE Types(owners)'
  BY <1>19 DEF PublishSt
<1>20. ASSUME NEW t \in Threads, PublishJson(t) PROVE Types(owners)'
  BY <1>20 DEF PublishJson
<1>21. ASSUME NEW t \in Threads, CleanTmp(t) PROVE Types(owners)'
  BY <1>21 DEF CleanTmp
  (* delete_conditioning(). *)
<1>22. ASSUME NEW t \in Threads, UnlinkJson(t) PROVE Types(owners)'
  BY <1>22 DEF UnlinkJson
<1>23. ASSUME NEW t \in Threads, UnlinkSt(t) PROVE Types(owners)'
  BY <1>23 DEF UnlinkSt
  (* gc_orphaned_cache_files(). *)
<1>24. ASSUME NEW t \in Threads, NEW f \in Fps, SweepNext(t, f) PROVE Types(owners)'
  BY <1>24 DEF SweepNext
<1>25. ASSUME NEW t \in Threads, SweepDone(t) PROVE Types(owners)'
  BY <1>25 DEF SweepDone
<1>26. ASSUME NEW t \in Threads, GcTry(t) PROVE Types(owners)'
  <2>1. CASE fpLock[fp[t]] = NoThread
    <3>1. /\ fpLock' = [fpLock EXCEPT ![fp[t]] = t] /\ pc' = [pc EXCEPT ![t] = "gcRecheck"]
          /\ UNCHANGED <<disk, encLock, encoders, request, reads, result, todo, budget>>
      BY <1>26, <2>1 DEF GcTry
    <3>2. fpLock' \in [Fps -> owners] /\ pc' \in [Threads -> Pcs]
      BY <3>1
    <3> QED
      BY <3>1, <3>2
  <2>2. CASE fpLock[fp[t]] # NoThread
    BY <1>26, <2>2 DEF GcTry
  <2> QED
    BY <2>1, <2>2
<1>27. ASSUME NEW t \in Threads, GcRecheck(t) PROVE Types(owners)'
  BY <1>27 DEF GcRecheck
<1>28. ASSUME NEW t \in Threads, GcUnlink(t) PROVE Types(owners)'
  BY <1>28 DEF GcUnlink
<1>29. ASSUME NEW t \in Threads, GcUnlock(t) PROVE Types(owners)'
  BY <1>29 DEF GcUnlock
  (* Requests, a restart, rest. *)
<1>30. ASSUME NEW t \in Threads, NEW f \in Fps, NEW k \in {"auto", "refresh", "delete"},
             StartOn(t, f, k)
      PROVE  Types(owners)'
  BY <1>30 DEF StartOn, Start
<1>31. ASSUME NEW t \in Threads, StartCheck(t) PROVE Types(owners)'
  BY <1>31 DEF StartCheck, Start
<1>32. ASSUME Crash PROVE Types(owners)'
  BY <1>32 DEF Crash
<1>33. ASSUME Rest \/ UNCHANGED vars PROVE Types(owners)'
  BY <1>33 DEF Rest
<1> HIDE DEF Types
<1> QED
  BY <1>1, <1>2, <1>3, <1>4, <1>5, <1>6, <1>7, <1>8, <1>9, <1>10, <1>11, <1>12,
     <1>13, <1>14, <1>15, <1>16, <1>17, <1>18, <1>19, <1>20, <1>21, <1>22, <1>23,
     <1>24, <1>25, <1>26, <1>27, <1>28, <1>29, <1>30, <1>31, <1>32, <1>33 DEF Next,
     Step, Request

\* A lock is entered only when it is free, and left by its owner.
LEMMA LocksStep ==
    ASSUME NEW owners, Types(owners), Locks, [Next]_vars
    PROVE  Locks'
<1> USE ConstantsAssumption DEF Locks, Types, Absent, Miss, vars, disk, locks,
        encoders, request, reads, budget, GoTo, Fault, Outcome, Pcs, HoldingPcs,
        LookupPcs, EncoderPcs, SavePcs, GcPcs
  (* The lock of the fingerprint. *)
<1>1. ASSUME NEW t \in Threads, LockFp(t) PROVE Locks'
  BY <1>1 DEF LockFp
<1>2. ASSUME NEW t \in Threads, LockTimeout(t) PROVE Locks'
  BY <1>2 DEF LockTimeout
<1>3. ASSUME NEW t \in Threads, UnlockFp(t) PROVE Locks'
  BY <1>3 DEF UnlockFp
  (* load_conditioning(). *)
<1>4. ASSUME NEW t \in Threads, Lookup(t) PROVE Locks'
  BY <1>4 DEF Lookup
<1>5. ASSUME NEW t \in Threads, Heal(t) PROVE Locks'
  BY <1>5 DEF Heal
<1>6. ASSUME NEW t \in Threads, ReadJson(t) PROVE Locks'
  BY <1>6 DEF ReadJson
<1>7. ASSUME NEW t \in Threads, ReadHeader(t) PROVE Locks'
  BY <1>7 DEF ReadHeader
<1>8. ASSUME NEW t \in Threads, LoadFile(t) PROVE Locks'
  BY <1>8 DEF LoadFile
<1>9. ASSUME NEW t \in Threads, ReadError(t) PROVE Locks'
  BY <1>9 DEF ReadError
<1>10. ASSUME NEW t \in Threads, ValidateHit(t) PROVE Locks'
  BY <1>10 DEF ValidateHit
  (* The encoder. *)
<1>11. ASSUME NEW t \in Threads, LockEnc(t) PROVE Locks'
  BY <1>11 DEF LockEnc
<1>12. ASSUME NEW t \in Threads, LoadClip(t) PROVE Locks'
  BY <1>12 DEF LoadClip
<1>13. ASSUME NEW t \in Threads, Encode(t) PROVE Locks'
  BY <1>13 DEF Encode
<1>14. ASSUME NEW t \in Threads, Unload(t) PROVE Locks'
  BY <1>14 DEF Unload
<1>15. ASSUME NEW t \in Threads, UnlockEnc(t) PROVE Locks'
  BY <1>15 DEF UnlockEnc
<1>16. ASSUME NEW t \in Threads, SafetyNet(t) PROVE Locks'
  BY <1>16 DEF SafetyNet
  (* save_conditioning(). *)
<1>17. ASSUME NEW t \in Threads, WriteTmp(t) PROVE Locks'
  BY <1>17 DEF WriteTmp
<1>18. ASSUME NEW t \in Threads, WriteTmpJson(t) PROVE Locks'
  BY <1>18 DEF WriteTmpJson
<1>19. ASSUME NEW t \in Threads, PublishSt(t) PROVE Locks'
  BY <1>19 DEF PublishSt
<1>20. ASSUME NEW t \in Threads, PublishJson(t) PROVE Locks'
  BY <1>20 DEF PublishJson
<1>21. ASSUME NEW t \in Threads, CleanTmp(t) PROVE Locks'
  BY <1>21 DEF CleanTmp
  (* delete_conditioning(). *)
<1>22. ASSUME NEW t \in Threads, UnlinkJson(t) PROVE Locks'
  BY <1>22 DEF UnlinkJson
<1>23. ASSUME NEW t \in Threads, UnlinkSt(t) PROVE Locks'
  BY <1>23 DEF UnlinkSt
  (* gc_orphaned_cache_files(). *)
<1>24. ASSUME NEW t \in Threads, NEW f \in Fps, SweepNext(t, f) PROVE Locks'
  BY <1>24 DEF SweepNext
<1>25. ASSUME NEW t \in Threads, SweepDone(t) PROVE Locks'
  BY <1>25 DEF SweepDone
<1>26. ASSUME NEW t \in Threads, GcTry(t) PROVE Locks'
  BY <1>26 DEF GcTry
<1>27. ASSUME NEW t \in Threads, GcRecheck(t) PROVE Locks'
  BY <1>27 DEF GcRecheck
<1>28. ASSUME NEW t \in Threads, GcUnlink(t) PROVE Locks'
  BY <1>28 DEF GcUnlink
<1>29. ASSUME NEW t \in Threads, GcUnlock(t) PROVE Locks'
  BY <1>29 DEF GcUnlock
  (* Requests, a restart, rest. *)
<1>30. ASSUME NEW t \in Threads, NEW f \in Fps, NEW k \in {"auto", "refresh", "delete"},
             StartOn(t, f, k)
      PROVE  Locks'
  BY <1>30 DEF StartOn, Start
<1>31. ASSUME NEW t \in Threads, StartCheck(t) PROVE Locks'
  BY <1>31 DEF StartCheck, Start
<1>32. ASSUME Crash PROVE Locks'
  BY <1>32 DEF Crash
<1>33. ASSUME Rest \/ UNCHANGED vars PROVE Locks'
  BY <1>33 DEF Rest
<1> HIDE DEF Locks
<1> QED
  BY <1>1, <1>2, <1>3, <1>4, <1>5, <1>6, <1>7, <1>8, <1>9, <1>10, <1>11, <1>12,
     <1>13, <1>14, <1>15, <1>16, <1>17, <1>18, <1>19, <1>20, <1>21, <1>22, <1>23,
     <1>24, <1>25, <1>26, <1>27, <1>28, <1>29, <1>30, <1>31, <1>32, <1>33 DEF Next,
     Step, Request

\* A request stays in the sections of its kind.
LEMMA KindsStep ==
    ASSUME NEW owners, Types(owners), Kinds, [Next]_vars
    PROVE  Kinds'
<1> USE DEF Kinds, Runs, Ops, Types, Absent, Miss, vars, disk, locks, encoders,
        request, reads, budget, GoTo, Fault, Outcome, Pcs, HoldingPcs, LookupPcs,
        EncoderPcs, SavePcs, GcPcs
  (* The lock of the fingerprint. *)
<1>1. ASSUME NEW t \in Threads, LockFp(t) PROVE Kinds'
  BY <1>1 DEF LockFp
<1>2. ASSUME NEW t \in Threads, LockTimeout(t) PROVE Kinds'
  BY <1>2 DEF LockTimeout
<1>3. ASSUME NEW t \in Threads, UnlockFp(t) PROVE Kinds'
  BY <1>3 DEF UnlockFp
  (* load_conditioning(). *)
<1>4. ASSUME NEW t \in Threads, Lookup(t) PROVE Kinds'
  BY <1>4 DEF Lookup
<1>5. ASSUME NEW t \in Threads, Heal(t) PROVE Kinds'
  BY <1>5 DEF Heal
<1>6. ASSUME NEW t \in Threads, ReadJson(t) PROVE Kinds'
  BY <1>6 DEF ReadJson
<1>7. ASSUME NEW t \in Threads, ReadHeader(t) PROVE Kinds'
  BY <1>7 DEF ReadHeader
<1>8. ASSUME NEW t \in Threads, LoadFile(t) PROVE Kinds'
  BY <1>8 DEF LoadFile
<1>9. ASSUME NEW t \in Threads, ReadError(t) PROVE Kinds'
  BY <1>9 DEF ReadError
<1>10. ASSUME NEW t \in Threads, ValidateHit(t) PROVE Kinds'
  BY <1>10 DEF ValidateHit
  (* The encoder. *)
<1>11. ASSUME NEW t \in Threads, LockEnc(t) PROVE Kinds'
  BY <1>11 DEF LockEnc
<1>12. ASSUME NEW t \in Threads, LoadClip(t) PROVE Kinds'
  BY <1>12 DEF LoadClip
<1>13. ASSUME NEW t \in Threads, Encode(t) PROVE Kinds'
  BY <1>13 DEF Encode
<1>14. ASSUME NEW t \in Threads, Unload(t) PROVE Kinds'
  BY <1>14 DEF Unload
<1>15. ASSUME NEW t \in Threads, UnlockEnc(t) PROVE Kinds'
  BY <1>15 DEF UnlockEnc
<1>16. ASSUME NEW t \in Threads, SafetyNet(t) PROVE Kinds'
  BY <1>16 DEF SafetyNet
  (* save_conditioning(). *)
<1>17. ASSUME NEW t \in Threads, WriteTmp(t) PROVE Kinds'
  BY <1>17 DEF WriteTmp
<1>18. ASSUME NEW t \in Threads, WriteTmpJson(t) PROVE Kinds'
  BY <1>18 DEF WriteTmpJson
<1>19. ASSUME NEW t \in Threads, PublishSt(t) PROVE Kinds'
  BY <1>19 DEF PublishSt
<1>20. ASSUME NEW t \in Threads, PublishJson(t) PROVE Kinds'
  BY <1>20 DEF PublishJson
<1>21. ASSUME NEW t \in Threads, CleanTmp(t) PROVE Kinds'
  BY <1>21 DEF CleanTmp
  (* delete_conditioning(). *)
<1>22. ASSUME NEW t \in Threads, UnlinkJson(t) PROVE Kinds'
  BY <1>22 DEF UnlinkJson
<1>23. ASSUME NEW t \in Threads, UnlinkSt(t) PROVE Kinds'
  BY <1>23 DEF UnlinkSt
  (* gc_orphaned_cache_files(). *)
<1>24. ASSUME NEW t \in Threads, NEW f \in Fps, SweepNext(t, f) PROVE Kinds'
  BY <1>24 DEF SweepNext
<1>25. ASSUME NEW t \in Threads, SweepDone(t) PROVE Kinds'
  BY <1>25 DEF SweepDone
<1>26. ASSUME NEW t \in Threads, GcTry(t) PROVE Kinds'
  BY <1>26 DEF GcTry
<1>27. ASSUME NEW t \in Threads, GcRecheck(t) PROVE Kinds'
  BY <1>27 DEF GcRecheck
<1>28. ASSUME NEW t \in Threads, GcUnlink(t) PROVE Kinds'
  BY <1>28 DEF GcUnlink
<1>29. ASSUME NEW t \in Threads, GcUnlock(t) PROVE Kinds'
  BY <1>29 DEF GcUnlock
  (* Requests, a restart, rest. *)
<1>30. ASSUME NEW t \in Threads, NEW f \in Fps, NEW k \in {"auto", "refresh", "delete"},
             StartOn(t, f, k)
      PROVE  Kinds'
  BY <1>30 DEF StartOn, Start
<1>31. ASSUME NEW t \in Threads, StartCheck(t) PROVE Kinds'
  BY <1>31 DEF StartCheck, Start
<1>32. ASSUME Crash PROVE Kinds'
  BY <1>32 DEF Crash
<1>33. ASSUME Rest \/ UNCHANGED vars PROVE Kinds'
  BY <1>33 DEF Rest
<1> HIDE DEF Kinds
<1> QED
  BY <1>1, <1>2, <1>3, <1>4, <1>5, <1>6, <1>7, <1>8, <1>9, <1>10, <1>11, <1>12,
     <1>13, <1>14, <1>15, <1>16, <1>17, <1>18, <1>19, <1>20, <1>21, <1>22, <1>23,
     <1>24, <1>25, <1>26, <1>27, <1>28, <1>29, <1>30, <1>31, <1>32, <1>33 DEF Next,
     Step, Request

\* Nobody changes a file but the holder of its lock, in the order of Files.
LEMMA FilesStep ==
    ASSUME NEW owners, Types(owners), Locks, Files, [Next]_vars
    PROVE  Files'
<1> USE DEF Files, Locks, SkeletonNeverAlone, Types, Absent, Miss, vars, disk,
        locks, encoders, request, reads, budget, GoTo, Fault, Outcome, Pcs,
        HoldingPcs, LookupPcs, EncoderPcs, SavePcs, GcPcs
  (* The lock of the fingerprint. *)
<1>1. ASSUME NEW t \in Threads, LockFp(t) PROVE Files'
  BY <1>1 DEF LockFp
<1>2. ASSUME NEW t \in Threads, LockTimeout(t) PROVE Files'
  BY <1>2 DEF LockTimeout
<1>3. ASSUME NEW t \in Threads, UnlockFp(t) PROVE Files'
  BY <1>3 DEF UnlockFp
  (* load_conditioning(). *)
<1>4. ASSUME NEW t \in Threads, Lookup(t) PROVE Files'
  BY <1>4 DEF Lookup
<1>5. ASSUME NEW t \in Threads, Heal(t) PROVE Files'
  BY <1>5 DEF Heal
<1>6. ASSUME NEW t \in Threads, ReadJson(t) PROVE Files'
  BY <1>6 DEF ReadJson
<1>7. ASSUME NEW t \in Threads, ReadHeader(t) PROVE Files'
  BY <1>7 DEF ReadHeader
<1>8. ASSUME NEW t \in Threads, LoadFile(t) PROVE Files'
  BY <1>8 DEF LoadFile
<1>9. ASSUME NEW t \in Threads, ReadError(t) PROVE Files'
  BY <1>9 DEF ReadError
<1>10. ASSUME NEW t \in Threads, ValidateHit(t) PROVE Files'
  BY <1>10 DEF ValidateHit
  (* The encoder. *)
<1>11. ASSUME NEW t \in Threads, LockEnc(t) PROVE Files'
  BY <1>11 DEF LockEnc
<1>12. ASSUME NEW t \in Threads, LoadClip(t) PROVE Files'
  BY <1>12 DEF LoadClip
<1>13. ASSUME NEW t \in Threads, Encode(t) PROVE Files'
  BY <1>13 DEF Encode
<1>14. ASSUME NEW t \in Threads, Unload(t) PROVE Files'
  BY <1>14 DEF Unload
<1>15. ASSUME NEW t \in Threads, UnlockEnc(t) PROVE Files'
  BY <1>15 DEF UnlockEnc
<1>16. ASSUME NEW t \in Threads, SafetyNet(t) PROVE Files'
  BY <1>16 DEF SafetyNet
  (* save_conditioning(). *)
<1>17. ASSUME NEW t \in Threads, WriteTmp(t) PROVE Files'
  BY <1>17 DEF WriteTmp
<1>18. ASSUME NEW t \in Threads, WriteTmpJson(t) PROVE Files'
  BY <1>18 DEF WriteTmpJson
<1>19. ASSUME NEW t \in Threads, PublishSt(t) PROVE Files'
  BY <1>19 DEF PublishSt
<1>20. ASSUME NEW t \in Threads, PublishJson(t) PROVE Files'
  BY <1>20 DEF PublishJson
<1>21. ASSUME NEW t \in Threads, CleanTmp(t) PROVE Files'
  BY <1>21 DEF CleanTmp
  (* delete_conditioning(). *)
<1>22. ASSUME NEW t \in Threads, UnlinkJson(t) PROVE Files'
  BY <1>22 DEF UnlinkJson
<1>23. ASSUME NEW t \in Threads, UnlinkSt(t) PROVE Files'
  BY <1>23 DEF UnlinkSt
  (* gc_orphaned_cache_files(). *)
<1>24. ASSUME NEW t \in Threads, NEW f \in Fps, SweepNext(t, f) PROVE Files'
  BY <1>24 DEF SweepNext
<1>25. ASSUME NEW t \in Threads, SweepDone(t) PROVE Files'
  BY <1>25 DEF SweepDone
<1>26. ASSUME NEW t \in Threads, GcTry(t) PROVE Files'
  BY <1>26 DEF GcTry
<1>27. ASSUME NEW t \in Threads, GcRecheck(t) PROVE Files'
  BY <1>27 DEF GcRecheck
<1>28. ASSUME NEW t \in Threads, GcUnlink(t) PROVE Files'
  BY <1>28 DEF GcUnlink
<1>29. ASSUME NEW t \in Threads, GcUnlock(t) PROVE Files'
  BY <1>29 DEF GcUnlock
  (* Requests, a restart, rest. *)
<1>30. ASSUME NEW t \in Threads, NEW f \in Fps, NEW k \in {"auto", "refresh", "delete"},
             StartOn(t, f, k)
      PROVE  Files'
  BY <1>30 DEF StartOn, Start
<1>31. ASSUME NEW t \in Threads, StartCheck(t) PROVE Files'
  BY <1>31 DEF StartCheck, Start
<1>32. ASSUME Crash PROVE Files'
  BY <1>32 DEF Crash
<1>33. ASSUME Rest \/ UNCHANGED vars PROVE Files'
  BY <1>33 DEF Rest
<1> HIDE DEF Files
<1> QED
  BY <1>1, <1>2, <1>3, <1>4, <1>5, <1>6, <1>7, <1>8, <1>9, <1>10, <1>11, <1>12,
     <1>13, <1>14, <1>15, <1>16, <1>17, <1>18, <1>19, <1>20, <1>21, <1>22, <1>23,
     <1>24, <1>25, <1>26, <1>27, <1>28, <1>29, <1>30, <1>31, <1>32, <1>33 DEF Next,
     Step, Request

\* The lock keeps what a lookup has read.
LEMMA ReadsStep ==
    ASSUME NEW owners, Types(owners), Locks, Kinds, Reads, [Next]_vars
    PROVE  Reads'
<1> USE DEF Reads, Locks, Kinds, Runs, Types, Absent, Miss, vars, disk, locks,
        encoders, request, reads, budget, GoTo, Fault, Outcome, Pcs, HoldingPcs,
        LookupPcs, EncoderPcs, SavePcs, GcPcs
  (* The lock of the fingerprint. *)
<1>1. ASSUME NEW t \in Threads, LockFp(t) PROVE Reads'
  BY <1>1 DEF LockFp
<1>2. ASSUME NEW t \in Threads, LockTimeout(t) PROVE Reads'
  BY <1>2 DEF LockTimeout
<1>3. ASSUME NEW t \in Threads, UnlockFp(t) PROVE Reads'
  BY <1>3 DEF UnlockFp
  (* load_conditioning(). *)
<1>4. ASSUME NEW t \in Threads, Lookup(t) PROVE Reads'
  BY <1>4 DEF Lookup
<1>5. ASSUME NEW t \in Threads, Heal(t) PROVE Reads'
  BY <1>5 DEF Heal
<1>6. ASSUME NEW t \in Threads, ReadJson(t) PROVE Reads'
  BY <1>6 DEF ReadJson
<1>7. ASSUME NEW t \in Threads, ReadHeader(t) PROVE Reads'
  BY <1>7 DEF ReadHeader
<1>8. ASSUME NEW t \in Threads, LoadFile(t) PROVE Reads'
  BY <1>8 DEF LoadFile
<1>9. ASSUME NEW t \in Threads, ReadError(t) PROVE Reads'
  BY <1>9 DEF ReadError
<1>10. ASSUME NEW t \in Threads, ValidateHit(t) PROVE Reads'
  BY <1>10 DEF ValidateHit
  (* The encoder. *)
<1>11. ASSUME NEW t \in Threads, LockEnc(t) PROVE Reads'
  BY <1>11 DEF LockEnc
<1>12. ASSUME NEW t \in Threads, LoadClip(t) PROVE Reads'
  BY <1>12 DEF LoadClip
<1>13. ASSUME NEW t \in Threads, Encode(t) PROVE Reads'
  BY <1>13 DEF Encode
<1>14. ASSUME NEW t \in Threads, Unload(t) PROVE Reads'
  BY <1>14 DEF Unload
<1>15. ASSUME NEW t \in Threads, UnlockEnc(t) PROVE Reads'
  BY <1>15 DEF UnlockEnc
<1>16. ASSUME NEW t \in Threads, SafetyNet(t) PROVE Reads'
  BY <1>16 DEF SafetyNet
  (* save_conditioning(). *)
<1>17. ASSUME NEW t \in Threads, WriteTmp(t) PROVE Reads'
  BY <1>17 DEF WriteTmp
<1>18. ASSUME NEW t \in Threads, WriteTmpJson(t) PROVE Reads'
  BY <1>18 DEF WriteTmpJson
<1>19. ASSUME NEW t \in Threads, PublishSt(t) PROVE Reads'
  BY <1>19 DEF PublishSt
<1>20. ASSUME NEW t \in Threads, PublishJson(t) PROVE Reads'
  BY <1>20 DEF PublishJson
<1>21. ASSUME NEW t \in Threads, CleanTmp(t) PROVE Reads'
  BY <1>21 DEF CleanTmp
  (* delete_conditioning(). *)
<1>22. ASSUME NEW t \in Threads, UnlinkJson(t) PROVE Reads'
  BY <1>22 DEF UnlinkJson
<1>23. ASSUME NEW t \in Threads, UnlinkSt(t) PROVE Reads'
  BY <1>23 DEF UnlinkSt
  (* gc_orphaned_cache_files(). *)
<1>24. ASSUME NEW t \in Threads, NEW f \in Fps, SweepNext(t, f) PROVE Reads'
  BY <1>24 DEF SweepNext
<1>25. ASSUME NEW t \in Threads, SweepDone(t) PROVE Reads'
  BY <1>25 DEF SweepDone
<1>26. ASSUME NEW t \in Threads, GcTry(t) PROVE Reads'
  BY <1>26 DEF GcTry
<1>27. ASSUME NEW t \in Threads, GcRecheck(t) PROVE Reads'
  BY <1>27 DEF GcRecheck
<1>28. ASSUME NEW t \in Threads, GcUnlink(t) PROVE Reads'
  BY <1>28 DEF GcUnlink
<1>29. ASSUME NEW t \in Threads, GcUnlock(t) PROVE Reads'
  BY <1>29 DEF GcUnlock
  (* Requests, a restart, rest. *)
<1>30. ASSUME NEW t \in Threads, NEW f \in Fps, NEW k \in {"auto", "refresh", "delete"},
             StartOn(t, f, k)
      PROVE  Reads'
  BY <1>30 DEF StartOn, Start
<1>31. ASSUME NEW t \in Threads, StartCheck(t) PROVE Reads'
  BY <1>31 DEF StartCheck, Start
<1>32. ASSUME Crash PROVE Reads'
  BY <1>32 DEF Crash
<1>33. ASSUME Rest \/ UNCHANGED vars PROVE Reads'
  BY <1>33 DEF Rest
<1> HIDE DEF Reads
<1> QED
  BY <1>1, <1>2, <1>3, <1>4, <1>5, <1>6, <1>7, <1>8, <1>9, <1>10, <1>11, <1>12,
     <1>13, <1>14, <1>15, <1>16, <1>17, <1>18, <1>19, <1>20, <1>21, <1>22, <1>23,
     <1>24, <1>25, <1>26, <1>27, <1>28, <1>29, <1>30, <1>31, <1>32, <1>33 DEF Next,
     Step, Request

\* The lock keeps what a HIT returns.
LEMMA HitIsOneEntryStep ==
    ASSUME NEW owners, Types(owners), Locks, Kinds, Reads, HitIsOneEntry, [Next]_vars
    PROVE  HitIsOneEntry'
<1> USE DEF HitIsOneEntry, Entry, Reads, Locks, Kinds, Runs, Types, Absent, Miss,
        vars, disk, locks, encoders, request, reads, budget, GoTo, Fault, Outcome,
        Pcs, HoldingPcs, LookupPcs, EncoderPcs, SavePcs, GcPcs
  (* The lock of the fingerprint. *)
<1>1. ASSUME NEW t \in Threads, LockFp(t) PROVE HitIsOneEntry'
  BY <1>1 DEF LockFp
<1>2. ASSUME NEW t \in Threads, LockTimeout(t) PROVE HitIsOneEntry'
  BY <1>2 DEF LockTimeout
<1>3. ASSUME NEW t \in Threads, UnlockFp(t) PROVE HitIsOneEntry'
  BY <1>3 DEF UnlockFp
  (* load_conditioning(). *)
<1>4. ASSUME NEW t \in Threads, Lookup(t) PROVE HitIsOneEntry'
  BY <1>4 DEF Lookup
<1>5. ASSUME NEW t \in Threads, Heal(t) PROVE HitIsOneEntry'
  BY <1>5 DEF Heal
<1>6. ASSUME NEW t \in Threads, ReadJson(t) PROVE HitIsOneEntry'
  BY <1>6 DEF ReadJson
<1>7. ASSUME NEW t \in Threads, ReadHeader(t) PROVE HitIsOneEntry'
  BY <1>7 DEF ReadHeader
<1>8. ASSUME NEW t \in Threads, LoadFile(t) PROVE HitIsOneEntry'
  BY <1>8 DEF LoadFile
<1>9. ASSUME NEW t \in Threads, ReadError(t) PROVE HitIsOneEntry'
  BY <1>9 DEF ReadError
<1>10. ASSUME NEW t \in Threads, ValidateHit(t) PROVE HitIsOneEntry'
  BY <1>10 DEF ValidateHit
  (* The encoder. *)
<1>11. ASSUME NEW t \in Threads, LockEnc(t) PROVE HitIsOneEntry'
  BY <1>11 DEF LockEnc
<1>12. ASSUME NEW t \in Threads, LoadClip(t) PROVE HitIsOneEntry'
  BY <1>12 DEF LoadClip
<1>13. ASSUME NEW t \in Threads, Encode(t) PROVE HitIsOneEntry'
  BY <1>13 DEF Encode
<1>14. ASSUME NEW t \in Threads, Unload(t) PROVE HitIsOneEntry'
  BY <1>14 DEF Unload
<1>15. ASSUME NEW t \in Threads, UnlockEnc(t) PROVE HitIsOneEntry'
  BY <1>15 DEF UnlockEnc
<1>16. ASSUME NEW t \in Threads, SafetyNet(t) PROVE HitIsOneEntry'
  BY <1>16 DEF SafetyNet
  (* save_conditioning(). *)
<1>17. ASSUME NEW t \in Threads, WriteTmp(t) PROVE HitIsOneEntry'
  BY <1>17 DEF WriteTmp
<1>18. ASSUME NEW t \in Threads, WriteTmpJson(t) PROVE HitIsOneEntry'
  BY <1>18 DEF WriteTmpJson
<1>19. ASSUME NEW t \in Threads, PublishSt(t) PROVE HitIsOneEntry'
  BY <1>19 DEF PublishSt
<1>20. ASSUME NEW t \in Threads, PublishJson(t) PROVE HitIsOneEntry'
  BY <1>20 DEF PublishJson
<1>21. ASSUME NEW t \in Threads, CleanTmp(t) PROVE HitIsOneEntry'
  BY <1>21 DEF CleanTmp
  (* delete_conditioning(). *)
<1>22. ASSUME NEW t \in Threads, UnlinkJson(t) PROVE HitIsOneEntry'
  BY <1>22 DEF UnlinkJson
<1>23. ASSUME NEW t \in Threads, UnlinkSt(t) PROVE HitIsOneEntry'
  BY <1>23 DEF UnlinkSt
  (* gc_orphaned_cache_files(). *)
<1>24. ASSUME NEW t \in Threads, NEW f \in Fps, SweepNext(t, f)
      PROVE  HitIsOneEntry'
  BY <1>24 DEF SweepNext
<1>25. ASSUME NEW t \in Threads, SweepDone(t) PROVE HitIsOneEntry'
  BY <1>25 DEF SweepDone
<1>26. ASSUME NEW t \in Threads, GcTry(t) PROVE HitIsOneEntry'
  BY <1>26 DEF GcTry
<1>27. ASSUME NEW t \in Threads, GcRecheck(t) PROVE HitIsOneEntry'
  BY <1>27 DEF GcRecheck
<1>28. ASSUME NEW t \in Threads, GcUnlink(t) PROVE HitIsOneEntry'
  BY <1>28 DEF GcUnlink
<1>29. ASSUME NEW t \in Threads, GcUnlock(t) PROVE HitIsOneEntry'
  BY <1>29 DEF GcUnlock
  (* Requests, a restart, rest. *)
<1>30. ASSUME NEW t \in Threads, NEW f \in Fps, NEW k \in {"auto", "refresh", "delete"},
             StartOn(t, f, k)
      PROVE  HitIsOneEntry'
  BY <1>30 DEF StartOn, Start
<1>31. ASSUME NEW t \in Threads, StartCheck(t) PROVE HitIsOneEntry'
  BY <1>31 DEF StartCheck, Start
<1>32. ASSUME Crash PROVE HitIsOneEntry'
  BY <1>32 DEF Crash
<1>33. ASSUME Rest \/ UNCHANGED vars PROVE HitIsOneEntry'
  BY <1>33 DEF Rest
<1> HIDE DEF HitIsOneEntry
<1> QED
  BY <1>1, <1>2, <1>3, <1>4, <1>5, <1>6, <1>7, <1>8, <1>9, <1>10, <1>11, <1>12,
     <1>13, <1>14, <1>15, <1>16, <1>17, <1>18, <1>19, <1>20, <1>21, <1>22, <1>23,
     <1>24, <1>25, <1>26, <1>27, <1>28, <1>29, <1>30, <1>31, <1>32, <1>33 DEF Next,
     Step, Request

\* Nobody publishes an entry of a fingerprint while its lock holder encodes it.
LEMMA AutoEncodesOnlyMissesStep ==
    ASSUME NEW owners, Types(owners), Locks, Kinds, Files, Reads, AutoEncodesOnlyMisses, [Next]_vars
    PROVE  AutoEncodesOnlyMisses'
<1> USE DEF AutoEncodesOnlyMisses, Entry, Files, Reads, Locks, Kinds, Runs, Types,
        Absent, Miss, vars, disk, locks, encoders, request, reads, budget, GoTo,
        Fault, Outcome, Pcs, HoldingPcs, LookupPcs, EncoderPcs, SavePcs, GcPcs
  (* The lock of the fingerprint. *)
<1>1. ASSUME NEW t \in Threads, LockFp(t) PROVE AutoEncodesOnlyMisses'
  BY <1>1 DEF LockFp
<1>2. ASSUME NEW t \in Threads, LockTimeout(t) PROVE AutoEncodesOnlyMisses'
  BY <1>2 DEF LockTimeout
<1>3. ASSUME NEW t \in Threads, UnlockFp(t) PROVE AutoEncodesOnlyMisses'
  BY <1>3 DEF UnlockFp
  (* load_conditioning(). *)
<1>4. ASSUME NEW t \in Threads, Lookup(t) PROVE AutoEncodesOnlyMisses'
  BY <1>4 DEF Lookup
<1>5. ASSUME NEW t \in Threads, Heal(t) PROVE AutoEncodesOnlyMisses'
  BY <1>5 DEF Heal
<1>6. ASSUME NEW t \in Threads, ReadJson(t) PROVE AutoEncodesOnlyMisses'
  BY <1>6 DEF ReadJson
<1>7. ASSUME NEW t \in Threads, ReadHeader(t) PROVE AutoEncodesOnlyMisses'
  BY <1>7 DEF ReadHeader
<1>8. ASSUME NEW t \in Threads, LoadFile(t) PROVE AutoEncodesOnlyMisses'
  BY <1>8 DEF LoadFile
<1>9. ASSUME NEW t \in Threads, ReadError(t) PROVE AutoEncodesOnlyMisses'
  BY <1>9 DEF ReadError
<1>10. ASSUME NEW t \in Threads, ValidateHit(t) PROVE AutoEncodesOnlyMisses'
  BY <1>10 DEF ValidateHit
  (* The encoder. *)
<1>11. ASSUME NEW t \in Threads, LockEnc(t) PROVE AutoEncodesOnlyMisses'
  BY <1>11 DEF LockEnc
<1>12. ASSUME NEW t \in Threads, LoadClip(t) PROVE AutoEncodesOnlyMisses'
  BY <1>12 DEF LoadClip
<1>13. ASSUME NEW t \in Threads, Encode(t) PROVE AutoEncodesOnlyMisses'
  BY <1>13 DEF Encode
<1>14. ASSUME NEW t \in Threads, Unload(t) PROVE AutoEncodesOnlyMisses'
  BY <1>14 DEF Unload
<1>15. ASSUME NEW t \in Threads, UnlockEnc(t) PROVE AutoEncodesOnlyMisses'
  BY <1>15 DEF UnlockEnc
<1>16. ASSUME NEW t \in Threads, SafetyNet(t) PROVE AutoEncodesOnlyMisses'
  BY <1>16 DEF SafetyNet
  (* save_conditioning(). *)
<1>17. ASSUME NEW t \in Threads, WriteTmp(t) PROVE AutoEncodesOnlyMisses'
  BY <1>17 DEF WriteTmp
<1>18. ASSUME NEW t \in Threads, WriteTmpJson(t) PROVE AutoEncodesOnlyMisses'
  BY <1>18 DEF WriteTmpJson
<1>19. ASSUME NEW t \in Threads, PublishSt(t) PROVE AutoEncodesOnlyMisses'
  BY <1>19 DEF PublishSt
<1>20. ASSUME NEW t \in Threads, PublishJson(t) PROVE AutoEncodesOnlyMisses'
  BY <1>20 DEF PublishJson
<1>21. ASSUME NEW t \in Threads, CleanTmp(t) PROVE AutoEncodesOnlyMisses'
  BY <1>21 DEF CleanTmp
  (* delete_conditioning(). *)
<1>22. ASSUME NEW t \in Threads, UnlinkJson(t) PROVE AutoEncodesOnlyMisses'
  BY <1>22 DEF UnlinkJson
<1>23. ASSUME NEW t \in Threads, UnlinkSt(t) PROVE AutoEncodesOnlyMisses'
  BY <1>23 DEF UnlinkSt
  (* gc_orphaned_cache_files(). *)
<1>24. ASSUME NEW t \in Threads, NEW f \in Fps, SweepNext(t, f)
      PROVE  AutoEncodesOnlyMisses'
  BY <1>24 DEF SweepNext
<1>25. ASSUME NEW t \in Threads, SweepDone(t) PROVE AutoEncodesOnlyMisses'
  BY <1>25 DEF SweepDone
<1>26. ASSUME NEW t \in Threads, GcTry(t) PROVE AutoEncodesOnlyMisses'
  BY <1>26 DEF GcTry
<1>27. ASSUME NEW t \in Threads, GcRecheck(t) PROVE AutoEncodesOnlyMisses'
  BY <1>27 DEF GcRecheck
<1>28. ASSUME NEW t \in Threads, GcUnlink(t) PROVE AutoEncodesOnlyMisses'
  BY <1>28 DEF GcUnlink
<1>29. ASSUME NEW t \in Threads, GcUnlock(t) PROVE AutoEncodesOnlyMisses'
  BY <1>29 DEF GcUnlock
  (* Requests, a restart, rest. *)
<1>30. ASSUME NEW t \in Threads, NEW f \in Fps, NEW k \in {"auto", "refresh", "delete"},
             StartOn(t, f, k)
      PROVE  AutoEncodesOnlyMisses'
  BY <1>30 DEF StartOn, Start
<1>31. ASSUME NEW t \in Threads, StartCheck(t) PROVE AutoEncodesOnlyMisses'
  BY <1>31 DEF StartCheck, Start
<1>32. ASSUME Crash PROVE AutoEncodesOnlyMisses'
  BY <1>32 DEF Crash
<1>33. ASSUME Rest \/ UNCHANGED vars PROVE AutoEncodesOnlyMisses'
  BY <1>33 DEF Rest
<1> HIDE DEF AutoEncodesOnlyMisses
<1> QED
  BY <1>1, <1>2, <1>3, <1>4, <1>5, <1>6, <1>7, <1>8, <1>9, <1>10, <1>11, <1>12,
     <1>13, <1>14, <1>15, <1>16, <1>17, <1>18, <1>19, <1>20, <1>21, <1>22, <1>23,
     <1>24, <1>25, <1>26, <1>27, <1>28, <1>29, <1>30, <1>31, <1>32, <1>33 DEF Next,
     Step, Request

\* A published generation stays until the lock is released.
LEMMA SavesStep ==
    ASSUME NEW owners, Types(owners), Locks, Files, Saves, [Next]_vars
    PROVE  Saves'
<1> USE DEF Saves, WrittenIsReadable, Entry, Files, Locks, Types, Absent, Miss,
        vars, disk, locks, encoders, request, reads, budget, GoTo, Fault, Outcome,
        Pcs, HoldingPcs, LookupPcs, EncoderPcs, SavePcs, GcPcs
  (* The lock of the fingerprint. *)
<1>1. ASSUME NEW t \in Threads, LockFp(t) PROVE Saves'
  BY <1>1 DEF LockFp
<1>2. ASSUME NEW t \in Threads, LockTimeout(t) PROVE Saves'
  BY <1>2 DEF LockTimeout
<1>3. ASSUME NEW t \in Threads, UnlockFp(t) PROVE Saves'
  BY <1>3 DEF UnlockFp
  (* load_conditioning(). *)
<1>4. ASSUME NEW t \in Threads, Lookup(t) PROVE Saves'
  BY <1>4 DEF Lookup
<1>5. ASSUME NEW t \in Threads, Heal(t) PROVE Saves'
  BY <1>5 DEF Heal
<1>6. ASSUME NEW t \in Threads, ReadJson(t) PROVE Saves'
  BY <1>6 DEF ReadJson
<1>7. ASSUME NEW t \in Threads, ReadHeader(t) PROVE Saves'
  BY <1>7 DEF ReadHeader
<1>8. ASSUME NEW t \in Threads, LoadFile(t) PROVE Saves'
  BY <1>8 DEF LoadFile
<1>9. ASSUME NEW t \in Threads, ReadError(t) PROVE Saves'
  BY <1>9 DEF ReadError
<1>10. ASSUME NEW t \in Threads, ValidateHit(t) PROVE Saves'
  BY <1>10 DEF ValidateHit
  (* The encoder. *)
<1>11. ASSUME NEW t \in Threads, LockEnc(t) PROVE Saves'
  BY <1>11 DEF LockEnc
<1>12. ASSUME NEW t \in Threads, LoadClip(t) PROVE Saves'
  BY <1>12 DEF LoadClip
<1>13. ASSUME NEW t \in Threads, Encode(t) PROVE Saves'
  BY <1>13 DEF Encode
<1>14. ASSUME NEW t \in Threads, Unload(t) PROVE Saves'
  BY <1>14 DEF Unload
<1>15. ASSUME NEW t \in Threads, UnlockEnc(t) PROVE Saves'
  BY <1>15 DEF UnlockEnc
<1>16. ASSUME NEW t \in Threads, SafetyNet(t) PROVE Saves'
  BY <1>16 DEF SafetyNet
  (* save_conditioning(). *)
<1>17. ASSUME NEW t \in Threads, WriteTmp(t) PROVE Saves'
  BY <1>17 DEF WriteTmp
<1>18. ASSUME NEW t \in Threads, WriteTmpJson(t) PROVE Saves'
  BY <1>18 DEF WriteTmpJson
<1>19. ASSUME NEW t \in Threads, PublishSt(t) PROVE Saves'
  BY <1>19 DEF PublishSt
<1>20. ASSUME NEW t \in Threads, PublishJson(t) PROVE Saves'
  BY <1>20 DEF PublishJson
<1>21. ASSUME NEW t \in Threads, CleanTmp(t) PROVE Saves'
  BY <1>21 DEF CleanTmp
  (* delete_conditioning(). *)
<1>22. ASSUME NEW t \in Threads, UnlinkJson(t) PROVE Saves'
  BY <1>22 DEF UnlinkJson
<1>23. ASSUME NEW t \in Threads, UnlinkSt(t) PROVE Saves'
  BY <1>23 DEF UnlinkSt
  (* gc_orphaned_cache_files(). *)
<1>24. ASSUME NEW t \in Threads, NEW f \in Fps, SweepNext(t, f) PROVE Saves'
  BY <1>24 DEF SweepNext
<1>25. ASSUME NEW t \in Threads, SweepDone(t) PROVE Saves'
  BY <1>25 DEF SweepDone
<1>26. ASSUME NEW t \in Threads, GcTry(t) PROVE Saves'
  BY <1>26 DEF GcTry
<1>27. ASSUME NEW t \in Threads, GcRecheck(t) PROVE Saves'
  BY <1>27 DEF GcRecheck
<1>28. ASSUME NEW t \in Threads, GcUnlink(t) PROVE Saves'
  BY <1>28 DEF GcUnlink
<1>29. ASSUME NEW t \in Threads, GcUnlock(t) PROVE Saves'
  BY <1>29 DEF GcUnlock
  (* Requests, a restart, rest. *)
<1>30. ASSUME NEW t \in Threads, NEW f \in Fps, NEW k \in {"auto", "refresh", "delete"},
             StartOn(t, f, k)
      PROVE  Saves'
  BY <1>30 DEF StartOn, Start
<1>31. ASSUME NEW t \in Threads, StartCheck(t) PROVE Saves'
  BY <1>31 DEF StartCheck, Start
<1>32. ASSUME Crash PROVE Saves'
  BY <1>32 DEF Crash
<1>33. ASSUME Rest \/ UNCHANGED vars PROVE Saves'
  BY <1>33 DEF Rest
<1> HIDE DEF Saves
<1> QED
  BY <1>1, <1>2, <1>3, <1>4, <1>5, <1>6, <1>7, <1>8, <1>9, <1>10, <1>11, <1>12,
     <1>13, <1>14, <1>15, <1>16, <1>17, <1>18, <1>19, <1>20, <1>21, <1>22, <1>23,
     <1>24, <1>25, <1>26, <1>27, <1>28, <1>29, <1>30, <1>31, <1>32, <1>33 DEF Next,
     Step, Request

\* An encoder is unloaded before the encoder lock goes, or the run has raised.
LEMMA EncodersStep ==
    ASSUME NEW owners, Types(owners), Kinds, Encoders, [Next]_vars
    PROVE  Encoders'
<1> USE DEF Encoders, Kinds, Runs, Types, Absent, Miss, vars, disk, locks,
        encoders, request, reads, budget, GoTo, Fault, Outcome, Pcs, HoldingPcs,
        LookupPcs, EncoderPcs, SavePcs, GcPcs
  (* The lock of the fingerprint. *)
<1>1. ASSUME NEW t \in Threads, LockFp(t) PROVE Encoders'
  BY <1>1 DEF LockFp
<1>2. ASSUME NEW t \in Threads, LockTimeout(t) PROVE Encoders'
  BY <1>2 DEF LockTimeout
<1>3. ASSUME NEW t \in Threads, UnlockFp(t) PROVE Encoders'
  BY <1>3 DEF UnlockFp
  (* load_conditioning(). *)
<1>4. ASSUME NEW t \in Threads, Lookup(t) PROVE Encoders'
  BY <1>4 DEF Lookup
<1>5. ASSUME NEW t \in Threads, Heal(t) PROVE Encoders'
  BY <1>5 DEF Heal
<1>6. ASSUME NEW t \in Threads, ReadJson(t) PROVE Encoders'
  BY <1>6 DEF ReadJson
<1>7. ASSUME NEW t \in Threads, ReadHeader(t) PROVE Encoders'
  BY <1>7 DEF ReadHeader
<1>8. ASSUME NEW t \in Threads, LoadFile(t) PROVE Encoders'
  BY <1>8 DEF LoadFile
<1>9. ASSUME NEW t \in Threads, ReadError(t) PROVE Encoders'
  BY <1>9 DEF ReadError
<1>10. ASSUME NEW t \in Threads, ValidateHit(t) PROVE Encoders'
  BY <1>10 DEF ValidateHit
  (* The encoder. *)
<1>11. ASSUME NEW t \in Threads, LockEnc(t) PROVE Encoders'
  BY <1>11 DEF LockEnc
<1>12. ASSUME NEW t \in Threads, LoadClip(t) PROVE Encoders'
  BY <1>12 DEF LoadClip
<1>13. ASSUME NEW t \in Threads, Encode(t) PROVE Encoders'
  BY <1>13 DEF Encode
<1>14. ASSUME NEW t \in Threads, Unload(t) PROVE Encoders'
  BY <1>14 DEF Unload
<1>15. ASSUME NEW t \in Threads, UnlockEnc(t) PROVE Encoders'
  BY <1>15 DEF UnlockEnc
<1>16. ASSUME NEW t \in Threads, SafetyNet(t) PROVE Encoders'
  BY <1>16 DEF SafetyNet
  (* save_conditioning(). *)
<1>17. ASSUME NEW t \in Threads, WriteTmp(t) PROVE Encoders'
  BY <1>17 DEF WriteTmp
<1>18. ASSUME NEW t \in Threads, WriteTmpJson(t) PROVE Encoders'
  BY <1>18 DEF WriteTmpJson
<1>19. ASSUME NEW t \in Threads, PublishSt(t) PROVE Encoders'
  BY <1>19 DEF PublishSt
<1>20. ASSUME NEW t \in Threads, PublishJson(t) PROVE Encoders'
  BY <1>20 DEF PublishJson
<1>21. ASSUME NEW t \in Threads, CleanTmp(t) PROVE Encoders'
  BY <1>21 DEF CleanTmp
  (* delete_conditioning(). *)
<1>22. ASSUME NEW t \in Threads, UnlinkJson(t) PROVE Encoders'
  BY <1>22 DEF UnlinkJson
<1>23. ASSUME NEW t \in Threads, UnlinkSt(t) PROVE Encoders'
  BY <1>23 DEF UnlinkSt
  (* gc_orphaned_cache_files(). *)
<1>24. ASSUME NEW t \in Threads, NEW f \in Fps, SweepNext(t, f) PROVE Encoders'
  BY <1>24 DEF SweepNext
<1>25. ASSUME NEW t \in Threads, SweepDone(t) PROVE Encoders'
  BY <1>25 DEF SweepDone
<1>26. ASSUME NEW t \in Threads, GcTry(t) PROVE Encoders'
  BY <1>26 DEF GcTry
<1>27. ASSUME NEW t \in Threads, GcRecheck(t) PROVE Encoders'
  BY <1>27 DEF GcRecheck
<1>28. ASSUME NEW t \in Threads, GcUnlink(t) PROVE Encoders'
  BY <1>28 DEF GcUnlink
<1>29. ASSUME NEW t \in Threads, GcUnlock(t) PROVE Encoders'
  BY <1>29 DEF GcUnlock
  (* Requests, a restart, rest. *)
<1>30. ASSUME NEW t \in Threads, NEW f \in Fps, NEW k \in {"auto", "refresh", "delete"},
             StartOn(t, f, k)
      PROVE  Encoders'
  BY <1>30 DEF StartOn, Start
<1>31. ASSUME NEW t \in Threads, StartCheck(t) PROVE Encoders'
  BY <1>31 DEF StartCheck, Start
<1>32. ASSUME Crash PROVE Encoders'
  BY <1>32 DEF Crash
<1>33. ASSUME Rest \/ UNCHANGED vars PROVE Encoders'
  BY <1>33 DEF Rest
<1> HIDE DEF Encoders
<1> QED
  BY <1>1, <1>2, <1>3, <1>4, <1>5, <1>6, <1>7, <1>8, <1>9, <1>10, <1>11, <1>12,
     <1>13, <1>14, <1>15, <1>16, <1>17, <1>18, <1>19, <1>20, <1>21, <1>22, <1>23,
     <1>24, <1>25, <1>26, <1>27, <1>28, <1>29, <1>30, <1>31, <1>32, <1>33 DEF Next,
     Step, Request

\* A wrong checkpoint never reaches a save.
LEMMA WrongStep ==
    ASSUME NEW owners, Types(owners), Wrong, [Next]_vars
    PROVE  Wrong'
<1> USE ConstantsAssumption DEF Wrong, WrongNeverStored, TmpOf, TmpFiles, Types,
        Absent, Miss, vars, disk, locks, encoders, request, reads, budget, GoTo,
        Fault, Outcome, Pcs, HoldingPcs, LookupPcs, EncoderPcs, SavePcs, GcPcs
  (* The lock of the fingerprint. *)
<1>1. ASSUME NEW t \in Threads, LockFp(t) PROVE Wrong'
  BY <1>1 DEF LockFp
<1>2. ASSUME NEW t \in Threads, LockTimeout(t) PROVE Wrong'
  BY <1>2 DEF LockTimeout
<1>3. ASSUME NEW t \in Threads, UnlockFp(t) PROVE Wrong'
  BY <1>3 DEF UnlockFp
  (* load_conditioning(). *)
<1>4. ASSUME NEW t \in Threads, Lookup(t) PROVE Wrong'
  BY <1>4 DEF Lookup
<1>5. ASSUME NEW t \in Threads, Heal(t) PROVE Wrong'
  BY <1>5 DEF Heal
<1>6. ASSUME NEW t \in Threads, ReadJson(t) PROVE Wrong'
  BY <1>6 DEF ReadJson
<1>7. ASSUME NEW t \in Threads, ReadHeader(t) PROVE Wrong'
  BY <1>7 DEF ReadHeader
<1>8. ASSUME NEW t \in Threads, LoadFile(t) PROVE Wrong'
  BY <1>8 DEF LoadFile
<1>9. ASSUME NEW t \in Threads, ReadError(t) PROVE Wrong'
  BY <1>9 DEF ReadError
<1>10. ASSUME NEW t \in Threads, ValidateHit(t) PROVE Wrong'
  BY <1>10 DEF ValidateHit
  (* The encoder. *)
<1>11. ASSUME NEW t \in Threads, LockEnc(t) PROVE Wrong'
  BY <1>11 DEF LockEnc
<1>12. ASSUME NEW t \in Threads, LoadClip(t) PROVE Wrong'
  BY <1>12 DEF LoadClip
<1>13. ASSUME NEW t \in Threads, Encode(t) PROVE Wrong'
  BY <1>13 DEF Encode
<1>14. ASSUME NEW t \in Threads, Unload(t) PROVE Wrong'
  BY <1>14 DEF Unload
<1>15. ASSUME NEW t \in Threads, UnlockEnc(t) PROVE Wrong'
  BY <1>15 DEF UnlockEnc
<1>16. ASSUME NEW t \in Threads, SafetyNet(t) PROVE Wrong'
  BY <1>16 DEF SafetyNet
  (* save_conditioning(). *)
<1>17. ASSUME NEW t \in Threads, WriteTmp(t) PROVE Wrong'
  BY <1>17 DEF WriteTmp
<1>18. ASSUME NEW t \in Threads, WriteTmpJson(t) PROVE Wrong'
  BY <1>18 DEF WriteTmpJson
<1>19. ASSUME NEW t \in Threads, PublishSt(t) PROVE Wrong'
  BY <1>19 DEF PublishSt
<1>20. ASSUME NEW t \in Threads, PublishJson(t) PROVE Wrong'
  BY <1>20 DEF PublishJson
<1>21. ASSUME NEW t \in Threads, CleanTmp(t) PROVE Wrong'
  BY <1>21 DEF CleanTmp
  (* delete_conditioning(). *)
<1>22. ASSUME NEW t \in Threads, UnlinkJson(t) PROVE Wrong'
  BY <1>22 DEF UnlinkJson
<1>23. ASSUME NEW t \in Threads, UnlinkSt(t) PROVE Wrong'
  BY <1>23 DEF UnlinkSt
  (* gc_orphaned_cache_files(). *)
<1>24. ASSUME NEW t \in Threads, NEW f \in Fps, SweepNext(t, f) PROVE Wrong'
  BY <1>24 DEF SweepNext
<1>25. ASSUME NEW t \in Threads, SweepDone(t) PROVE Wrong'
  BY <1>25 DEF SweepDone
<1>26. ASSUME NEW t \in Threads, GcTry(t) PROVE Wrong'
  BY <1>26 DEF GcTry
<1>27. ASSUME NEW t \in Threads, GcRecheck(t) PROVE Wrong'
  BY <1>27 DEF GcRecheck
<1>28. ASSUME NEW t \in Threads, GcUnlink(t) PROVE Wrong'
  BY <1>28 DEF GcUnlink
<1>29. ASSUME NEW t \in Threads, GcUnlock(t) PROVE Wrong'
  BY <1>29 DEF GcUnlock
  (* Requests, a restart, rest. *)
<1>30. ASSUME NEW t \in Threads, NEW f \in Fps, NEW k \in {"auto", "refresh", "delete"},
             StartOn(t, f, k)
      PROVE  Wrong'
  BY <1>30 DEF StartOn, Start
<1>31. ASSUME NEW t \in Threads, StartCheck(t) PROVE Wrong'
  BY <1>31 DEF StartCheck, Start
<1>32. ASSUME Crash PROVE Wrong'
  BY <1>32 DEF Crash
<1>33. ASSUME Rest \/ UNCHANGED vars PROVE Wrong'
  BY <1>33 DEF Rest
<1> HIDE DEF Wrong
<1> QED
  BY <1>1, <1>2, <1>3, <1>4, <1>5, <1>6, <1>7, <1>8, <1>9, <1>10, <1>11, <1>12,
     <1>13, <1>14, <1>15, <1>16, <1>17, <1>18, <1>19, <1>20, <1>21, <1>22, <1>23,
     <1>24, <1>25, <1>26, <1>27, <1>28, <1>29, <1>30, <1>31, <1>32, <1>33 DEF Next,
     Step, Request

\* A generation belongs to a save until its run ends.
LEMMA GensStep ==
    ASSUME NEW owners, Types(owners), Kinds, Gens, [Next]_vars
    PROVE  Gens'
<1> USE ConstantsAssumption DEF Gens, Kinds, Runs, Types, Absent, Miss, vars, disk,
        locks, encoders, request, reads, budget, GoTo, Fault, Outcome, Pcs,
        HoldingPcs, LookupPcs, EncoderPcs, SavePcs, GcPcs
  (* The lock of the fingerprint. *)
<1>1. ASSUME NEW t \in Threads, LockFp(t) PROVE Gens'
  BY <1>1 DEF LockFp
<1>2. ASSUME NEW t \in Threads, LockTimeout(t) PROVE Gens'
  BY <1>2 DEF LockTimeout
<1>3. ASSUME NEW t \in Threads, UnlockFp(t) PROVE Gens'
  BY <1>3 DEF UnlockFp
  (* load_conditioning(). *)
<1>4. ASSUME NEW t \in Threads, Lookup(t) PROVE Gens'
  BY <1>4 DEF Lookup
<1>5. ASSUME NEW t \in Threads, Heal(t) PROVE Gens'
  BY <1>5 DEF Heal
<1>6. ASSUME NEW t \in Threads, ReadJson(t) PROVE Gens'
  BY <1>6 DEF ReadJson
<1>7. ASSUME NEW t \in Threads, ReadHeader(t) PROVE Gens'
  BY <1>7 DEF ReadHeader
<1>8. ASSUME NEW t \in Threads, LoadFile(t) PROVE Gens'
  BY <1>8 DEF LoadFile
<1>9. ASSUME NEW t \in Threads, ReadError(t) PROVE Gens'
  BY <1>9 DEF ReadError
<1>10. ASSUME NEW t \in Threads, ValidateHit(t) PROVE Gens'
  BY <1>10 DEF ValidateHit
  (* The encoder. *)
<1>11. ASSUME NEW t \in Threads, LockEnc(t) PROVE Gens'
  BY <1>11 DEF LockEnc
<1>12. ASSUME NEW t \in Threads, LoadClip(t) PROVE Gens'
  BY <1>12 DEF LoadClip
<1>13. ASSUME NEW t \in Threads, Encode(t) PROVE Gens'
  BY <1>13 DEF Encode
<1>14. ASSUME NEW t \in Threads, Unload(t) PROVE Gens'
  BY <1>14 DEF Unload
<1>15. ASSUME NEW t \in Threads, UnlockEnc(t) PROVE Gens'
  BY <1>15 DEF UnlockEnc
<1>16. ASSUME NEW t \in Threads, SafetyNet(t) PROVE Gens'
  BY <1>16 DEF SafetyNet
  (* save_conditioning(). *)
<1>17. ASSUME NEW t \in Threads, WriteTmp(t) PROVE Gens'
  BY <1>17 DEF WriteTmp
<1>18. ASSUME NEW t \in Threads, WriteTmpJson(t) PROVE Gens'
  BY <1>18 DEF WriteTmpJson
<1>19. ASSUME NEW t \in Threads, PublishSt(t) PROVE Gens'
  BY <1>19 DEF PublishSt
<1>20. ASSUME NEW t \in Threads, PublishJson(t) PROVE Gens'
  BY <1>20 DEF PublishJson
<1>21. ASSUME NEW t \in Threads, CleanTmp(t) PROVE Gens'
  BY <1>21 DEF CleanTmp
  (* delete_conditioning(). *)
<1>22. ASSUME NEW t \in Threads, UnlinkJson(t) PROVE Gens'
  BY <1>22 DEF UnlinkJson
<1>23. ASSUME NEW t \in Threads, UnlinkSt(t) PROVE Gens'
  BY <1>23 DEF UnlinkSt
  (* gc_orphaned_cache_files(). *)
<1>24. ASSUME NEW t \in Threads, NEW f \in Fps, SweepNext(t, f) PROVE Gens'
  BY <1>24 DEF SweepNext
<1>25. ASSUME NEW t \in Threads, SweepDone(t) PROVE Gens'
  BY <1>25 DEF SweepDone
<1>26. ASSUME NEW t \in Threads, GcTry(t) PROVE Gens'
  BY <1>26 DEF GcTry
<1>27. ASSUME NEW t \in Threads, GcRecheck(t) PROVE Gens'
  BY <1>27 DEF GcRecheck
<1>28. ASSUME NEW t \in Threads, GcUnlink(t) PROVE Gens'
  BY <1>28 DEF GcUnlink
<1>29. ASSUME NEW t \in Threads, GcUnlock(t) PROVE Gens'
  BY <1>29 DEF GcUnlock
  (* Requests, a restart, rest. *)
<1>30. ASSUME NEW t \in Threads, NEW f \in Fps, NEW k \in {"auto", "refresh", "delete"},
             StartOn(t, f, k)
      PROVE  Gens'
  BY <1>30 DEF StartOn, Start
<1>31. ASSUME NEW t \in Threads, StartCheck(t) PROVE Gens'
  BY <1>31 DEF StartCheck, Start
<1>32. ASSUME Crash PROVE Gens'
  BY <1>32 DEF Crash
<1>33. ASSUME Rest \/ UNCHANGED vars PROVE Gens'
  BY <1>33 DEF Rest
<1> HIDE DEF Gens
<1> QED
  BY <1>1, <1>2, <1>3, <1>4, <1>5, <1>6, <1>7, <1>8, <1>9, <1>10, <1>11, <1>12,
     <1>13, <1>14, <1>15, <1>16, <1>17, <1>18, <1>19, <1>20, <1>21, <1>22, <1>23,
     <1>24, <1>25, <1>26, <1>27, <1>28, <1>29, <1>30, <1>31, <1>32, <1>33 DEF Next,
     Step, Request

\* A step of a thread that is in no save, and enters none past its beginning,
\* leaves the accounts of the temp files alone.
LEMMA TempsFrame ==
    ASSUME NEW owners, Types(owners), Temps, NEW t \in Threads, pc[t] \notin SavePcs,
           pc'[t] # "publishJson", tmp' = tmp, Types(owners)',
           \A u \in Threads \ {t} : pc'[u] = pc[u] /\ fp'[u] = fp[u] /\ gen'[u] = gen[u],
           faultsLeft' <= faultsLeft, crashesLeft' = crashesLeft
    PROVE  Temps'
<1> USE ConstantsAssumption DEF Types
<1>1. (\A x \in tmp : x.gen # Absent)'
  BY DEF Temps, Absent
<1>2. (\A u \in Threads : pc[u] = "publishJson" => TmpOf(u, "st") \notin tmp)'
  BY DEF Temps, TmpOf
<1>3. ASSUME (crashesLeft = MaxCrashes)', (faultsLeft + 1 >= MaxFaults)', NEW x \in tmp
      PROVE  \E u \in Threads : pc'[u] \in SavePcs /\ fp'[u] = x.fp /\ gen'[u] = x.gen
  <2>1. crashesLeft = MaxCrashes /\ faultsLeft + 1 >= MaxFaults
    BY <1>3
  <2>2. PICK u \in Threads : pc[u] \in SavePcs /\ fp[u] = x.fp /\ gen[u] = x.gen
    BY <2>1 DEF Temps, TmpAccounted
  <2> QED
    BY <2>2
<1> QED
  BY <1>1, <1>2, <1>3 DEF Temps, TmpAccounted

\* A step of a save accounts for its temp files: it stays in the save, or leaves
\* it without any.
LEMMA TempsSave ==
    ASSUME NEW owners, Types(owners), Temps, NEW t \in Threads, pc[t] \in SavePcs,
           gen[t] # Absent, Types(owners)', fp' = fp, gen' = gen,
           \A u \in Threads \ {t} : pc'[u] = pc[u],
           tmp' \subseteq tmp \cup {TmpOf(t, "json")},
           pc'[t] = "publishJson" => TmpOf(t, "st") \notin tmp',
           pc'[t] \notin SavePcs => {TmpOf(t, "st"), TmpOf(t, "json")} \cap tmp' = {},
           faultsLeft' <= faultsLeft, crashesLeft' = crashesLeft
    PROVE  Temps'
<1> USE ConstantsAssumption DEF Types
<1>1. (\A x \in tmp : x.gen # Absent)'
  BY DEF Temps, TmpOf
<1>2. (\A u \in Threads : pc[u] = "publishJson" => TmpOf(u, "st") \notin tmp)'
  <2> SUFFICES ASSUME NEW u \in Threads, pc'[u] = "publishJson", u # t
               PROVE  TmpOf(u, "st")' \notin tmp'
    BY DEF TmpOf
  <2>1. TmpOf(u, "st") \notin tmp
    BY DEF Temps
  <2>2. TmpOf(u, "st")' = TmpOf(u, "st") /\ TmpOf(u, "st") # TmpOf(t, "json")
    BY DEF TmpOf
  <2> QED
    BY <2>1, <2>2
<1>3. ASSUME (crashesLeft = MaxCrashes)', (faultsLeft + 1 >= MaxFaults)', NEW x \in tmp'
      PROVE  \E u \in Threads : pc'[u] \in SavePcs /\ fp'[u] = x.fp /\ gen'[u] = x.gen
  <2>1. crashesLeft = MaxCrashes /\ faultsLeft + 1 >= MaxFaults
    BY <1>3
  <2>2. PICK u \in Threads : pc[u] \in SavePcs /\ fp[u] = x.fp /\ gen[u] = x.gen
    <3>1. CASE x \in tmp
      BY <2>1, <3>1 DEF Temps, TmpAccounted
    <3>2. CASE x = TmpOf(t, "json")
      BY <3>2 DEF TmpOf
    <3> QED
      BY <1>3, <3>1, <3>2
  <2>3. CASE u = t /\ pc'[t] \notin SavePcs
    <3>1. x \in TmpFiles
      BY <1>3
    <3>2. x.kind \in {"st", "json"} /\ x = [fp |-> x.fp, gen |-> x.gen, kind |-> x.kind]
      BY <3>1 DEF TmpFiles
    <3>3. x = TmpOf(t, x.kind)
      BY <2>2, <2>3, <3>2 DEF TmpOf
    <3> QED
      BY <1>3, <2>3, <3>2, <3>3
  <2> QED
    BY <2>2, <2>3
<1> QED
  BY <1>1, <1>2, <1>3 DEF Temps, TmpAccounted

\* A temp file belongs to a save in progress, or a second call has failed.
LEMMA TempsStep ==
    ASSUME NEW owners, Types(owners), Locks, Files, Gens, Temps, [Next]_vars, Types(owners)'
    PROVE  Temps'
<1> USE ConstantsAssumption DEF Absent, Miss, SavePcs, vars, disk, locks, encoders,
        request, reads, budget, GoTo, Fault, Outcome
<1>0. /\ pc \in [Threads -> Pcs] /\ fp \in [Threads -> Fps] /\ gen \in [Threads -> Nat]
      /\ faultsLeft \in Nat /\ crashesLeft \in Nat
  BY DEF Types
  (* The lock of the fingerprint. *)
<1>1. ASSUME NEW t \in Threads, LockFp(t) PROVE Temps'
  BY <1>0, <1>1, TempsFrame DEF LockFp
<1>2. ASSUME NEW t \in Threads, LockTimeout(t) PROVE Temps'
  BY <1>0, <1>2, TempsFrame DEF LockTimeout
<1>3. ASSUME NEW t \in Threads, UnlockFp(t) PROVE Temps'
  BY <1>0, <1>3, TempsFrame DEF UnlockFp
  (* load_conditioning(). *)
<1>4. ASSUME NEW t \in Threads, Lookup(t) PROVE Temps'
  BY <1>0, <1>4, TempsFrame DEF Lookup
<1>5. ASSUME NEW t \in Threads, Heal(t) PROVE Temps'
  BY <1>0, <1>5, TempsFrame DEF Heal
<1>6. ASSUME NEW t \in Threads, ReadJson(t) PROVE Temps'
  BY <1>0, <1>6, TempsFrame DEF ReadJson
<1>7. ASSUME NEW t \in Threads, ReadHeader(t) PROVE Temps'
  BY <1>0, <1>7, TempsFrame DEF ReadHeader
<1>8. ASSUME NEW t \in Threads, LoadFile(t) PROVE Temps'
  BY <1>0, <1>8, TempsFrame DEF LoadFile
<1>9. ASSUME NEW t \in Threads, ReadError(t) PROVE Temps'
  BY <1>0, <1>9, TempsFrame DEF ReadError
<1>10. ASSUME NEW t \in Threads, ValidateHit(t) PROVE Temps'
  BY <1>0, <1>10, TempsFrame DEF ValidateHit
  (* The encoder. *)
<1>11. ASSUME NEW t \in Threads, LockEnc(t) PROVE Temps'
  BY <1>0, <1>11, TempsFrame DEF LockEnc
<1>12. ASSUME NEW t \in Threads, LoadClip(t) PROVE Temps'
  BY <1>0, <1>12, TempsFrame DEF LoadClip
<1>13. ASSUME NEW t \in Threads, Encode(t) PROVE Temps'
  BY <1>0, <1>13, TempsFrame DEF Encode
<1>14. ASSUME NEW t \in Threads, Unload(t) PROVE Temps'
  BY <1>0, <1>14, TempsFrame DEF Unload
<1>15. ASSUME NEW t \in Threads, UnlockEnc(t) PROVE Temps'
  BY <1>0, <1>15, TempsFrame DEF UnlockEnc
<1>16. ASSUME NEW t \in Threads, SafetyNet(t) PROVE Temps'
  BY <1>0, <1>16, TempsFrame DEF SafetyNet
  (* save_conditioning(). *)
<1>17. ASSUME NEW t \in Threads, WriteTmp(t) PROVE Temps'
  <2> DEFINE new == [fp |-> fp[t], gen |-> drawn[fp[t]] + 1, kind |-> "st"]
  <2>1. /\ tmp' = tmp \cup {new} /\ fp' = fp /\ gen' = [gen EXCEPT ![t] = drawn[fp[t]] + 1]
        /\ pc' \in {[pc EXCEPT ![t] = "writeTmpJson"], [pc EXCEPT ![t] = "cleanTmp"]}
        /\ gen[t] = 0 /\ drawn[fp[t]] \in Nat
    BY <1>0, <1>17 DEF WriteTmp, Gens, Types
  <2>2. (crashesLeft = MaxCrashes /\ faultsLeft + 1 >= MaxFaults)'
           => crashesLeft = MaxCrashes /\ faultsLeft + 1 >= MaxFaults
    <3>1. /\ faultsLeft' = faultsLeft \/ faultsLeft' = faultsLeft - 1
          /\ crashesLeft' = crashesLeft
      BY <1>17 DEF WriteTmp
    <3>2. MaxFaults \in Nat /\ faultsLeft \in Nat
      BY <1>0
    <3> QED
      BY <3>1, <3>2
  <2>3. (\A x \in tmp : x.gen # Absent)'
    BY <2>1 DEF Temps
  <2>4. (\A u \in Threads : pc[u] = "publishJson" => TmpOf(u, "st") \notin tmp)'
    <3> SUFFICES ASSUME NEW u \in Threads, pc'[u] = "publishJson"
                 PROVE  TmpOf(u, "st")' \notin tmp'
      BY DEF TmpOf
    <3>1. u # t /\ pc[u] = "publishJson"
      BY <1>0, <2>1
    <3>2. TmpOf(u, "st")' = TmpOf(u, "st") /\ TmpOf(u, "st") \notin tmp
      BY <1>0, <2>1, <3>1 DEF TmpOf, Temps
    <3>3. gen[u] = drawn[fp[u]]
      BY <3>1 DEF Files
    <3>4. TmpOf(u, "st") # new
      BY <2>1, <3>3 DEF TmpOf
    <3> QED
      BY <2>1, <3>2, <3>4
  <2>5. ASSUME (crashesLeft = MaxCrashes)', (faultsLeft + 1 >= MaxFaults)', NEW x \in tmp'
        PROVE  \E u \in Threads : pc'[u] \in SavePcs /\ fp'[u] = x.fp /\ gen'[u] = x.gen
    <3>1. CASE x = new
      <4>1. pc'[t] \in SavePcs /\ fp'[t] = fp[t] /\ gen'[t] = drawn[fp[t]] + 1
        BY <1>0, <2>1
      <4>2. x.fp = fp[t] /\ x.gen = drawn[fp[t]] + 1
        BY <3>1
      <4> QED
        BY <4>1, <4>2
    <3>2. CASE x \in tmp
      <4>1. crashesLeft = MaxCrashes /\ faultsLeft + 1 >= MaxFaults
        BY <2>2, <2>5
      <4>2. PICK u \in Threads : pc[u] \in SavePcs /\ fp[u] = x.fp /\ gen[u] = x.gen
        BY <3>2, <4>1 DEF Temps, TmpAccounted
      <4>3. u # t
        BY <2>1, <3>2, <4>2 DEF Temps
      <4>4. pc'[u] = pc[u] /\ fp'[u] = fp[u] /\ gen'[u] = gen[u]
        BY <1>0, <2>1, <4>3
      <4> QED
        BY <4>2, <4>4
    <3> QED
      BY <2>1, <2>5, <3>1, <3>2
  <2> QED
    BY <2>3, <2>4, <2>5 DEF Temps, TmpAccounted
<1>18. ASSUME NEW t \in Threads, WriteTmpJson(t) PROVE Temps'
  <2>1. pc[t] \in SavePcs /\ gen[t] # Absent /\ TmpOf(t, "st") # TmpOf(t, "json")
    BY <1>18 DEF WriteTmpJson, Gens, Files, TmpOf
  <2> QED
    BY <1>0, <1>18, <2>1, TempsSave DEF WriteTmpJson, Temps
<1>19. ASSUME NEW t \in Threads, PublishSt(t) PROVE Temps'
  <2>1. pc[t] \in SavePcs /\ gen[t] # Absent /\ TmpOf(t, "st") # TmpOf(t, "json")
    BY <1>19 DEF PublishSt, Gens, Files, TmpOf
  <2> QED
    BY <1>0, <1>19, <2>1, TempsSave DEF PublishSt, Temps
<1>20. ASSUME NEW t \in Threads, PublishJson(t) PROVE Temps'
  <2>1. pc[t] \in SavePcs /\ gen[t] # Absent /\ TmpOf(t, "st") # TmpOf(t, "json")
    BY <1>20 DEF PublishJson, Gens, Files, TmpOf
  <2> QED
    BY <1>0, <1>20, <2>1, TempsSave DEF PublishJson, Temps
<1>21. ASSUME NEW t \in Threads, CleanTmp(t) PROVE Temps'
  BY <1>21 DEF CleanTmp, Types, Pcs, HoldingPcs, Temps, TmpAccounted, TmpOf, TmpFiles,
     Files, Locks, Gens
  (* delete_conditioning(). *)
<1>22. ASSUME NEW t \in Threads, UnlinkJson(t) PROVE Temps'
  BY <1>0, <1>22, TempsFrame DEF UnlinkJson
<1>23. ASSUME NEW t \in Threads, UnlinkSt(t) PROVE Temps'
  BY <1>0, <1>23, TempsFrame DEF UnlinkSt
  (* gc_orphaned_cache_files(). *)
<1>24. ASSUME NEW t \in Threads, NEW f \in Fps, SweepNext(t, f) PROVE Temps'
  BY <1>0, <1>24, TempsFrame DEF SweepNext
<1>25. ASSUME NEW t \in Threads, SweepDone(t) PROVE Temps'
  BY <1>0, <1>25, TempsFrame DEF SweepDone
<1>26. ASSUME NEW t \in Threads, GcTry(t) PROVE Temps'
  BY <1>0, <1>26, TempsFrame DEF GcTry
<1>27. ASSUME NEW t \in Threads, GcRecheck(t) PROVE Temps'
  BY <1>0, <1>27, TempsFrame DEF GcRecheck
<1>28. ASSUME NEW t \in Threads, GcUnlink(t) PROVE Temps'
  BY <1>0, <1>28, TempsFrame DEF GcUnlink
<1>29. ASSUME NEW t \in Threads, GcUnlock(t) PROVE Temps'
  BY <1>0, <1>29, TempsFrame DEF GcUnlock
  (* Requests, a restart, rest. *)
<1>30. ASSUME NEW t \in Threads, NEW f \in Fps, NEW k \in {"auto", "refresh", "delete"},
             StartOn(t, f, k)
      PROVE  Temps'
  BY <1>0, <1>30, TempsFrame DEF StartOn, Start
<1>31. ASSUME NEW t \in Threads, StartCheck(t) PROVE Temps'
  BY <1>0, <1>31, TempsFrame DEF StartCheck, Start
<1>32. ASSUME Crash PROVE Temps'
  BY <1>32 DEF Crash, Types, Pcs, HoldingPcs, Temps, TmpAccounted, TmpOf, TmpFiles,
     Files, Locks, Gens
<1>33. ASSUME Rest \/ UNCHANGED vars PROVE Temps'
  BY <1>33 DEF Rest, Types, Pcs, HoldingPcs, Temps, TmpAccounted, TmpOf, TmpFiles,
     Files, Locks, Gens
<1> HIDE DEF Temps
<1> QED
  BY <1>1, <1>2, <1>3, <1>4, <1>5, <1>6, <1>7, <1>8, <1>9, <1>10, <1>11, <1>12,
     <1>13, <1>14, <1>15, <1>16, <1>17, <1>18, <1>19, <1>20, <1>21, <1>22, <1>23,
     <1>24, <1>25, <1>26, <1>27, <1>28, <1>29, <1>30, <1>31, <1>32, <1>33 DEF Next,
     Step, Request

\* The cache directory starts empty and every thread idle.
LEMMA InitIInv == Init => IInv
<1> SUFFICES ASSUME Init PROVE IInv
  OBVIOUS
<1> USE ConstantsAssumption DEF Init, Absent
<1>1. Types(Threads \cup {NoThread})
  <2>1. (CHOOSE f \in Fps : TRUE) \in Fps
    OBVIOUS
  <2> QED
    BY <2>1 DEF Types, Pcs, Ops, Results
<1>2. Locks /\ Kinds /\ Files
  BY DEF Locks, Kinds, Files, SkeletonNeverAlone, HoldingPcs, LookupPcs, EncoderPcs,
         SavePcs, GcPcs
<1>3. Reads /\ HitIsOneEntry /\ AutoEncodesOnlyMisses /\ Saves
  BY DEF Reads, HitIsOneEntry, AutoEncodesOnlyMisses, Saves, WrittenIsReadable
<1>4. Encoders /\ Wrong /\ Gens /\ Temps
  BY DEF Encoders, Wrong, WrongNeverStored, Gens, Temps, TmpAccounted, SavePcs
<1> QED
  BY <1>1, <1>2, <1>3, <1>4 DEF IInv, Core

\* No step leaves Core, whoever else may own a lock.
LEMMA CoreStep ==
    ASSUME NEW owners, Threads \cup {NoThread} \subseteq owners, Core(owners), [Next]_vars
    PROVE  Core(owners)'
<1> USE DEF Core
<1>1. Types(owners)'
  BY TypeStep
<1>2. Locks' /\ Kinds' /\ Files' /\ Reads' /\ HitIsOneEntry'
  BY LocksStep, KindsStep, FilesStep, ReadsStep, HitIsOneEntryStep
<1>3. AutoEncodesOnlyMisses' /\ Saves' /\ Encoders' /\ Wrong' /\ Gens'
  BY AutoEncodesOnlyMissesStep, SavesStep, EncodersStep, WrongStep, GensStep
<1>4. Temps'
  BY TempsStep, <1>1
<1> QED
  BY <1>1, <1>2, <1>3, <1>4

\* In particular no step of ClipCache leaves IInv.
LEMMA NextIInv == IInv /\ [Next]_vars => IInv'
  BY CoreStep DEF IInv

-----------------------------------------------------------------------------
(* Theorems.                                                               *)

\* IInv holds throughout every behaviour.
THEOREM Invariance == Spec => []IInv
  BY InitIInv, NextIInv, PTL DEF Spec

\* Every variable keeps its type, however many requests, faults and restarts.
THEOREM TypeCorrect == Spec => []TypeOK
<1>1. IInv => TypeOK
  BY DEF IInv, Core, Types, TypeOK
<1> QED
  BY Invariance, <1>1, PTL

\* A HIT is one whole entry, the one on disk when the run returns it.
THEOREM HitsAreWhole == Spec => []HitIsOneEntry
<1>1. IInv => HitIsOneEntry
  BY DEF IInv, Core
<1> QED
  BY Invariance, <1>1, PTL

\* Racing auto runs of a fingerprint never both encode it: who encodes does so
\* while there is no readable entry.
THEOREM NoRedundantEncode == Spec => []AutoEncodesOnlyMisses
<1>1. IInv => AutoEncodesOnlyMisses
  BY DEF IInv, Core
<1> QED
  BY Invariance, <1>1, PTL

\* Publishing tensors first and removing them last, under the lock, keeps every
\* skeleton over tensors at least as new, through crashes at any step.
THEOREM SkeletonsHaveTensors == Spec => []SkeletonNeverAlone
<1>1. IInv => SkeletonNeverAlone
  BY DEF IInv, Core, Files
<1> QED
  BY Invariance, <1>1, PTL

\* A save that claims success left a readable entry of its own generation.
THEOREM SavesAreReadable == Spec => []WrittenIsReadable
<1>1. IInv => WrittenIsReadable
  BY DEF IInv, Core, Saves
<1> QED
  BY Invariance, <1>1, PTL

\* Nothing a wrong checkpoint encoded reaches the disk.
THEOREM WrongCheckpointsStayOut == Spec => []WrongNeverStored
<1>1. IInv => WrongNeverStored
  BY DEF IInv, Core, Wrong
<1> QED
  BY Invariance, <1>1, PTL

\* One failing call leaks no temp file.
THEOREM OneFaultLeaksNothing == Spec => []TmpAccounted
<1>1. IInv => TmpAccounted
  BY DEF IInv, Core, Temps
<1> QED
  BY Invariance, <1>1, PTL

\* A resident encoder implies the encoder lock, which has one owner.
LEMMA EncodersAreOne ==
    ASSUME NEW owners, Core(owners)
    PROVE  OneEncoder
<1> SUFFICES ASSUME unloadFails = 0
             PROVE  stuck = 0 /\ Cardinality(resident) <= 1
  BY DEF OneEncoder
<1>1. stuck = 0
  BY DEF Core, Encoders
<1>2. resident \subseteq {encLock}
  BY DEF Core, Encoders, Locks, EncoderPcs, Types
<1>3. IsFiniteSet({encLock}) /\ Cardinality({encLock}) = 1
  BY FS_Singleton
<1>4. Cardinality(resident) <= Cardinality({encLock})
  BY <1>2, <1>3, FS_Subset
<1> QED
  BY <1>1, <1>3, <1>4

\* As long as every unload works there is one encoder at most.
THEOREM AtMostOneEncoder == Spec => []OneEncoder
<1>1. IInv => OneEncoder
  BY EncodersAreOne DEF IInv
<1> QED
  BY Invariance, <1>1, PTL

\* An encoder that outlives the encoder lock belongs to a run that raises.
THEOREM UnloadFailuresAreLoud == Spec => []ResidentEncoderIsLoud
<1>1. IInv => ResidentEncoderIsLoud
  BY DEF IInv, Core, Encoders, ResidentEncoderIsLoud, EncoderPcs
<1> QED
  BY Invariance, <1>1, PTL

-----------------------------------------------------------------------------
(* What a step may do to an entry.                                         *)

LossIsIntended ==
    \A f \in Fps : (Entry(f) # Absent /\ Entry(f)' = Absent) =>
        \E t \in Threads : fp[t] = f /\ fpLock[f] = t /\ op[t] \in {"refresh", "delete"}

\* Who destroys a readable entry is a Delete or a refresh, and holds its lock.
LEMMA LossStep ==
    ASSUME NEW owners, Types(owners), Locks, Kinds, Files, AutoEncodesOnlyMisses, [Next]_vars
    PROVE  LossIsIntended
<1> USE DEF LossIsIntended, Entry, Locks, Kinds, Files, Runs, AutoEncodesOnlyMisses,
        SkeletonNeverAlone, Types, Absent, Miss, vars, disk, locks, encoders,
        request, reads, budget, GoTo, Fault, Outcome, Pcs, HoldingPcs, LookupPcs,
        EncoderPcs, SavePcs, GcPcs
  (* The lock of the fingerprint. *)
<1>1. ASSUME NEW t \in Threads, LockFp(t) PROVE LossIsIntended
  BY <1>1 DEF LockFp
<1>2. ASSUME NEW t \in Threads, LockTimeout(t) PROVE LossIsIntended
  BY <1>2 DEF LockTimeout
<1>3. ASSUME NEW t \in Threads, UnlockFp(t) PROVE LossIsIntended
  BY <1>3 DEF UnlockFp
  (* load_conditioning(). *)
<1>4. ASSUME NEW t \in Threads, Lookup(t) PROVE LossIsIntended
  BY <1>4 DEF Lookup
<1>5. ASSUME NEW t \in Threads, Heal(t) PROVE LossIsIntended
  BY <1>5 DEF Heal
<1>6. ASSUME NEW t \in Threads, ReadJson(t) PROVE LossIsIntended
  BY <1>6 DEF ReadJson
<1>7. ASSUME NEW t \in Threads, ReadHeader(t) PROVE LossIsIntended
  BY <1>7 DEF ReadHeader
<1>8. ASSUME NEW t \in Threads, LoadFile(t) PROVE LossIsIntended
  BY <1>8 DEF LoadFile
<1>9. ASSUME NEW t \in Threads, ReadError(t) PROVE LossIsIntended
  BY <1>9 DEF ReadError
<1>10. ASSUME NEW t \in Threads, ValidateHit(t) PROVE LossIsIntended
  BY <1>10 DEF ValidateHit
  (* The encoder. *)
<1>11. ASSUME NEW t \in Threads, LockEnc(t) PROVE LossIsIntended
  BY <1>11 DEF LockEnc
<1>12. ASSUME NEW t \in Threads, LoadClip(t) PROVE LossIsIntended
  BY <1>12 DEF LoadClip
<1>13. ASSUME NEW t \in Threads, Encode(t) PROVE LossIsIntended
  BY <1>13 DEF Encode
<1>14. ASSUME NEW t \in Threads, Unload(t) PROVE LossIsIntended
  BY <1>14 DEF Unload
<1>15. ASSUME NEW t \in Threads, UnlockEnc(t) PROVE LossIsIntended
  BY <1>15 DEF UnlockEnc
<1>16. ASSUME NEW t \in Threads, SafetyNet(t) PROVE LossIsIntended
  BY <1>16 DEF SafetyNet
  (* save_conditioning(). *)
<1>17. ASSUME NEW t \in Threads, WriteTmp(t) PROVE LossIsIntended
  BY <1>17 DEF WriteTmp
<1>18. ASSUME NEW t \in Threads, WriteTmpJson(t) PROVE LossIsIntended
  BY <1>18 DEF WriteTmpJson
<1>19. ASSUME NEW t \in Threads, PublishSt(t) PROVE LossIsIntended
  BY <1>19 DEF PublishSt
<1>20. ASSUME NEW t \in Threads, PublishJson(t) PROVE LossIsIntended
  BY <1>20 DEF PublishJson
<1>21. ASSUME NEW t \in Threads, CleanTmp(t) PROVE LossIsIntended
  BY <1>21 DEF CleanTmp
  (* delete_conditioning(). *)
<1>22. ASSUME NEW t \in Threads, UnlinkJson(t) PROVE LossIsIntended
  BY <1>22 DEF UnlinkJson
<1>23. ASSUME NEW t \in Threads, UnlinkSt(t) PROVE LossIsIntended
  BY <1>23 DEF UnlinkSt
  (* gc_orphaned_cache_files(). *)
<1>24. ASSUME NEW t \in Threads, NEW f \in Fps, SweepNext(t, f)
      PROVE  LossIsIntended
  BY <1>24 DEF SweepNext
<1>25. ASSUME NEW t \in Threads, SweepDone(t) PROVE LossIsIntended
  BY <1>25 DEF SweepDone
<1>26. ASSUME NEW t \in Threads, GcTry(t) PROVE LossIsIntended
  BY <1>26 DEF GcTry
<1>27. ASSUME NEW t \in Threads, GcRecheck(t) PROVE LossIsIntended
  BY <1>27 DEF GcRecheck
<1>28. ASSUME NEW t \in Threads, GcUnlink(t) PROVE LossIsIntended
  BY <1>28 DEF GcUnlink
<1>29. ASSUME NEW t \in Threads, GcUnlock(t) PROVE LossIsIntended
  BY <1>29 DEF GcUnlock
  (* Requests, a restart, rest. *)
<1>30. ASSUME NEW t \in Threads, NEW f \in Fps, NEW k \in {"auto", "refresh", "delete"},
             StartOn(t, f, k)
      PROVE  LossIsIntended
  BY <1>30 DEF StartOn, Start
<1>31. ASSUME NEW t \in Threads, StartCheck(t) PROVE LossIsIntended
  BY <1>31 DEF StartCheck, Start
<1>32. ASSUME Crash PROVE LossIsIntended
  BY <1>32 DEF Crash
<1>33. ASSUME Rest \/ UNCHANGED vars PROVE LossIsIntended
  BY <1>33 DEF Rest
<1> HIDE DEF LossIsIntended
<1> QED
  BY <1>1, <1>2, <1>3, <1>4, <1>5, <1>6, <1>7, <1>8, <1>9, <1>10, <1>11, <1>12,
     <1>13, <1>14, <1>15, <1>16, <1>17, <1>18, <1>19, <1>20, <1>21, <1>22, <1>23,
     <1>24, <1>25, <1>26, <1>27, <1>28, <1>29, <1>30, <1>31, <1>32, <1>33 DEF Next,
     Step, Request

\* No sweep, self-heal, auto run, fault or restart destroys a readable entry.
THEOREM EntriesAreLostByIntent == Spec => EntryLostOnlyByIntent
<1>1. IInv /\ [Next]_vars => LossIsIntended
  BY LossStep DEF IInv, Core
<1>2. IInv /\ [Next]_vars => [LossIsIntended]_vars
  BY <1>1
<1> QED
  BY Invariance, <1>2, PTL DEF Spec, EntryLostOnlyByIntent, LossIsIntended

-----------------------------------------------------------------------------
(* The abstract cache.                                                     *)

\* The abstract step, or stutter, that a step of ClipCache is.
Mapped == [Abstract!Next]_<<[f \in Fps |-> Entry(f)], drawn, Served>>

\* A step that changes no entry, draws nothing and serves nothing is a stutter.
LEMMA SilentMaps ==
    ASSUME \A f \in Fps : Entry(f)' = Entry(f), drawn' = drawn, Served' = Served
    PROVE  Mapped
  BY DEF Mapped

\* A step that changes at most the entry of f to none drops it, or stutters.
LEMMA DropMaps ==
    ASSUME NEW f \in Fps, Entry(f)' \in {Entry(f), Absent},
           \A g \in Fps \ {f} : Entry(g)' = Entry(g),
           drawn' = drawn, Served' = Served
    PROVE  Mapped
<1>1. CASE Entry(f)' = Entry(f)
  BY <1>1, SilentMaps
<1>2. CASE Entry(f)' = Absent
  <2>1. [g \in Fps |-> Entry(g)]' = [[g \in Fps |-> Entry(g)] EXCEPT ![f] = Absent]
    BY <1>2
  <2>2. Abstract!Drop(f)
    BY <2>1 DEF Abstract!Drop, Abstract!Absent, Absent
  <2> QED
    BY <2>2 DEF Mapped, Abstract!Next
<1> QED
  BY <1>1, <1>2

\* Every step of ClipCache is a step of the abstract cache, or none.
LEMMA MappedStep ==
    ASSUME NEW owners, Types(owners), Locks, Kinds, Files, Reads, AutoEncodesOnlyMisses, [Next]_vars
    PROVE  Mapped
<1> USE DEF Absent, Miss, vars, disk, locks, encoders, request, reads, budget, GoTo,
        Fault, Outcome, Pcs, HoldingPcs, LookupPcs, EncoderPcs, SavePcs, GcPcs
  (* The lock of the fingerprint. *)
<1>1. ASSUME NEW t \in Threads, LockFp(t) PROVE Mapped
  <2>1. \A f \in Fps : Entry(f)' = Entry(f)
    BY <1>1 DEF LockFp, Entry, Types, Kinds, Files
  <2>2. drawn' = drawn /\ Served' = Served
    BY <1>1 DEF LockFp, Served, Types, Kinds, Reads
  <2> QED
    BY <2>1, <2>2, SilentMaps
<1>2. ASSUME NEW t \in Threads, LockTimeout(t) PROVE Mapped
  <2>1. \A f \in Fps : Entry(f)' = Entry(f)
    BY <1>2 DEF LockTimeout, Entry, Types, Kinds, Files
  <2>2. drawn' = drawn /\ Served' = Served
    BY <1>2 DEF LockTimeout, Served, Types, Kinds, Reads
  <2> QED
    BY <2>1, <2>2, SilentMaps
<1>3. ASSUME NEW t \in Threads, UnlockFp(t) PROVE Mapped
  <2>1. drawn' = drawn /\ tens' = tens /\ (\A f \in Fps : Entry(f)' = Entry(f))
    BY <1>3 DEF UnlockFp, Entry
  <2>2. \A u \in Threads : result'[u] = "hit" <=> result[u] = "hit"
    BY <1>3 DEF UnlockFp, Reads, Runs, Types
  <2>3. Served' = Served
    BY <2>1, <2>2 DEF Served
  <2> QED
    BY <2>1, <2>3, SilentMaps
  (* load_conditioning(). *)
<1>4. ASSUME NEW t \in Threads, Lookup(t) PROVE Mapped
  <2>1. \A f \in Fps : Entry(f)' = Entry(f)
    BY <1>4 DEF Lookup, Entry, Types, Kinds, Files
  <2>2. drawn' = drawn /\ Served' = Served
    BY <1>4 DEF Lookup, Served, Types, Kinds, Reads
  <2> QED
    BY <2>1, <2>2, SilentMaps
<1>5. ASSUME NEW t \in Threads, Heal(t) PROVE Mapped
  <2>1. \A f \in Fps : Entry(f)' = Entry(f)
    BY <1>5 DEF Heal, Entry, Types, Kinds, Files
  <2>2. drawn' = drawn /\ Served' = Served
    BY <1>5 DEF Heal, Served, Types, Kinds, Reads
  <2> QED
    BY <2>1, <2>2, SilentMaps
<1>6. ASSUME NEW t \in Threads, ReadJson(t) PROVE Mapped
  <2>1. \A f \in Fps : Entry(f)' = Entry(f)
    BY <1>6 DEF ReadJson, Entry, Types, Kinds, Files
  <2>2. drawn' = drawn /\ Served' = Served
    BY <1>6 DEF ReadJson, Served, Types, Kinds, Reads
  <2> QED
    BY <2>1, <2>2, SilentMaps
<1>7. ASSUME NEW t \in Threads, ReadHeader(t) PROVE Mapped
  <2>1. \A f \in Fps : Entry(f)' = Entry(f)
    BY <1>7 DEF ReadHeader, Entry, Types, Kinds, Files
  <2>2. drawn' = drawn /\ Served' = Served
    BY <1>7 DEF ReadHeader, Served, Types, Kinds, Reads
  <2> QED
    BY <2>1, <2>2, SilentMaps
<1>8. ASSUME NEW t \in Threads, LoadFile(t) PROVE Mapped
  <2>1. \A f \in Fps : Entry(f)' = Entry(f)
    BY <1>8 DEF LoadFile, Entry, Types, Kinds, Files
  <2>2. drawn' = drawn /\ Served' = Served
    BY <1>8 DEF LoadFile, Served, Types, Kinds, Reads
  <2> QED
    BY <2>1, <2>2, SilentMaps
<1>9. ASSUME NEW t \in Threads, ReadError(t) PROVE Mapped
  <2>1. \A f \in Fps : Entry(f)' = Entry(f)
    BY <1>9 DEF ReadError, Entry, Types, Kinds, Files
  <2>2. drawn' = drawn /\ Served' = Served
    BY <1>9 DEF ReadError, Served, Types, Kinds, Reads
  <2> QED
    BY <2>1, <2>2, SilentMaps
<1>10. ASSUME NEW t \in Threads, ValidateHit(t) PROVE Mapped
  <2>1. fp[t] \in Fps /\ drawn' = drawn /\ (\A f \in Fps : Entry(f)' = Entry(f))
    BY <1>10 DEF ValidateHit, Entry, Types
  <2>2. CASE result' = [result EXCEPT ![t] = "raised"]
    <3>1. Served' = Served
      BY <1>10, <2>2 DEF ValidateHit, Served, Reads, Types
    <3> QED
      BY <2>1, <3>1, SilentMaps
  <2>3. CASE result' = [result EXCEPT ![t] = "hit"]
    <3>1. tens[t] = Entry(fp[t]) /\ Entry(fp[t]) # Absent
      BY <1>10 DEF ValidateHit, Entry, Reads
    <3>2. Served' = [Served EXCEPT ![t] = tens[t]]
      BY <1>10, <2>3 DEF ValidateHit, Served, Types
    <3>3. Abstract!Serve(t, fp[t])
      BY <2>1, <3>1, <3>2 DEF Abstract!Serve, Abstract!Absent, Absent
    <3> QED
      BY <2>1, <3>3 DEF Mapped, Abstract!Next
  <2> QED
    BY <1>10, <2>2, <2>3 DEF ValidateHit
  (* The encoder. *)
<1>11. ASSUME NEW t \in Threads, LockEnc(t) PROVE Mapped
  <2>1. \A f \in Fps : Entry(f)' = Entry(f)
    BY <1>11 DEF LockEnc, Entry, Types, Kinds, Files
  <2>2. drawn' = drawn /\ Served' = Served
    BY <1>11 DEF LockEnc, Served, Types, Kinds, Reads
  <2> QED
    BY <2>1, <2>2, SilentMaps
<1>12. ASSUME NEW t \in Threads, LoadClip(t) PROVE Mapped
  <2>1. \A f \in Fps : Entry(f)' = Entry(f)
    BY <1>12 DEF LoadClip, Entry, Types, Kinds, Files
  <2>2. drawn' = drawn /\ Served' = Served
    BY <1>12 DEF LoadClip, Served, Types, Kinds, Reads
  <2> QED
    BY <2>1, <2>2, SilentMaps
<1>13. ASSUME NEW t \in Threads, Encode(t) PROVE Mapped
  <2>1. \A f \in Fps : Entry(f)' = Entry(f)
    BY <1>13 DEF Encode, Entry, Types, Kinds, Files
  <2>2. drawn' = drawn /\ Served' = Served
    BY <1>13 DEF Encode, Served, Types, Kinds, Reads
  <2> QED
    BY <2>1, <2>2, SilentMaps
<1>14. ASSUME NEW t \in Threads, Unload(t) PROVE Mapped
  <2>1. \A f \in Fps : Entry(f)' = Entry(f)
    BY <1>14 DEF Unload, Entry, Types, Kinds, Files
  <2>2. drawn' = drawn /\ Served' = Served
    BY <1>14 DEF Unload, Served, Types, Kinds, Reads
  <2> QED
    BY <2>1, <2>2, SilentMaps
<1>15. ASSUME NEW t \in Threads, UnlockEnc(t) PROVE Mapped
  <2>1. \A f \in Fps : Entry(f)' = Entry(f)
    BY <1>15 DEF UnlockEnc, Entry, Types, Kinds, Files
  <2>2. drawn' = drawn /\ Served' = Served
    BY <1>15 DEF UnlockEnc, Served, Types, Kinds, Reads
  <2> QED
    BY <2>1, <2>2, SilentMaps
<1>16. ASSUME NEW t \in Threads, SafetyNet(t) PROVE Mapped
  <2>1. drawn' = drawn /\ (\A f \in Fps : Entry(f)' = Entry(f))
    BY <1>16 DEF SafetyNet, Entry
  <2>2. Served' = [Served EXCEPT ![t] = Absent]
    BY <1>16 DEF SafetyNet, Served, Types
  <2>3. Abstract!Return(t)
    BY <2>1, <2>2 DEF Abstract!Return, Abstract!Absent, Absent
  <2> QED
    BY <2>3 DEF Mapped, Abstract!Next
  (* save_conditioning(). *)
<1>17. ASSUME NEW t \in Threads, WriteTmp(t) PROVE Mapped
  <2>1. \A f \in Fps : Entry(f)' = Entry(f)
    BY <1>17 DEF WriteTmp, Entry
  <2>2. Served' = Served
    BY <1>17 DEF WriteTmp, Served
  <2>3. fp[t] \in Fps /\ drawn' = [drawn EXCEPT ![fp[t]] = @ + 1]
    BY <1>17 DEF WriteTmp, Types
  <2>4. Abstract!Draw(fp[t])
    BY <2>1, <2>2, <2>3 DEF Abstract!Draw
  <2> QED
    BY <2>3, <2>4 DEF Mapped, Abstract!Next
<1>18. ASSUME NEW t \in Threads, WriteTmpJson(t) PROVE Mapped
  <2>1. \A f \in Fps : Entry(f)' = Entry(f)
    BY <1>18 DEF WriteTmpJson, Entry, Types, Kinds, Files
  <2>2. drawn' = drawn /\ Served' = Served
    BY <1>18 DEF WriteTmpJson, Served, Types, Kinds, Reads
  <2> QED
    BY <2>1, <2>2, SilentMaps
<1>19. ASSUME NEW t \in Threads, PublishSt(t) PROVE Mapped
  <2>1. PICK f \in Fps : f = fp[t]
    BY DEF Types
  <2>2. Entry(f)' \in {Entry(f), Absent}
    BY <1>19, <2>1 DEF PublishSt, Entry, Kinds, Files, SkeletonNeverAlone, Types
  <2>3. \A g \in Fps \ {f} : Entry(g)' = Entry(g)
    BY <1>19, <2>1 DEF PublishSt, Entry, Types
  <2>4. drawn' = drawn /\ Served' = Served
    BY <1>19 DEF PublishSt, Served, Types, Kinds, Reads
  <2> QED
    BY <2>2, <2>3, <2>4, DropMaps
<1>20. ASSUME NEW t \in Threads, PublishJson(t) PROVE Mapped
  <2>1. CASE json' = json
    <3>1. (\A f \in Fps : Entry(f)' = Entry(f)) /\ drawn' = drawn
      BY <1>20, <2>1 DEF PublishJson, Entry
    <3>2. Served' = Served
      BY <1>20 DEF PublishJson, Served, Reads, Types
    <3> QED
      BY <3>1, <3>2, SilentMaps
  <2>2. CASE json' = [json EXCEPT ![fp[t]] = gen[t]]
    <3>1. PICK f \in Fps : f = fp[t]
      BY DEF Types
    <3>2. drawn' = drawn /\ st' = st
      BY <1>20 DEF PublishJson
    <3>3. Entry(f)' = drawn[f]
      BY <1>20, <2>2, <3>1, <3>2 DEF Entry, Files, Types, PublishJson
    <3>4. \A g \in Fps \ {f} : Entry(g)' = Entry(g)
      BY <2>2, <3>1, <3>2 DEF Entry, Types
    <3>5. Served' = Served
      BY <1>20 DEF PublishJson, Served, Reads, Types
    <3>6. [g \in Fps |-> Entry(g)]' = [[g \in Fps |-> Entry(g)] EXCEPT ![f] = drawn[f]]
      BY <3>3, <3>4
    <3>7. Abstract!Publish(f)
      BY <3>2, <3>5, <3>6 DEF Abstract!Publish
    <3> QED
      BY <3>7 DEF Mapped, Abstract!Next
  <2> QED
    BY <1>20, <2>1, <2>2 DEF PublishJson
<1>21. ASSUME NEW t \in Threads, CleanTmp(t) PROVE Mapped
  <2>1. \A f \in Fps : Entry(f)' = Entry(f)
    BY <1>21 DEF CleanTmp, Entry, Types, Kinds, Files
  <2>2. drawn' = drawn /\ Served' = Served
    BY <1>21 DEF CleanTmp, Served, Types, Kinds, Reads
  <2> QED
    BY <2>1, <2>2, SilentMaps
  (* delete_conditioning(). *)
<1>22. ASSUME NEW t \in Threads, UnlinkJson(t) PROVE Mapped
  <2>1. PICK f \in Fps : f = fp[t]
    BY DEF Types
  <2>2. Entry(f)' \in {Entry(f), Absent}
    BY <1>22, <2>1 DEF UnlinkJson, Entry, Kinds, Files, SkeletonNeverAlone, Types
  <2>3. \A g \in Fps \ {f} : Entry(g)' = Entry(g)
    BY <1>22, <2>1 DEF UnlinkJson, Entry, Types
  <2>4. drawn' = drawn /\ Served' = Served
    BY <1>22 DEF UnlinkJson, Served, Types, Kinds, Reads
  <2> QED
    BY <2>2, <2>3, <2>4, DropMaps
<1>23. ASSUME NEW t \in Threads, UnlinkSt(t) PROVE Mapped
  <2>1. \A f \in Fps : Entry(f)' = Entry(f)
    BY <1>23 DEF UnlinkSt, Entry, Types, Kinds, Files
  <2>2. drawn' = drawn /\ Served' = Served
    BY <1>23 DEF UnlinkSt, Served, Types, Kinds, Reads
  <2> QED
    BY <2>1, <2>2, SilentMaps
  (* gc_orphaned_cache_files(). *)
<1>24. ASSUME NEW t \in Threads, NEW f \in Fps, SweepNext(t, f) PROVE Mapped
  <2>1. \A x \in Fps : Entry(x)' = Entry(x)
    BY <1>24 DEF SweepNext, Entry, Types, Kinds, Files
  <2>2. drawn' = drawn /\ Served' = Served
    BY <1>24 DEF SweepNext, Served, Types, Kinds, Reads
  <2> QED
    BY <2>1, <2>2, SilentMaps
<1>25. ASSUME NEW t \in Threads, SweepDone(t) PROVE Mapped
  <2>1. \A f \in Fps : Entry(f)' = Entry(f)
    BY <1>25 DEF SweepDone, Entry, Types, Kinds, Files
  <2>2. drawn' = drawn /\ Served' = Served
    BY <1>25 DEF SweepDone, Served, Types, Kinds, Reads
  <2> QED
    BY <2>1, <2>2, SilentMaps
<1>26. ASSUME NEW t \in Threads, GcTry(t) PROVE Mapped
  <2>1. \A f \in Fps : Entry(f)' = Entry(f)
    BY <1>26 DEF GcTry, Entry, Types, Kinds, Files
  <2>2. drawn' = drawn /\ Served' = Served
    BY <1>26 DEF GcTry, Served, Types, Kinds, Reads
  <2> QED
    BY <2>1, <2>2, SilentMaps
<1>27. ASSUME NEW t \in Threads, GcRecheck(t) PROVE Mapped
  <2>1. \A f \in Fps : Entry(f)' = Entry(f)
    BY <1>27 DEF GcRecheck, Entry, Types, Kinds, Files
  <2>2. drawn' = drawn /\ Served' = Served
    BY <1>27 DEF GcRecheck, Served, Types, Kinds, Reads
  <2> QED
    BY <2>1, <2>2, SilentMaps
<1>28. ASSUME NEW t \in Threads, GcUnlink(t) PROVE Mapped
  <2>1. \A f \in Fps : Entry(f)' = Entry(f)
    BY <1>28 DEF GcUnlink, Entry, Types, Kinds, Files
  <2>2. drawn' = drawn /\ Served' = Served
    BY <1>28 DEF GcUnlink, Served, Types, Kinds, Reads
  <2> QED
    BY <2>1, <2>2, SilentMaps
<1>29. ASSUME NEW t \in Threads, GcUnlock(t) PROVE Mapped
  <2>1. \A f \in Fps : Entry(f)' = Entry(f)
    BY <1>29 DEF GcUnlock, Entry, Types, Kinds, Files
  <2>2. drawn' = drawn /\ Served' = Served
    BY <1>29 DEF GcUnlock, Served, Types, Kinds, Reads
  <2> QED
    BY <2>1, <2>2, SilentMaps
  (* Requests, a restart, rest. *)
<1>30. ASSUME NEW t \in Threads, NEW f \in Fps, NEW k \in {"auto", "refresh", "delete"},
             StartOn(t, f, k)
      PROVE  Mapped
  <2>1. \A x \in Fps : Entry(x)' = Entry(x)
    BY <1>30 DEF StartOn, Start, Entry, Types, Kinds, Files
  <2>2. drawn' = drawn /\ Served' = Served
    BY <1>30 DEF StartOn, Start, Served, Types, Kinds, Reads
  <2> QED
    BY <2>1, <2>2, SilentMaps
<1>31. ASSUME NEW t \in Threads, StartCheck(t) PROVE Mapped
  <2>1. \A f \in Fps : Entry(f)' = Entry(f)
    BY <1>31 DEF StartCheck, Start, Entry, Types, Kinds, Files
  <2>2. drawn' = drawn /\ Served' = Served
    BY <1>31 DEF StartCheck, Start, Served, Types, Kinds, Reads
  <2> QED
    BY <2>1, <2>2, SilentMaps
<1>32. ASSUME Crash PROVE Mapped
  <2>1. drawn' = drawn /\ (\A f \in Fps : Entry(f)' = Entry(f))
    BY <1>32 DEF Crash, Entry
  <2>2. Served' = [t \in Threads |-> Absent]
    BY <1>32 DEF Crash, Served
  <2>3. Abstract!Restart
    BY <2>1, <2>2 DEF Abstract!Restart, Abstract!Absent, Absent
  <2> QED
    BY <2>3 DEF Mapped, Abstract!Next
<1>33. ASSUME Rest \/ UNCHANGED vars PROVE Mapped
  <2>1. \A f \in Fps : Entry(f)' = Entry(f)
    BY <1>33 DEF Rest, Entry, Types, Kinds, Files
  <2>2. drawn' = drawn /\ Served' = Served
    BY <1>33 DEF Rest, Served, Types, Kinds, Reads
  <2> QED
    BY <2>1, <2>2, SilentMaps
<1> HIDE DEF Mapped
<1> QED
  BY <1>1, <1>2, <1>3, <1>4, <1>5, <1>6, <1>7, <1>8, <1>9, <1>10, <1>11, <1>12,
     <1>13, <1>14, <1>15, <1>16, <1>17, <1>18, <1>19, <1>20, <1>21, <1>22, <1>23,
     <1>24, <1>25, <1>26, <1>27, <1>28, <1>29, <1>30, <1>31, <1>32, <1>33 DEF Next,
     Step, Request

\* The two-file protocol implements the atomic cache.
THEOREM Implements == Spec => ImplementsAtomicCache
<1>1. Init => Abstract!Init
  BY DEF Init, Abstract!Init, Abstract!Absent, Absent, Entry, Served
<1>2. IInv /\ [Next]_vars => Mapped
  BY MappedStep DEF IInv, Core
<1> QED
  BY Invariance, <1>1, <1>2, PTL DEF Spec, ImplementsAtomicCache, Abstract!Spec, Mapped
=============================================================================
