----------------------------- MODULE ClipCache -----------------------------
(***************************************************************************)
(* The on-disk conditioning cache under concurrent use: CachedClipProxy    *)
(* (minimaxh3_clipcache/proxy.py), the two-file store it reads and writes  *)
(* (store.py), the locks (locking.py), the Cache Manager's Delete          *)
(* (routes.py) and the orphan sweep every Check starts with (store.py).    *)
(*                                                                         *)
(* One action is one file-system call, one lock operation or one call into *)
(* the encoder; everything between two of those is thread-local.           *)
(***************************************************************************)
EXTENDS Naturals, FiniteSets

CONSTANTS Threads,    \* threads of the one process that owns the cache directory
          NoThread,   \* the owner of a free lock
          Fps,        \* fingerprints
          WrongFps,   \* those whose clip_name is not a MiniMax H3 encoder
          MaxOps,     \* bound: requests ever started
          MaxFaults,  \* bound: failing calls (OSError, a raising encoder, ...)
          MaxCrashes  \* bound: process restarts

ASSUME ConstantsAssumption ==
    /\ NoThread \notin Threads /\ Fps # {}
    /\ WrongFps \subseteq Fps
    /\ {MaxOps, MaxFaults, MaxCrashes} \subseteq Nat

VARIABLES
    json, st,       \* generation in <fp>.json / <fp>.safetensors, or Absent
    tmp,            \* temp files on disk
    drawn,          \* generations drawn so far for a fingerprint
    fpLock,         \* owner of each per-fingerprint lock
    encLock,        \* owner of _encoder_load_lock
    resident,       \* threads whose proxy holds a loaded encoder
    stuck,          \* encoders no proxy holds any more and no unload released
    unloadFails,    \* unload calls that raised in this process
    pc, op, fp,     \* what each thread is doing, and to which fingerprint
    skel, tens,     \* generation of the skeleton / of the tensors a lookup read
    gen,            \* generation a save writes
    result,         \* how the current run went
    todo,           \* fingerprints a sweep has still to look at
    opsLeft, faultsLeft, crashesLeft

disk == <<json, st, tmp, drawn>>
locks == <<fpLock, encLock>>
encoders == <<resident, stuck, unloadFails>>
request == <<op, fp>>
reads == <<skel, tens, gen>>
budget == <<opsLeft, faultsLeft, crashesLeft>>
vars == <<disk, locks, encoders, pc, request, reads, result, todo, budget>>

Absent == 0
Runs == {"auto", "refresh"}
Ops == Runs \cup {"delete", "check", "none"}
Results == {"none", "hit", "written", "unwritten", "raised"}

\* Program counters between taking and releasing _encoder_load_lock.
EncoderPcs == {"loadClip", "encode", "unload", "unlockEnc"}
LookupPcs == {"lookup", "heal", "readJson", "readHeader", "loadFile", "validate"}
SavePcs == {"writeTmp", "writeTmpJson", "publishSt", "publishJson", "cleanTmp"}
GcPcs == {"gcRecheck", "gcUnlink", "gcUnlock"}

\* Program counters at which a thread holds the lock of its fingerprint.
HoldingPcs == LookupPcs \cup {"lockEnc"} \cup EncoderPcs \cup SavePcs
                \cup {"unlinkJson", "unlinkSt", "unlockFp"} \cup GcPcs
Pcs == HoldingPcs \cup {"idle", "lockFp", "safetyNet", "sweep", "gcTry"}

TmpFiles == [fp : Fps, gen : Nat, kind : {"st", "json"}]

TypeOK ==
    /\ json \in [Fps -> Nat]
    /\ st \in [Fps -> Nat]
    /\ tmp \in SUBSET TmpFiles
    /\ drawn \in [Fps -> Nat]
    /\ fpLock \in [Fps -> Threads \cup {NoThread}]
    /\ encLock \in Threads \cup {NoThread}
    /\ resident \in SUBSET Threads
    /\ stuck \in Nat
    /\ unloadFails \in Nat
    /\ pc \in [Threads -> Pcs]
    /\ op \in [Threads -> Ops]
    /\ fp \in [Threads -> Fps]
    /\ skel \in [Threads -> Nat]
    /\ tens \in [Threads -> Nat]
    /\ gen \in [Threads -> Nat]
    /\ result \in [Threads -> Results]
    /\ todo \in [Threads -> SUBSET Fps]
    /\ opsLeft \in Nat /\ faultsLeft \in Nat /\ crashesLeft \in Nat

\* The entry load_conditioning() would serve: a pair of one generation.
Entry(f) == IF json[f] = st[f] THEN json[f] ELSE Absent

-----------------------------------------------------------------------------
\* Every thread starts idle; the cache directory is empty.
Init ==
    /\ json = [f \in Fps |-> Absent]
    /\ st = [f \in Fps |-> Absent]
    /\ tmp = {}
    /\ drawn = [f \in Fps |-> 0]
    /\ fpLock = [f \in Fps |-> NoThread]
    /\ encLock = NoThread
    /\ resident = {}
    /\ stuck = 0
    /\ unloadFails = 0
    /\ pc = [t \in Threads |-> "idle"]
    /\ op = [t \in Threads |-> "none"]
    /\ fp = [t \in Threads |-> CHOOSE f \in Fps : TRUE]
    /\ skel = [t \in Threads |-> Absent]
    /\ tens = [t \in Threads |-> Absent]
    /\ gen = [t \in Threads |-> Absent]
    /\ result = [t \in Threads |-> "none"]
    /\ todo = [t \in Threads |-> {}]
    /\ opsLeft = MaxOps /\ faultsLeft = MaxFaults /\ crashesLeft = MaxCrashes

GoTo(t, l) == pc' = [pc EXCEPT ![t] = l]
Fault == faultsLeft > 0 /\ faultsLeft' = faultsLeft - 1 /\ UNCHANGED <<opsLeft, crashesLeft>>
Outcome(t, r) == result' = [result EXCEPT ![t] = r]

-----------------------------------------------------------------------------
(* Requests.                                                               *)

Start(t, kind) ==
    /\ pc[t] = "idle" /\ opsLeft > 0
    /\ opsLeft' = opsLeft - 1
    /\ op' = [op EXCEPT ![t] = kind]
    /\ UNCHANGED <<disk, locks, encoders, reads, result, faultsLeft, crashesLeft>>

\* A node run with cache_mode auto or refresh, or a Delete of f.
StartOn(t, f, kind) ==
    /\ Start(t, kind)
    /\ fp' = [fp EXCEPT ![t] = f]
    /\ GoTo(t, "lockFp")
    /\ UNCHANGED todo

\* A Check: gc_orphaned_cache_files() over the *.safetensors it lists.
StartCheck(t) ==
    /\ Start(t, "check")
    /\ todo' = [todo EXCEPT ![t] = {f \in Fps : st[f] # Absent}]
    /\ GoTo(t, "sweep")
    /\ UNCHANGED fp

\* Mutant of LockFp: the fingerprint lock is not waited for.
LockFpRacing(t) ==
    /\ pc[t] = "lockFp"
    /\ fpLock' = [fpLock EXCEPT ![fp[t]] = t]
    /\ GoTo(t, IF op[t] = "auto" THEN "lookup"
               ELSE IF op[t] = "refresh" THEN "lockEnc" ELSE "unlinkJson")
    /\ UNCHANGED <<disk, encLock, encoders, request, reads, result, todo, budget>>

\* with get_lock(fingerprint): where the thread goes once it holds the lock.
LockFp(t) ==
    /\ pc[t] = "lockFp" /\ fpLock[fp[t]] = NoThread
    /\ fpLock' = [fpLock EXCEPT ![fp[t]] = t]
    /\ GoTo(t, IF op[t] = "auto" THEN "lookup"
               ELSE IF op[t] = "refresh" THEN "lockEnc" ELSE "unlinkJson")
    /\ UNCHANGED <<disk, encLock, encoders, request, reads, result, todo, budget>>

\* A Delete gives up after the lock timeout and answers 409.
LockTimeout(t) ==
    /\ pc[t] = "lockFp" /\ op[t] = "delete" /\ fpLock[fp[t]] # NoThread
    /\ GoTo(t, "idle")
    /\ UNCHANGED <<disk, locks, encoders, request, reads, result, todo, budget>>

UnlockFp(t) ==
    /\ pc[t] = "unlockFp"
    /\ fpLock' = [fpLock EXCEPT ![fp[t]] = NoThread]
    /\ GoTo(t, IF op[t] \in Runs THEN "safetyNet" ELSE "idle")
    /\ result' = [result EXCEPT ![t] = IF op[t] \in Runs THEN @ ELSE "none"]
    /\ UNCHANGED <<disk, encLock, encoders, request, reads, todo, budget>>

-----------------------------------------------------------------------------
(* load_conditioning(), inside the fingerprint lock.                       *)

Miss(t) == GoTo(t, "lockEnc") /\ skel' = [skel EXCEPT ![t] = Absent]

\* json_path.exists(); without it an orphaned .safetensors is to be healed.
Lookup(t) ==
    /\ pc[t] = "lookup"
    /\ GoTo(t, IF json[fp[t]] # Absent THEN "readJson"
               ELSE IF st[fp[t]] # Absent THEN "heal" ELSE "lockEnc")
    /\ UNCHANGED <<disk, locks, encoders, request, reads, result, todo, budget>>

\* Self-heal: unlink the orphan; an OSError is swallowed.
Heal(t) ==
    /\ pc[t] = "heal"
    /\ GoTo(t, "lockEnc")
    /\ \/ st' = [st EXCEPT ![fp[t]] = Absent] /\ UNCHANGED budget
       \/ Fault /\ UNCHANGED st
    /\ UNCHANGED <<json, tmp, drawn, locks, encoders, request, reads, result, todo>>

\* Read the envelope; a vanished file is a MISS.
ReadJson(t) ==
    /\ pc[t] = "readJson"
    /\ IF json[fp[t]] = Absent THEN Miss(t)
       ELSE skel' = [skel EXCEPT ![t] = json[fp[t]]] /\ GoTo(t, "readHeader")
    /\ UNCHANGED <<disk, locks, encoders, request, tens, gen, result, todo, budget>>

\* Mutant of ReadHeader: the two generations are not compared.
ReadHeaderUnchecked(t) ==
    /\ pc[t] = "readHeader"
    /\ IF st[fp[t]] = Absent THEN Miss(t) ELSE GoTo(t, "loadFile") /\ UNCHANGED skel
    /\ UNCHANGED <<disk, locks, encoders, request, tens, gen, result, todo, budget>>

\* Read the .safetensors header: absent or of another generation is a MISS.
ReadHeader(t) ==
    /\ pc[t] = "readHeader"
    /\ IF st[fp[t]] # skel[t] THEN Miss(t) ELSE GoTo(t, "loadFile") /\ UNCHANGED skel
    /\ UNCHANGED <<disk, locks, encoders, request, tens, gen, result, todo, budget>>

\* load_file() opens the .safetensors a second time.
LoadFile(t) ==
    /\ pc[t] = "loadFile"
    /\ IF st[fp[t]] = Absent THEN Miss(t) /\ UNCHANGED tens
       ELSE tens' = [tens EXCEPT ![t] = st[fp[t]]] /\ GoTo(t, "validate") /\ UNCHANGED skel
    /\ UNCHANGED <<disk, locks, encoders, request, gen, result, todo, budget>>

\* Any other OSError on the read path propagates and ends the run.
ReadError(t) ==
    /\ pc[t] \in {"readJson", "readHeader", "loadFile"}
    /\ Fault /\ Outcome(t, "raised") /\ GoTo(t, "unlockFp")
    /\ UNCHANGED <<disk, locks, encoders, request, reads, todo>>

\* A HIT is served only after the hidden dimension was validated.
ValidateHit(t) ==
    /\ pc[t] = "validate"
    /\ Outcome(t, IF fp[t] \in WrongFps THEN "raised" ELSE "hit")
    /\ GoTo(t, "unlockFp")
    /\ UNCHANGED <<disk, locks, encoders, request, reads, todo, budget>>

-----------------------------------------------------------------------------
(* The real encode, inside _encoder_load_lock.                             *)

\* Mutant of LockEnc: the encoder lock is not waited for.
LockEncRacing(t) ==
    /\ pc[t] = "lockEnc"
    /\ encLock' = t
    /\ GoTo(t, "loadClip")
    /\ UNCHANGED <<disk, fpLock, encoders, request, reads, result, todo, budget>>

LockEnc(t) ==
    /\ pc[t] = "lockEnc" /\ encLock = NoThread
    /\ encLock' = t
    /\ GoTo(t, "loadClip")
    /\ UNCHANGED <<disk, fpLock, encoders, request, reads, result, todo, budget>>

\* clip_loader_fn(); when it raises there is nothing to unload.
LoadClip(t) ==
    /\ pc[t] = "loadClip"
    /\ \/ /\ resident' = resident \cup {t}
          /\ GoTo(t, "encode")
          /\ UNCHANGED <<result, budget>>
       \/ Fault /\ Outcome(t, "raised") /\ GoTo(t, "unlockEnc") /\ UNCHANGED resident
    /\ UNCHANGED <<disk, locks, stuck, unloadFails, request, reads, todo>>

\* Mutant of Encode: the output is not validated before it is saved.
EncodeUnvalidated(t) ==
    /\ pc[t] = "encode"
    /\ GoTo(t, "unload")
    /\ \/ Outcome(t, "none") /\ UNCHANGED budget
       \/ Fault /\ Outcome(t, "raised")
    /\ UNCHANGED <<disk, locks, encoders, request, reads, todo>>

\* Tokenize, encode and validate: a wrong checkpoint or a failing encode raises.
Encode(t) ==
    /\ pc[t] = "encode"
    /\ GoTo(t, "unload")
    /\ \/ Outcome(t, IF fp[t] \in WrongFps THEN "raised" ELSE "none") /\ UNCHANGED budget
       \/ Fault /\ Outcome(t, "raised")
    /\ UNCHANGED <<disk, locks, encoders, request, reads, todo>>

\* Mutant of Unload: the unload error is swallowed.
UnloadQuiet(t) ==
    /\ pc[t] = "unload"
    /\ GoTo(t, "unlockEnc")
    /\ \/ resident' = resident \ {t} /\ UNCHANGED <<unloadFails, budget>>
       \/ Fault /\ unloadFails' = unloadFails + 1 /\ UNCHANGED resident
    /\ UNCHANGED <<disk, locks, stuck, request, reads, result, todo>>

\* The finally block: an unload that raises leaves the encoder loaded and
\* turns the run into a failure once the encoder lock is released.
Unload(t) ==
    /\ pc[t] = "unload"
    /\ GoTo(t, "unlockEnc")
    /\ \/ resident' = resident \ {t} /\ UNCHANGED <<unloadFails, result, budget>>
       \/ Fault /\ unloadFails' = unloadFails + 1 /\ Outcome(t, "raised") /\ UNCHANGED resident
    /\ UNCHANGED <<disk, locks, stuck, request, reads, todo>>

\* Mutant of UnlockEnc: acquire/release without try/finally.
UnlockEncOnSuccess(t) ==
    /\ pc[t] = "unlockEnc"
    /\ encLock' = IF result[t] = "raised" THEN encLock ELSE NoThread
    /\ GoTo(t, IF result[t] = "raised" THEN "unlockFp" ELSE "writeTmp")
    /\ UNCHANGED <<disk, fpLock, encoders, request, reads, result, todo, budget>>

\* Leaving the with block: a failed run does not reach the save.
UnlockEnc(t) ==
    /\ pc[t] = "unlockEnc"
    /\ encLock' = NoThread
    /\ GoTo(t, IF result[t] = "raised" THEN "unlockFp" ELSE "writeTmp")
    /\ UNCHANGED <<disk, fpLock, encoders, request, reads, result, todo, budget>>

\* _release_real_clip_safety_net(): after both locks are gone, retry the unload
\* of an encoder the proxy still holds, swallow a second failure, drop the proxy.
SafetyNet(t) ==
    /\ pc[t] = "safetyNet"
    /\ resident' = resident \ {t}
    /\ \/ UNCHANGED <<stuck, unloadFails, budget>>
       \/ t \in resident /\ Fault /\ stuck' = stuck + 1 /\ unloadFails' = unloadFails + 1
    /\ GoTo(t, "idle")
    /\ Outcome(t, "none")
    /\ skel' = [skel EXCEPT ![t] = Absent]
    /\ tens' = [tens EXCEPT ![t] = Absent]
    /\ gen' = [gen EXCEPT ![t] = Absent]
    /\ UNCHANGED <<disk, locks, request, todo>>

-----------------------------------------------------------------------------
(* save_conditioning(), still inside the fingerprint lock.                 *)

\* Mutant of TmpOf: one fixed temp name per fingerprint.
TmpOfFixed(t, k) == [fp |-> fp[t], kind |-> k]

TmpOf(t, k) == [fp |-> fp[t], gen |-> gen[t], kind |-> k]

\* A fresh generation id; its tensors go to a temp file (a failing write may
\* leave it half written).
WriteTmp(t) ==
    /\ pc[t] = "writeTmp"
    /\ drawn' = [drawn EXCEPT ![fp[t]] = @ + 1]
    /\ gen' = [gen EXCEPT ![t] = drawn[fp[t]] + 1]
    /\ tmp' = tmp \cup {[fp |-> fp[t], gen |-> drawn[fp[t]] + 1, kind |-> "st"]}
    /\ \/ GoTo(t, "writeTmpJson") /\ UNCHANGED budget
       \/ GoTo(t, "cleanTmp") /\ Fault
    /\ UNCHANGED <<json, st, locks, encoders, request, skel, tens, result, todo>>

WriteTmpJson(t) ==
    /\ pc[t] = "writeTmpJson"
    /\ tmp' = tmp \cup {TmpOf(t, "json")}
    /\ \/ GoTo(t, "publishSt") /\ UNCHANGED budget
       \/ GoTo(t, "cleanTmp") /\ Fault
    /\ UNCHANGED <<json, st, drawn, locks, encoders, request, reads, result, todo>>

\* os.replace() of the tensors comes first ...
PublishSt(t) ==
    /\ pc[t] = "publishSt"
    /\ \/ /\ st' = [st EXCEPT ![fp[t]] = gen[t]]
          /\ tmp' = tmp \ {TmpOf(t, "st")}
          /\ GoTo(t, "publishJson")
          /\ UNCHANGED budget
       \/ Fault /\ GoTo(t, "cleanTmp") /\ UNCHANGED <<st, tmp>>
    /\ UNCHANGED <<json, drawn, locks, encoders, request, reads, result, todo>>

\* ... that of the skeleton last; a failure does not undo the first one.
PublishJson(t) ==
    /\ pc[t] = "publishJson"
    /\ \/ /\ json' = [json EXCEPT ![fp[t]] = gen[t]]
          /\ tmp' = tmp \ {TmpOf(t, "json")}
          /\ Outcome(t, "written")
          /\ GoTo(t, "unlockFp")
          /\ UNCHANGED budget
       \/ Fault /\ GoTo(t, "cleanTmp") /\ UNCHANGED <<json, tmp, result>>
    /\ UNCHANGED <<st, drawn, locks, encoders, request, reads, todo>>

\* Mutants of CleanTmp: the skeleton's temp file is forgotten; success is claimed.
CleanTmpTensorsOnly(t) ==
    /\ pc[t] = "cleanTmp"
    /\ \/ tmp' = tmp \ {TmpOf(t, "st")} /\ UNCHANGED budget
       \/ Fault /\ UNCHANGED tmp
    /\ Outcome(t, "unwritten")
    /\ GoTo(t, "unlockFp")
    /\ UNCHANGED <<json, st, drawn, locks, encoders, request, reads, todo>>
CleanTmpClaimsSuccess(t) ==
    /\ pc[t] = "cleanTmp"
    /\ \/ tmp' = tmp \ {TmpOf(t, "st"), TmpOf(t, "json")} /\ UNCHANGED budget
       \/ Fault /\ UNCHANGED tmp
    /\ Outcome(t, "written")
    /\ GoTo(t, "unlockFp")
    /\ UNCHANGED <<json, st, drawn, locks, encoders, request, reads, todo>>

\* A failed save unlinks its own temp files only; an OSError is swallowed.
CleanTmp(t) ==
    /\ pc[t] = "cleanTmp"
    /\ \/ tmp' = tmp \ {TmpOf(t, "st"), TmpOf(t, "json")} /\ UNCHANGED budget
       \/ Fault /\ UNCHANGED tmp
    /\ Outcome(t, "unwritten")
    /\ GoTo(t, "unlockFp")
    /\ UNCHANGED <<json, st, drawn, locks, encoders, request, reads, todo>>

-----------------------------------------------------------------------------
(* delete_conditioning(): skeleton first, then tensors.                    *)

UnlinkJson(t) ==
    /\ pc[t] = "unlinkJson"
    /\ \/ json' = [json EXCEPT ![fp[t]] = Absent] /\ GoTo(t, "unlinkSt") /\ UNCHANGED budget
       \/ Fault /\ GoTo(t, "unlockFp") /\ UNCHANGED json
    /\ UNCHANGED <<st, tmp, drawn, locks, encoders, request, reads, result, todo>>

UnlinkSt(t) ==
    /\ pc[t] = "unlinkSt"
    /\ GoTo(t, "unlockFp")
    /\ \/ st' = [st EXCEPT ![fp[t]] = Absent] /\ UNCHANGED budget
       \/ Fault /\ UNCHANGED st
    /\ UNCHANGED <<json, tmp, drawn, locks, encoders, request, reads, result, todo>>

-----------------------------------------------------------------------------
(* gc_orphaned_cache_files(): one listed file at a time.                   *)

\* A file with a skeleton is no orphan; one without is worth the lock.
SweepNext(t, f) ==
    /\ pc[t] = "sweep" /\ f \in todo[t]
    /\ todo' = [todo EXCEPT ![t] = @ \ {f}]
    /\ fp' = [fp EXCEPT ![t] = f]
    /\ GoTo(t, IF json[f] # Absent THEN "sweep" ELSE "gcTry")
    /\ UNCHANGED <<disk, locks, encoders, op, reads, result, budget>>

SweepDone(t) ==
    /\ pc[t] = "sweep" /\ todo[t] = {}
    /\ GoTo(t, "idle")
    /\ UNCHANGED <<disk, locks, encoders, request, reads, result, todo, budget>>

\* lock.acquire(blocking=False): a held lock means a writer, so skip the file.
GcTry(t) ==
    /\ pc[t] = "gcTry"
    /\ IF fpLock[fp[t]] = NoThread
       THEN fpLock' = [fpLock EXCEPT ![fp[t]] = t] /\ GoTo(t, "gcRecheck")
       ELSE GoTo(t, "sweep") /\ UNCHANGED fpLock
    /\ UNCHANGED <<disk, encLock, encoders, request, reads, result, todo, budget>>

\* Mutant of GcRecheck: what was seen before the lock is trusted.
GcRecheckTrusting(t) ==
    /\ pc[t] = "gcRecheck"
    /\ GoTo(t, "gcUnlink")
    /\ UNCHANGED <<disk, locks, encoders, request, reads, result, todo, budget>>

GcRecheck(t) ==
    /\ pc[t] = "gcRecheck"
    /\ GoTo(t, IF json[fp[t]] # Absent THEN "gcUnlock" ELSE "gcUnlink")
    /\ UNCHANGED <<disk, locks, encoders, request, reads, result, todo, budget>>

GcUnlink(t) ==
    /\ pc[t] = "gcUnlink"
    /\ GoTo(t, "gcUnlock")
    /\ \/ st' = [st EXCEPT ![fp[t]] = Absent] /\ UNCHANGED budget
       \/ Fault /\ UNCHANGED st
    /\ UNCHANGED <<json, tmp, drawn, locks, encoders, request, reads, result, todo>>

GcUnlock(t) ==
    /\ pc[t] = "gcUnlock"
    /\ fpLock' = [fpLock EXCEPT ![fp[t]] = NoThread]
    /\ GoTo(t, "sweep")
    /\ UNCHANGED <<disk, encLock, encoders, request, reads, result, todo, budget>>

-----------------------------------------------------------------------------
\* The process dies at any point and is started again: files stay, the rest goes.
Crash ==
    /\ crashesLeft > 0
    /\ crashesLeft' = crashesLeft - 1
    /\ fpLock' = [f \in Fps |-> NoThread]
    /\ encLock' = NoThread
    /\ resident' = {} /\ stuck' = 0 /\ unloadFails' = 0
    /\ pc' = [t \in Threads |-> "idle"]
    /\ op' = [t \in Threads |-> "none"]
    /\ result' = [t \in Threads |-> "none"]
    /\ todo' = [t \in Threads |-> {}]
    /\ skel' = [t \in Threads |-> Absent]
    /\ tens' = [t \in Threads |-> Absent]
    /\ gen' = [t \in Threads |-> Absent]
    /\ UNCHANGED <<disk, fp, opsLeft, faultsLeft>>

Step(t) ==
    \/ LockFp(t) \/ LockTimeout(t) \/ UnlockFp(t)
    \/ Lookup(t) \/ Heal(t) \/ ReadJson(t) \/ ReadHeader(t) \/ LoadFile(t)
    \/ ReadError(t) \/ ValidateHit(t)
    \/ LockEnc(t) \/ LoadClip(t) \/ Encode(t) \/ Unload(t) \/ UnlockEnc(t) \/ SafetyNet(t)
    \/ WriteTmp(t) \/ WriteTmpJson(t) \/ PublishSt(t) \/ PublishJson(t) \/ CleanTmp(t)
    \/ UnlinkJson(t) \/ UnlinkSt(t)
    \/ (\E f \in Fps : SweepNext(t, f))
    \/ SweepDone(t) \/ GcTry(t) \/ GcRecheck(t) \/ GcUnlink(t) \/ GcUnlock(t)

Request(t) ==
    \/ \E f \in Fps, kind \in {"auto", "refresh", "delete"} : StartOn(t, f, kind)
    \/ StartCheck(t)

\* All requests served: the system rests.
Rest == opsLeft = 0 /\ (\A t \in Threads : pc[t] = "idle") /\ UNCHANGED vars

Next == (\E t \in Threads : Step(t) \/ Request(t)) \/ Crash \/ Rest

Spec == Init /\ [][Next]_vars

\* A started thread keeps running; nothing obliges anyone to start a request.
Fairness == \A t \in Threads : WF_vars(Step(t))
FairSpec == Spec /\ Fairness
-----------------------------------------------------------------------------
(* Properties.                                                             *)

\* A HIT returns skeleton and tensors of one generation, and it is the entry
\* on disk when the run returns, though load_conditioning() opens the files
\* three times (store.py, "an unambiguous MISS" for a torn refresh).
HitIsOneEntry ==
    \A t \in Threads : (result[t] = "hit" /\ pc[t] = "unlockFp") =>
        /\ skel[t] = tens[t] /\ tens[t] # Absent
        /\ tens[t] = Entry(fp[t])

\* An auto run reaches the encoder, and then the disk, only while no readable
\* entry exists: two racing MISSes of one fingerprint never both encode it
\* (proxy.py, "the encoder is never loaded twice").
AutoEncodesOnlyMisses ==
    \A t \in Threads :
        (op[t] = "auto" /\ pc[t] \in {"lockEnc", "writeTmp", "writeTmpJson", "publishSt"} \cup EncoderPcs)
            => Entry(fp[t]) = Absent

\* While every unload has worked, at most one encoder is resident
\* (_encoder_load_lock, released only after the unload).
OneEncoder == unloadFails = 0 => stuck = 0 /\ Cardinality(resident) <= 1

\* An encoder that outlives the encoder lock belongs to a run that fails: no
\* successful result, and nothing saved, beside a resident encoder.
ResidentEncoderIsLoud ==
    \A t \in Threads : (t \in resident /\ pc[t] \notin EncoderPcs) => result[t] = "raised"

\* No step of the program leaves a skeleton without tensors or over tensors
\* older than itself: tensors are published first and removed last, and only
\* a skeleton-less file is ever healed or swept.
SkeletonNeverAlone == \A f \in Fps : json[f] # Absent => st[f] >= json[f]

\* A save that reported success is readable as the newest generation when its
\* run lets go of the fingerprint.
WrittenIsReadable ==
    \A t \in Threads : (result[t] = "written" /\ pc[t] = "unlockFp") =>
        /\ Entry(fp[t]) = gen[t]
        /\ gen[t] = drawn[fp[t]]

\* An encode of the wrong checkpoint never reaches the disk, not even as a
\* temp file: validation precedes the save.
WrongNeverStored ==
    \A f \in WrongFps : json[f] = Absent /\ st[f] = Absent /\ \A x \in tmp : x.fp # f

\* One failing call and no restart leave no temp file behind once the save
\* that wrote it is over.
TmpAccounted ==
    (crashesLeft = MaxCrashes /\ faultsLeft + 1 >= MaxFaults) =>
        \A x \in tmp : \E t \in Threads :
            pc[t] \in SavePcs /\ fp[t] = x.fp /\ gen[t] = x.gen

\* A readable entry disappears only under a Delete or a refresh that holds its
\* lock: no sweep, self-heal, auto run, fault or restart destroys one.
EntryLostOnlyByIntent ==
    [][\A f \in Fps : (Entry(f) # Absent /\ Entry(f)' = Absent) =>
          \E t \in Threads : fp[t] = f /\ fpLock[f] = t /\ op[t] \in {"refresh", "delete"}]_vars

\* Every started request ends: the fingerprint lock is always taken before the
\* encoder lock, and each is released on every path.
RequestsEnd == \A t \in Threads : pc[t] # "idle" ~> pc[t] = "idle"

\* The cache as its clients see it.
Served == [t \in Threads |-> IF result[t] = "hit" THEN tens[t] ELSE Absent]
Abstract == INSTANCE AtomicCache WITH entry <- [f \in Fps |-> Entry(f)], served <- Served

\* The two-file protocol implements the atomic cache.
ImplementsAtomicCache == Abstract!Spec
=============================================================================
