----------------------------- MODULE CacheScan -----------------------------
(***************************************************************************)
(* The listing half of a Check (scanner.py: scan_cache, _stable_pair_issue,*)
(* inspect_conditioning_pair in store.py), composed with everything that   *)
(* ClipCache lets happen to the files meanwhile.  Every core pair of a     *)
(* directory listing is inspected without a lock, and a problem is looked  *)
(* at again under the fingerprint lock if that lock is free.               *)
(***************************************************************************)
EXTENDS ClipCache

CONSTANTS Scanner,   \* the executor thread that serves the Check
          MaxScans   \* bound: listings made

ASSUME ScanAssumption == Scanner \notin Threads \cup {NoThread} /\ MaxScans \in Nat

VARIABLES scanPc,    \* where the scanner is
          listed,    \* listed pairs it has still to inspect
          at,        \* the fingerprint it inspects
          peeked,    \* generation it read from the skeleton
          entrySeen, \* history: the entry there was at that read
          verdict,   \* what it says of a listed pair
          scansLeft

scanVars == <<scanPc, listed, at, peeked, entrySeen, verdict, scansLeft>>
allVars == <<vars, scanVars>>

ScanInit ==
    /\ Init
    /\ scanPc = "idle"
    /\ listed = {} /\ at = CHOOSE f \in Fps : TRUE
    /\ peeked = Absent /\ entrySeen = Absent
    /\ verdict = [f \in Fps |-> "none"]
    /\ scansLeft = MaxScans

\* Only names with both core files are candidates.
List ==
    /\ scanPc = "idle" /\ scansLeft > 0
    /\ scansLeft' = scansLeft - 1
    /\ listed' = {f \in Fps : json[f] # Absent /\ st[f] # Absent}
    /\ verdict' = [f \in Fps |-> "none"]
    /\ scanPc' = "pick"
    /\ UNCHANGED <<vars, at, peeked, entrySeen>>

Pick(f) ==
    /\ scanPc = "pick" /\ f \in listed
    /\ listed' = listed \ {f}
    /\ at' = f
    /\ scanPc' = "peekJson"
    /\ UNCHANGED <<vars, peeked, entrySeen, verdict, scansLeft>>

Report ==
    /\ scanPc = "pick" /\ listed = {}
    /\ scanPc' = "idle"
    /\ UNCHANGED <<vars, listed, at, peeked, entrySeen, verdict, scansLeft>>

\* inspect_conditioning_pair(): the skeleton, then the header of the tensors.
Problem(reason) == verdict' = [verdict EXCEPT ![at] = reason]

ReadSkeleton(onGood, onBad) ==
    /\ IF json[at] = Absent
       THEN Problem("missing_json") /\ scanPc' = onBad
       ELSE scanPc' = onGood /\ UNCHANGED verdict
    /\ peeked' = json[at]
    /\ entrySeen' = Entry(at)
    /\ UNCHANGED <<vars, listed, at, scansLeft>>

\* Mutant of ReadTensorHeader: present tensors are good tensors.
ReadTensorHeaderUnchecked(onGood, onBad) ==
    /\ IF st[at] = Absent
       THEN Problem("missing_safetensors") /\ scanPc' = onBad
       ELSE Problem("ok") /\ scanPc' = onGood
    /\ UNCHANGED <<vars, listed, at, peeked, entrySeen, scansLeft>>

ReadTensorHeader(onGood, onBad) ==
    /\ IF st[at] = Absent
       THEN Problem("missing_safetensors") /\ scanPc' = onBad
       ELSE IF st[at] # peeked
            THEN Problem("generation_mismatch") /\ scanPc' = onBad
            ELSE Problem("ok") /\ scanPc' = onGood
    /\ UNCHANGED <<vars, listed, at, peeked, entrySeen, scansLeft>>

PeekJson == scanPc = "peekJson" /\ ReadSkeleton("peekSt", "tryLock")
PeekSt == scanPc = "peekSt" /\ ReadTensorHeader("pick", "tryLock")

\* Mutant of TryLock: the second look does not need the lock.
TryLockRacing ==
    /\ scanPc = "tryLock"
    /\ scanPc' = "lockedJson"
    /\ UNCHANGED <<vars, listed, at, peeked, entrySeen, verdict, scansLeft>>

\* A busy lock means a writer at work: nothing is reported this time.
TryLock ==
    /\ scanPc = "tryLock"
    /\ IF fpLock[at] = NoThread
       THEN /\ fpLock' = [fpLock EXCEPT ![at] = Scanner]
            /\ scanPc' = "lockedJson"
            /\ UNCHANGED verdict
       ELSE Problem("busy") /\ scanPc' = "pick" /\ UNCHANGED fpLock
    /\ UNCHANGED <<disk, encLock, encoders, pc, request, reads, result, todo, budget,
                   listed, at, peeked, entrySeen, scansLeft>>

LockedJson == scanPc = "lockedJson" /\ ReadSkeleton("lockedSt", "unlock")
LockedSt == scanPc = "lockedSt" /\ ReadTensorHeader("unlock", "unlock")

Unlock ==
    /\ scanPc = "unlock"
    /\ fpLock' = [fpLock EXCEPT ![at] = NoThread]
    /\ scanPc' = "pick"
    /\ UNCHANGED <<disk, encLock, encoders, pc, request, reads, result, todo, budget,
                   listed, at, peeked, entrySeen, verdict, scansLeft>>

ScanStep ==
    List \/ (\E f \in Fps : Pick(f)) \/ Report \/ PeekJson \/ PeekSt \/ TryLock
    \/ LockedJson \/ LockedSt \/ Unlock

\* A restart takes the scanner down with everything else.
ScanCrash ==
    /\ Crash
    /\ scanPc' = "idle" /\ listed' = {} /\ verdict' = [f \in Fps |-> "none"]
    /\ UNCHANGED <<at, peeked, entrySeen, scansLeft>>

ScanNext ==
    \/ ScanStep
    \/ (\E t \in Threads : Step(t) \/ Request(t)) /\ UNCHANGED scanVars
    \/ ScanCrash
    \/ Rest /\ scanPc = "idle" /\ scansLeft = 0 /\ UNCHANGED scanVars

ScanSpec == ScanInit /\ [][ScanNext]_allVars

-----------------------------------------------------------------------------
(* Properties.                                                             *)

\* A mismatch is reported only if it is there to stay: while the scanner holds
\* the lock the pair is unreadable, and no save is between its two renames.
NoFalseMismatch ==
    (scanPc = "unlock" /\ verdict[at] = "generation_mismatch") =>
        /\ json[at] # Absent /\ Entry(at) = Absent
        /\ \A t \in Threads : fp[t] = at => pc[t] \notin SavePcs

\* Tensors are never reported missing under a skeleton.
TensorsNeverMissing == scanPc = "unlock" => verdict[at] # "missing_safetensors"

\* A pair found good without any lock was a readable entry, all of it, when its
\* skeleton was read, though the header is read later.
GoodWasAnEntry == \A f \in Fps : (verdict[f] = "ok" /\ at = f) => entrySeen = peeked /\ peeked # Absent

\* What a Check says of a listed pair while others write, sweep and delete: no
\* mismatch that a save is about to mend, no tensors missed under a skeleton, no
\* clean bill for what never was one entry.
CheckIsRight == NoFalseMismatch /\ TensorsNeverMissing /\ GoodWasAnEntry
=============================================================================
