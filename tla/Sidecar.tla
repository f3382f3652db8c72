------------------------------ MODULE Sidecar ------------------------------
(***************************************************************************)
(* The Cache Manager's metadata of an entry, <fp>.verbose.json and its     *)
(* thumbnails, under its three writers: node runs that describe what they  *)
(* produced (nodes.py: _sync_verbose_metadata, _sync_ref_sources,          *)
(* _pair_verbose_entries), the user's edits (routes.py update) and Delete  *)
(* (routes.py delete).  Every one is a read-modify-write of the same file  *)
(* under the fingerprint lock; no two sections are ever nested.            *)
(*                                                                         *)
(* The cached encode itself is the business of ClipCache: here it is one   *)
(* step that decides HIT or MISS and leaves <fp>.json or not.              *)
(***************************************************************************)
EXTENDS Naturals, FiniteSets

CONSTANTS Nodes,        \* threads that execute nodes
          Managers,     \* executor threads that serve /update and /delete
          NoThread,
          Fps, NoFp,
          Sizes,        \* generation sizes (width, height, megapixels)
          Users,        \* values of the user block
          DefaultUser,
          Requests,     \* the requests clients may make, a subset of Jobs
          MaxOps,       \* bound: requests started
          MaxFaults     \* bound: failing file-system or encoder calls

Threads == Nodes \cup Managers
NoSize == "none"

\* A single run covers fingerprint a at size sa; a dual run also b at size sb.
\* trace is what provenance.collect_ref_sources() finds for the run's graph.
Jobs == [kind : {"single", "dual", "update", "delete"}, a : Fps, b : Fps,
         sa : Sizes \cup {NoSize}, sb : Sizes \cup {NoSize}, auto : BOOLEAN,
         trace : {"impossible", "empty", "files"}, user : Users]

ASSUME SidecarAssumption ==
    /\ Nodes \cap Managers = {} /\ NoThread \notin Threads
    /\ NoFp \notin Fps /\ DefaultUser \in Users
    /\ Requests \subseteq Jobs /\ Requests # {}
    /\ {MaxOps, MaxFaults} \subseteq Nat

VARIABLES
    core,        \* mtime of <fp>.json, 0 when there is none
    torn,        \* core pairs a half-published refresh left unreadable
    side,        \* <fp>.verbose.json, or NoSide
    thumbs,      \* fingerprints with thumbnails on disk
    clock,       \* time, advanced by every published encode
    fpLock,
    pc,          \* where a thread is
    job, second, \* the request it serves; in a dual run, whether in pass two
    stage,       \* the locked section it is in or heads for
    outcome,     \* last_hit / last_core_cache_written of the current pass
    plan,        \* the sidecar it is about to write
    edited,      \* history: the last accepted edit of the sidecar on disk
    misread,     \* history: some existing sidecar could not be read
    halfDeleted, \* history: fingerprints whose Delete failed half way
    opsLeft, faultsLeft

disk == <<core, torn, side, thumbs, clock>>
history == <<edited, misread, halfDeleted>>
vars == <<disk, fpLock, pc, job, second, stage, outcome, plan, history, opsLeft, faultsLeft>>

NoSide == [exists |-> FALSE, created |-> 0, size |-> NoSize, refs |-> FALSE,
           pair |-> NoFp, pairSize |-> NoSize, upscale |-> FALSE, user |-> DefaultUser]
Sides == [exists : BOOLEAN, created : Nat, size : Sizes \cup {NoSize}, refs : BOOLEAN,
          pair : Fps \cup {NoFp}, pairSize : Sizes \cup {NoSize}, upscale : BOOLEAN,
          user : Users]

NoJob == CHOOSE r \in Requests : TRUE
Stages == {"sync", "refs", "pairA", "pairB", "size", "update", "delete"}
SectionPcs == {"plan", "user", "write", "unlinkCore", "unlinkSide", "unlinkThumbs",
               "leave", "leaveFailed"}

TypeOK ==
    /\ core \in [Fps -> Nat] /\ torn \subseteq Fps /\ clock \in Nat
    /\ side \in [Fps -> Sides] /\ thumbs \subseteq Fps
    /\ fpLock \in [Fps -> Threads \cup {NoThread}]
    /\ pc \in [Threads -> SectionPcs \cup {"idle", "encode", "enter", "done"}]
    /\ job \in [Threads -> Jobs] /\ second \in [Threads -> BOOLEAN]
    /\ stage \in [Threads -> Stages]
    /\ outcome \in [Threads -> {"none", "hit", "written", "unwritten"}]
    /\ plan \in [Threads -> Sides]
    /\ edited \in [Fps -> Users] /\ misread \in BOOLEAN /\ halfDeleted \subseteq Fps
    /\ opsLeft \in Nat /\ faultsLeft \in Nat

\* The fingerprint and size of the current pass, and of the current section.
PassFp(t) == IF second[t] THEN job[t].b ELSE job[t].a
PassSize(t) == IF second[t] THEN job[t].sb ELSE job[t].sa
Target(t) ==
    CASE stage[t] \in {"sync", "refs"} -> PassFp(t)
      [] stage[t] = "pairB" -> job[t].b
      [] OTHER -> job[t].a

\* The directory may hold entries from before there were sidecars, and from
\* before sidecars had a created_at.
Init ==
    /\ \E legacy \in SUBSET Fps : \E described \in SUBSET legacy :
         /\ core = [f \in Fps |-> IF f \in legacy THEN 1 ELSE 0]
         /\ side = [f \in Fps |-> [NoSide EXCEPT !.exists = f \in described]]
    /\ torn = {} /\ thumbs = {} /\ clock = 1
    /\ fpLock = [f \in Fps |-> NoThread]
    /\ pc = [t \in Threads |-> "idle"]
    /\ job = [t \in Threads |-> NoJob]
    /\ second = [t \in Threads |-> FALSE]
    /\ stage = [t \in Threads |-> "sync"]
    /\ outcome = [t \in Threads |-> "none"]
    /\ plan = [t \in Threads |-> NoSide]
    /\ edited = [f \in Fps |-> DefaultUser] /\ misread = FALSE /\ halfDeleted = {}
    /\ opsLeft = MaxOps /\ faultsLeft = MaxFaults

Go(t, l) == pc' = [pc EXCEPT ![t] = l]
Fault == faultsLeft > 0 /\ faultsLeft' = faultsLeft - 1

-----------------------------------------------------------------------------
(* Requests and the encode.                                                *)

Start(t, r) ==
    /\ pc[t] = "idle" /\ opsLeft > 0
    /\ IF t \in Nodes THEN r.kind \in {"single", "dual"} ELSE r.kind \in {"update", "delete"}
    /\ opsLeft' = opsLeft - 1
    /\ job' = [job EXCEPT ![t] = r]
    /\ second' = [second EXCEPT ![t] = FALSE]
    /\ Go(t, IF t \in Nodes THEN "encode" ELSE "enter")
    /\ stage' = [stage EXCEPT ![t] = IF t \in Nodes THEN "sync" ELSE r.kind]
    /\ UNCHANGED <<disk, fpLock, outcome, plan, history, faultsLeft>>

\* One pass of encode_from_tokens_scheduled(), all of it inside the lock.  A
\* failed save leaves the skeleton, and so the mtime, it found.
Encode(t) ==
    LET f == PassFp(t) IN
    /\ pc[t] = "encode" /\ fpLock[f] = NoThread
    /\ IF job[t].auto /\ core[f] # 0 /\ f \notin torn
       THEN /\ outcome' = [outcome EXCEPT ![t] = "hit"]
            /\ UNCHANGED <<core, torn, clock, faultsLeft>>
       ELSE \/ /\ outcome' = [outcome EXCEPT ![t] = "written"]
               /\ clock' = clock + 1
               /\ core' = [core EXCEPT ![f] = clock + 1]
               /\ torn' = torn \ {f}
               /\ UNCHANGED faultsLeft
            \/ /\ outcome' = [outcome EXCEPT ![t] = "unwritten"]
               /\ torn' \in {torn, torn \cup ({f} \ {g \in Fps : core[g] = 0})}
               /\ Fault /\ UNCHANGED <<core, clock>>
    /\ Go(t, "enter")
    /\ stage' = [stage EXCEPT ![t] = "sync"]
    /\ UNCHANGED <<side, thumbs, fpLock, job, second, plan, history, opsLeft>>

\* The stock node or the encoder raises: the run ends, nothing is described.
EncodeRaises(t) ==
    /\ pc[t] = "encode" /\ Fault
    /\ Go(t, "done")
    /\ UNCHANGED <<disk, fpLock, job, second, stage, outcome, plan, history, opsLeft>>

-----------------------------------------------------------------------------
(* Locked sections.                                                        *)

\* Mutant of Enter: the section does not wait for the lock.
EnterRacing(t) ==
    /\ pc[t] = "enter"
    /\ fpLock' = [fpLock EXCEPT ![Target(t)] = t]
    /\ Go(t, IF stage[t] = "delete" THEN "unlinkCore" ELSE "plan")
    /\ UNCHANGED <<disk, job, second, stage, outcome, plan, history, opsLeft, faultsLeft>>

Enter(t) ==
    /\ pc[t] = "enter" /\ fpLock[Target(t)] = NoThread
    /\ fpLock' = [fpLock EXCEPT ![Target(t)] = t]
    /\ Go(t, IF stage[t] = "delete" THEN "unlinkCore" ELSE "plan")
    /\ UNCHANGED <<disk, job, second, stage, outcome, plan, history, opsLeft, faultsLeft>>

\* _run_under_fingerprint_lock() gives up: /update and /delete answer 409.
EnterTimeout(t) ==
    /\ pc[t] = "enter" /\ t \in Managers /\ fpLock[Target(t)] # NoThread
    /\ Go(t, "done")
    /\ UNCHANGED <<disk, fpLock, job, second, stage, outcome, plan, history, opsLeft, faultsLeft>>

\* load_verbose(): what is on disk, or None for a file that cannot be read.
Loads(f, v) ==
    \/ v = side[f] /\ UNCHANGED <<faultsLeft, misread>>
    \/ side[f].exists /\ v = NoSide /\ Fault /\ misread' = TRUE

\* The sync writes for a fresh MISS on disk, and for a HIT that lacks a
\* sidecar or its created_at.
Described(v) == v.exists /\ v.created # 0
SyncWrites(t, v) == outcome[t] = "written" \/ (outcome[t] = "hit" /\ ~Described(v))

\* Mutant of Synced: every fresh write starts a new history.
SyncedAfresh(t, v) ==
    IF SyncWrites(t, v)
    THEN [v EXCEPT !.exists = TRUE, !.size = PassSize(t), !.pair = NoFp,
                   !.created = IF outcome[t] = "written" THEN clock ELSE core[PassFp(t)]]
    ELSE IF outcome[t] = "hit" THEN [v EXCEPT !.size = PassSize(t)] ELSE v

\* created_at: the sidecar's own, else now for a fresh MISS, else the core mtime.
CreatedAt(t, v) ==
    IF Described(v) THEN v.created
    ELSE IF outcome[t] = "written" THEN clock ELSE core[PassFp(t)]

\* The sidecar after each section; v itself when there is nothing to write.
Synced(t, v) ==
    IF SyncWrites(t, v)
    THEN [v EXCEPT !.exists = TRUE, !.size = PassSize(t), !.created = CreatedAt(t, v)]
    ELSE IF outcome[t] = "hit" THEN [v EXCEPT !.size = PassSize(t)] ELSE v

\* A clean walk replaces the traced files, an empty one drops stale ones.
Traced(v, trace) == [v EXCEPT !.refs = trace = "files"]

\* Mutants of Paired: arguments swapped; the role left at its default.
PairedSwapped(v, other, size, isUpscale) ==
    [v EXCEPT !.pair = size, !.pairSize = other, !.upscale = isUpscale]
PairedSameRole(v, other, size, isUpscale) ==
    [v EXCEPT !.pair = other, !.pairSize = size, !.upscale = FALSE]

Paired(v, other, size, isUpscale) ==
    [v EXCEPT !.pair = other, !.pairSize = size, !.upscale = isUpscale]

\* Back to the base resolution after two passes over one entry.
Resized(v, size) == [v EXCEPT !.size = size]

\* An edit, which leaves the system block alone.
Edited(v, user) == [v EXCEPT !.user = user]

\* What a section makes of the sidecar it loaded: only a sync creates one.
Planned(t, v) ==
    LET j == job[t] IN
    IF stage[t] = "sync" THEN Synced(t, v)
    ELSE IF ~v.exists THEN v
    ELSE
    CASE stage[t] = "refs" -> Traced(v, j.trace)
      [] stage[t] = "pairA" -> Paired(v, j.b, j.sb, FALSE)
      [] stage[t] = "pairB" -> Paired(v, j.a, j.sa, TRUE)
      [] stage[t] = "size" -> Resized(v, j.sa)
      [] OTHER -> Edited(v, j.user)

\* Mutant of PlanSection: the core entry is not looked for again.
PlanSectionTrusting(t) ==
    LET f == Target(t) IN
    /\ pc[t] = "plan"
    /\ \E v \in {side[f], NoSide} :
          LET new == Planned(t, v) IN
          /\ Loads(f, v)
          /\ plan' = [plan EXCEPT ![t] = new]
          /\ thumbs' = IF stage[t] = "sync" /\ SyncWrites(t, v) THEN thumbs \cup {f} ELSE thumbs
          /\ Go(t, IF new = v /\ ~(stage[t] = "sync" /\ SyncWrites(t, v)) THEN "leave"
                   ELSE IF stage[t] = "update" THEN "write" ELSE "user")
    /\ UNCHANGED <<core, torn, side, clock, fpLock, job, second, stage, outcome, edited,
                   halfDeleted, opsLeft>>

\* Under the lock: a node section stops unless the core entry still exists.
\* update_user_metadata() keeps the sidecar it loaded and writes it back whole;
\* the node sections go on to save_verbose().  Thumbnails precede the sidecar.
PlanSection(t) ==
    LET f == Target(t) IN
    /\ pc[t] = "plan"
    /\ IF core[f] = 0 /\ stage[t] # "update"
       THEN Go(t, "leave") /\ UNCHANGED <<plan, thumbs, faultsLeft, misread>>
       ELSE \E v \in {side[f], NoSide} :
            LET new == Planned(t, v) IN
            /\ Loads(f, v)
            /\ plan' = [plan EXCEPT ![t] = new]
            /\ thumbs' = IF stage[t] = "sync" /\ SyncWrites(t, v) THEN thumbs \cup {f} ELSE thumbs
            /\ Go(t, IF new = v /\ ~(stage[t] = "sync" /\ SyncWrites(t, v)) THEN "leave"
                     ELSE IF stage[t] = "update" THEN "write" ELSE "user")
    /\ UNCHANGED <<core, torn, side, clock, fpLock, job, second, stage, outcome, edited,
                   halfDeleted, opsLeft>>

\* Mutant of CarryUser: the user block is not carried over.
CarryNothing(t) ==
    /\ pc[t] = "user"
    /\ plan' = [plan EXCEPT ![t].user = DefaultUser]
    /\ Go(t, "write")
    /\ UNCHANGED <<disk, fpLock, job, second, stage, outcome, history, opsLeft, faultsLeft>>

\* save_verbose() reads the file again and carries its user block over.
CarryUser(t) ==
    /\ pc[t] = "user"
    /\ \E v \in {side[Target(t)], NoSide} :
         /\ Loads(Target(t), v)
         /\ plan' = [plan EXCEPT ![t].user = v.user]
    /\ Go(t, "write")
    /\ UNCHANGED <<disk, fpLock, job, second, stage, outcome, edited, halfDeleted, opsLeft>>

\* _atomic_write_json(): all or nothing.
Write(t) ==
    LET f == Target(t) IN
    /\ pc[t] = "write"
    /\ \/ /\ side' = [side EXCEPT ![f] = plan[t]]
          /\ edited' = IF stage[t] = "update" THEN [edited EXCEPT ![f] = plan[t].user] ELSE edited
          /\ Go(t, "leave")
          /\ UNCHANGED faultsLeft
       \/ Fault /\ Go(t, "leaveFailed") /\ UNCHANGED <<side, edited>>
    /\ UNCHANGED <<core, torn, thumbs, clock, fpLock, job, second, stage, outcome, plan,
                   misread, halfDeleted, opsLeft>>

\* _delete_entry_files(): the core entry, then the sidecar, then the thumbnails.
UnlinkFails(t) ==
    /\ Fault /\ Go(t, "leave")
    /\ halfDeleted' = halfDeleted \cup {Target(t)}
    /\ UNCHANGED <<core, torn, side, thumbs, edited>>

UnlinkCore(t) ==
    /\ pc[t] = "unlinkCore"
    /\ \/ /\ core' = [core EXCEPT ![Target(t)] = 0] /\ Go(t, "unlinkSide")
          /\ torn' = torn \ {Target(t)}
          /\ UNCHANGED <<side, thumbs, edited, halfDeleted, faultsLeft>>
       \/ UnlinkFails(t)
    /\ UNCHANGED <<clock, fpLock, job, second, stage, outcome, plan, misread, opsLeft>>

UnlinkSide(t) ==
    /\ pc[t] = "unlinkSide"
    /\ \/ /\ side' = [side EXCEPT ![Target(t)] = NoSide]
          /\ edited' = [edited EXCEPT ![Target(t)] = DefaultUser]
          /\ Go(t, "unlinkThumbs")
          /\ UNCHANGED <<core, torn, thumbs, halfDeleted, faultsLeft>>
       \/ UnlinkFails(t)
    /\ UNCHANGED <<clock, fpLock, job, second, stage, outcome, plan, misread, opsLeft>>

UnlinkThumbs(t) ==
    /\ pc[t] = "unlinkThumbs"
    /\ \/ /\ thumbs' = thumbs \ {Target(t)} /\ Go(t, "leave")
          /\ halfDeleted' = halfDeleted \ {Target(t)}
          /\ UNCHANGED <<core, torn, side, edited, faultsLeft>>
       \/ UnlinkFails(t)
    /\ UNCHANGED <<clock, fpLock, job, second, stage, outcome, plan, misread, opsLeft>>

\* Mutant of AfterPass: two passes over one entry end like any others.
AfterPassIgnoringShared(t) ==
    IF job[t].kind = "single" THEN <<"done", stage[t], second[t]>>
    ELSE IF ~second[t] THEN <<"encode", "sync", TRUE>>
    ELSE <<"enter", "pairA", TRUE>>

\* What follows a section.  A failed section is swallowed, but a failure in the
\* first direction of a pairing also skips the second.
AfterPass(t) ==
    IF job[t].kind = "single" THEN <<"done", stage[t], second[t]>>
    ELSE IF ~second[t] THEN <<"encode", "sync", TRUE>>
    ELSE IF job[t].a = job[t].b THEN <<"enter", "size", TRUE>>
    ELSE <<"enter", "pairA", TRUE>>
After(t) ==
    CASE stage[t] = "sync" ->
            IF job[t].trace = "impossible" THEN AfterPass(t) ELSE <<"enter", "refs", second[t]>>
      [] stage[t] = "refs" -> AfterPass(t)
      [] stage[t] = "pairA" /\ pc[t] = "leave" -> <<"enter", "pairB", second[t]>>
      [] OTHER -> <<"done", stage[t], second[t]>>

\* Mutant of Leave: both directions of a pairing under both locks.
LeaveNesting(t) ==
    /\ pc[t] \in {"leave", "leaveFailed"}
    /\ fpLock' = [f \in Fps |-> IF fpLock[f] = t /\ stage[t] # "pairA" THEN NoThread ELSE fpLock[f]]
    /\ plan' = [plan EXCEPT ![t] = NoSide]
    /\ Go(t, After(t)[1])
    /\ stage' = [stage EXCEPT ![t] = After(t)[2]]
    /\ second' = [second EXCEPT ![t] = After(t)[3]]
    /\ UNCHANGED <<disk, job, outcome, history, opsLeft, faultsLeft>>

Leave(t) ==
    /\ pc[t] \in {"leave", "leaveFailed"}
    /\ fpLock' = [fpLock EXCEPT ![Target(t)] = NoThread]
    /\ plan' = [plan EXCEPT ![t] = NoSide]
    /\ Go(t, After(t)[1])
    /\ stage' = [stage EXCEPT ![t] = After(t)[2]]
    /\ second' = [second EXCEPT ![t] = After(t)[3]]
    /\ UNCHANGED <<disk, job, outcome, history, opsLeft, faultsLeft>>

\* The request is answered; an idle thread remembers nothing of it.
Return(t) ==
    /\ pc[t] = "done"
    /\ Go(t, "idle")
    /\ job' = [job EXCEPT ![t] = NoJob]
    /\ second' = [second EXCEPT ![t] = FALSE]
    /\ stage' = [stage EXCEPT ![t] = "sync"]
    /\ outcome' = [outcome EXCEPT ![t] = "none"]
    /\ UNCHANGED <<disk, fpLock, plan, history, opsLeft, faultsLeft>>

Step(t) ==
    \/ Encode(t) \/ EncodeRaises(t) \/ Enter(t) \/ EnterTimeout(t)
    \/ PlanSection(t) \/ CarryUser(t) \/ Write(t)
    \/ UnlinkCore(t) \/ UnlinkSide(t) \/ UnlinkThumbs(t) \/ Leave(t) \/ Return(t)

Rest == opsLeft = 0 /\ (\A t \in Threads : pc[t] = "idle") /\ UNCHANGED vars

Next == (\E t \in Threads : Step(t) \/ \E r \in Requests : Start(t, r)) \/ Rest

Spec == Init /\ [][Next]_vars
FairSpec == Spec /\ \A t \in Threads : WF_vars(Step(t))

-----------------------------------------------------------------------------
(* Properties.                                                             *)

\* The user block on disk is the user's last accepted edit: no system write
\* and no racing edit loses it, as long as no sidecar was unreadable
\* (save_verbose(): "a system backfill must never overwrite them").
EditsSurvive == ~misread => \A f \in Fps : side[f].exists => side[f].user = edited[f]

\* An edit writes back the system block it finds: what a node run described in
\* the meantime is not undone (locking.py).
EditsTouchNoSystem ==
    [][\A f \in Fps :
          (side[f].exists /\ side'[f].exists /\ ~misread' /\ side'[f].user # side[f].user)
              => side'[f] = [side[f] EXCEPT !.user = side'[f].user]]_vars

\* As long as a sidecar lives its created_at stands and its pairing is at most
\* repointed: a refresh or backfill rewrites "system" around both.
SidecarKeepsItsPast ==
    [][\A f \in Fps : (side[f].exists /\ side'[f].exists /\ ~misread') =>
          /\ side[f].created # 0 => side'[f].created = side[f].created
          /\ side[f].pair # NoFp => side'[f].pair # NoFp]_vars

\* A deleted entry stays deleted: no metadata write brings a sidecar or a
\* thumbnail back to an entry without core file.
NoPhantom ==
    \A f \in Fps \ halfDeleted :
        (core[f] = 0 /\ \A t \in Threads :
             ~(Target(t) = f /\ pc[t] \in {"unlinkSide", "unlinkThumbs"}))
            => ~side[f].exists /\ f \notin thumbs

\* With one executor and no failing call, a dual run whose entries both survive
\* leaves them pointing at each other, with the right sizes and roles.
PairedAfterDual ==
    \A t \in Nodes :
        LET j == job[t] IN
        (pc[t] = "done" /\ j.kind = "dual" /\ j.a # j.b /\ faultsLeft = MaxFaults
            /\ core[j.a] # 0 /\ core[j.b] # 0) =>
        /\ side[j.a].pair = j.b /\ side[j.a].pairSize = j.sb /\ ~side[j.a].upscale
        /\ side[j.b].pair = j.a /\ side[j.b].pairSize = j.sa /\ side[j.b].upscale

\* Both passes on one fingerprint: the entry keeps the base resolution
\* (CACHE_MANAGER.md), although the second pass described it last.
SharedEntryKeepsBase ==
    \A t \in Nodes :
        (pc[t] = "done" /\ job[t].kind = "dual" /\ job[t].a = job[t].b
            /\ faultsLeft = MaxFaults /\ core[job[t].a] # 0) =>
        side[job[t].a].size = job[t].sa /\ side[job[t].a].pair # job[t].a

\* Two entries that point at each other never claim the same role, whatever
\* order of dual runs and Deletes led there.
MutualRolesDiffer ==
    (faultsLeft = MaxFaults /\ \A t \in Nodes : stage[t] \in {"pairA", "pairB"} => pc[t] = "idle") =>
        \A f, g \in Fps : (f # g /\ side[f].pair = g /\ side[g].pair = f) =>
            side[f].upscale # side[g].upscale

\* What dual runs leave behind, on two fingerprints or one, whichever runs and
\* Deletes came before.
DualRunsAgree == PairedAfterDual /\ SharedEntryKeepsBase /\ MutualRolesDiffer

\* Every request ends: sections of overlapping pairs are never nested.
RequestsEnd == \A t \in Threads : pc[t] # "idle" ~> pc[t] = "idle"
=============================================================================
