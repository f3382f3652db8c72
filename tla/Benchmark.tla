----------------------------- MODULE Benchmark -----------------------------
(***************************************************************************)
(* scripts/benchmark_conditioning.py with scripts/_live_server.py: the     *)
(* orchestrator that measures each prompt case natively, as a cache MISS   *)
(* and as a cache HIT, every attempt on a server of its own, and keeps the *)
(* results in one JSON report that --rerun replaces record by record.      *)
(*                                                                         *)
(* The report outlives the orchestrator, and so do the disk cache it       *)
(* measures and, at times, a server.  Sessions follow each other; within   *)
(* one, the steps of an attempt may fail, a foreign process may use the    *)
(* GPU, ComfyUI may be updated, an entry may be deleted by hand, and the   *)
(* orchestrator may be signalled or killed.                                *)
(***************************************************************************)
EXTENDS Naturals, Sequences, FiniteSets

CONSTANTS Cases,        \* the prompt cases (CASE_COUNT of them)
          MaxAttempts,  \* MAX_ATTEMPTS
          NoFp,         \* no fingerprint
          NoReport,     \* no report file
          NoRun,        \* no accepted run of a group and case yet
          RerunLists,   \* bound: the lists of cases --rerun is given
          MaxSessions,  \* bound: times the script is started
          MaxFaults,    \* bound: failing steps, outside changes and kills
          MaxSignals    \* bound: SIGINTs and SIGTERMs

ASSUME BenchmarkAssumption ==
    /\ IsFiniteSet(Cases)
    /\ MaxAttempts \in Nat \ {0}
    /\ \A s \in RerunLists : /\ s \in Seq(Cases) \ {<<>>}
                             /\ \A i, j \in DOMAIN s : s[i] = s[j] => i = j
    /\ {MaxSessions, MaxFaults, MaxSignals} \subseteq Nat

VARIABLES
    disk,      \* conditioning_benchmark.json
    cache,     \* fingerprints with a whole entry on disk
    world,     \* the installation: what a server reports, what a key is made of
    pc,        \* where the orchestrator is, "off" between sessions
    report,    \* the report in its memory
    job,       \* what this session measures, and the attempt under way
    cur,       \* the attempt's record (result)
    tries,     \* attempts of this measurement before it
    failure,   \* what _run_one will end with
    server,    \* the server of this attempt and what its log says
    orphan,    \* a server an earlier session left running
    late,      \* the entries that servers left running may still save
    stray,     \* history: the entries on disk that such a server saved
    sessions, faults, signals

control == <<pc, report, job, cur, tries, failure>>
left == <<orphan, late, stray>>
budget == <<sessions, faults, signals>>
vars == <<disk, cache, world, control, server, left, budget>>

Groups == <<"native", "cached_miss", "cached_hit">>
Pairs == {Groups[i] : i \in DOMAIN Groups} \X Cases

\* The key of a case's prompt: the prompt carries the benchmark's UUID, and the
\* encoder's ABI enters it too.
FpOf(bench, case, abi) == <<bench, case, abi>>
Worlds == [env : {0, 1}, abi : {0, 1}]
NoEnv == 2

\* The values the variables hold.
Events == {"none", "HIT", "MISS"}
Fps == {NoFp} \cup {FpOf(b, c, a) : b \in 1..MaxSessions, c \in Cases, a \in {0, 1}}
AttemptRecords ==
    [id : Nat \ {0}, group : {"native", "cached_miss", "cached_hit"}, case : Cases,
     status : {"running", "success", "failed"}, accepted : BOOLEAN, foreign : BOOLEAN,
     fp : Fps, env : {0, 1, NoEnv}, encoded : BOOLEAN]
Reports ==
    [status : {"running", "failed", "complete", "rerun_failed"}, bench : 1..MaxSessions,
     env : {0, 1, NoEnv}, runs : [Pairs -> AttemptRecords \cup {NoRun}],
     attempts : Seq(AttemptRecords)]

\* What stands for no run and no fingerprint is none.
ASSUME NothingAssumption ==
    /\ NoRun \notin AttemptRecords
    /\ \A b \in 1..MaxSessions, c \in Cases, a \in {0, 1} : FpOf(b, c, a) # NoFp

NewAttempt(id, g, c) ==
    [id |-> id, group |-> g, case |-> c, status |-> "running", accepted |-> FALSE,
     foreign |-> FALSE, fp |-> NoFp, env |-> NoEnv, encoded |-> FALSE]

\* No server, and one freshly launched with an empty log.
NoServer == [state |-> "none", env |-> NoEnv, abi |-> 0, event |-> "none",
             fp |-> NoFp, encoded |-> FALSE, saving |-> {}]
Launched == [NoServer EXCEPT !.state = "alive", !.env = world.env, !.abi = world.abi]

IdleJob == [kind |-> "none", todo |-> <<>>, fp |-> NoFp, delete |-> NoFp]
Idle == NewAttempt(0, "native", CHOOSE c \in Cases : TRUE)

----------------------------------------------------------------------------
(* The report *)

EmptyReport(bench) ==
    [status |-> "running", bench |-> bench, env |-> NoEnv,
     runs |-> [p \in Pairs |-> NoRun], attempts |-> <<>>]

RunOK(r) == r.status = "success" /\ r.accepted /\ ~r.foreign

\* What --rerun requires of the file (_load_rerun_report).
Loadable(d) ==
    /\ d # NoReport
    /\ d.status \in {"complete", "rerun_failed"}
    /\ \A p \in Pairs : d.runs[p] # NoRun /\ RunOK(d.runs[p])

\* _refresh_report_summaries raises unless every group has all its runs.
Summarisable(rep) ==
    \A p \in Pairs : rep.runs[p] # NoRun /\ rep.runs[p].accepted /\ ~rep.runs[p].foreign

\* The fingerprint a measurement expects: that of the case's MISS, once known.
ExpectedFp(kind, rep, g, c) ==
    LET miss == rep.runs[<<"cached_miss", c>>]
    IN  IF miss = NoRun \/ (kind = "rerun" /\ g = "native") THEN NoFp ELSE miss.fp

\* Only a rerun of a MISS deletes an entry before the first attempt.
DeleteFirst(kind, rep, g, c) ==
    IF kind = "rerun" /\ g = "cached_miss" THEN ExpectedFp(kind, rep, g, c) ELSE NoFp

\* Mutant of NoneAccepted: a rerun fails like a full benchmark.
NoneAcceptedFails(kind, rep, attempts) ==
    [rep EXCEPT !.attempts = @ \o attempts, !.status = "failed"]

\* A measurement that ended without an accepted run.
NoneAccepted(kind, rep, attempts) ==
    [rep EXCEPT !.attempts = @ \o attempts,
                !.status = IF kind = "benchmark" THEN "failed" ELSE "rerun_failed"]

\* The run does not fit the report: another server environment, or (full
\* benchmark) a fingerprint another case already has.
Unfit(kind, rep, run) ==
    \/ rep.env # NoEnv /\ run.env # rep.env
    \/ /\ kind = "benchmark" /\ run.group = "cached_miss"
       /\ \E c \in Cases : rep.runs[<<"cached_miss", c>>] # NoRun
                             /\ rep.runs[<<"cached_miss", c>>].fp = run.fp

\* Mutant of Superseded: the attempt it replaces stays accepted.
SupersededNone(attempts, run) == attempts

\* A rerun supersedes every other accepted attempt of its group and case.
Superseded(attempts, run) ==
    [i \in DOMAIN attempts |->
        IF attempts[i].group = run.group /\ attempts[i].case = run.case
             /\ attempts[i].id # run.id
        THEN [attempts[i] EXCEPT !.accepted = FALSE]
        ELSE attempts[i]]

\* What the caller of _run_with_retries does with an accepted run.
Taken(kind, rep, attempts, run) ==
    LET all == rep.attempts \o attempts
        kept == IF kind = "rerun" THEN Superseded(all, run) ELSE all
        next == [rep EXCEPT !.runs[<<run.group, run.case>>] = run,
                            !.attempts = kept, !.env = run.env]
    IN  IF Unfit(kind, rep, run)
        THEN NoneAccepted(kind, rep,
                 [attempts EXCEPT ![Len(attempts)].accepted = FALSE,
                                  ![Len(attempts)].status = "failed"])
        ELSE IF kind = "rerun" THEN [next EXCEPT !.status = "complete"] ELSE next

----------------------------------------------------------------------------
(* Sessions *)

Init ==
    /\ disk = NoReport /\ cache = {} /\ world = [env |-> 0, abi |-> 0]
    /\ pc = "off" /\ report = NoReport /\ job = IdleJob /\ cur = Idle
    /\ tries = <<>> /\ failure = "none"
    /\ server = NoServer /\ orphan = "none" /\ late = {} /\ stray = {}
    /\ sessions = 0 /\ faults = 0 /\ signals = 0

\* The case order of a full benchmark: native, MISS, HIT of each case.
CaseOrder == CHOOSE s \in [1..Cardinality(Cases) -> Cases] :
                 \A i, j \in DOMAIN s : s[i] = s[j] => i = j
AllMeasurements ==
    [i \in 1..3 * Len(CaseOrder) |->
        <<Groups[((i - 1) % 3) + 1], CaseOrder[((i - 1) \div 3) + 1]>>]

StartBenchmark ==
    /\ pc = "off" /\ sessions < MaxSessions
    /\ sessions' = sessions + 1
    /\ report' = EmptyReport(sessions + 1)
    /\ job' = [IdleJob EXCEPT !.kind = "benchmark", !.todo = AllMeasurements]
    /\ pc' = "write"
    /\ UNCHANGED <<disk, cache, world, cur, tries, failure, server, left, faults, signals>>

\* --rerun GROUP CASE [CASE ...]: distinct cases of one group.
StartRerun ==
    /\ pc = "off" /\ sessions < MaxSessions /\ Loadable(disk)
    /\ \E i \in DOMAIN Groups, cs \in RerunLists :
         job' = [IdleJob EXCEPT !.kind = "rerun",
                                !.todo = [k \in DOMAIN cs |-> <<Groups[i], cs[k]>>]]
    /\ sessions' = sessions + 1 /\ report' = disk /\ pc' = "next"
    /\ UNCHANGED <<disk, cache, world, cur, tries, failure, server, left, faults, signals>>

\* The loop over cases and groups: the next measurement's first attempt, or the
\* end.  A full benchmark ends with its summaries and one more write.
NextMeasurement ==
    /\ pc = "next" /\ job.todo # <<>>
    /\ LET g == Head(job.todo)[1]
           c == Head(job.todo)[2]
       IN  /\ job' = [job EXCEPT !.todo = Tail(@),
                                 !.fp = ExpectedFp(job.kind, report, g, c),
                                 !.delete = DeleteFirst(job.kind, report, g, c)]
           /\ cur' = NewAttempt(Len(report.attempts) + 1, g, c)
    /\ tries' = <<>> /\ pc' = "launch"
    /\ UNCHANGED <<disk, cache, world, report, failure, server, left, budget>>

Finish ==
    /\ pc = "next" /\ job.todo = <<>>
    /\ IF job.kind = "benchmark" /\ report.status = "running" /\ Summarisable(report)
       THEN report' = [report EXCEPT !.status = "complete"] /\ pc' = "write"
       ELSE report' = report /\ pc' = "exit"
    /\ UNCHANGED <<disk, cache, world, job, cur, tries, failure, server, left, budget>>

\* _write_report: a temporary file, then os.replace.
Write ==
    /\ pc = "write"
    /\ disk' = report
    /\ pc' = IF report.status = "running" \/ (job.kind = "rerun" /\ report.status = "complete")
             THEN "next" ELSE "exit"
    /\ UNCHANGED <<cache, world, report, job, cur, tries, failure, server, left, budget>>

\* The key and the entry of the attempt's prompt on its server, and what of it is
\* not saved if nobody waits for it any more.
KeyNow == FpOf(report.bench, cur.case, server.abi)
Saves == IF cur.group = "native" THEN {} ELSE {KeyNow}
Unfinished == IF pc = "execute" /\ server.state = "alive" THEN Saves \ cache
              ELSE server.saving

\* The process is gone; a server still alive is on its own, and goes on.
Leave ==
    /\ pc' = "off" /\ report' = NoReport /\ job' = IdleJob /\ cur' = Idle
    /\ tries' = <<>> /\ failure' = "none" /\ server' = NoServer
    /\ orphan' = IF server.state = "alive" THEN "listening" ELSE orphan
    /\ late' = late \cup Unfinished /\ stray' = stray

Exit == pc = "exit" /\ Leave /\ UNCHANGED <<disk, cache, world, budget>>

----------------------------------------------------------------------------
(* One attempt (_run_one) *)

Fault == faults < MaxFaults /\ faults' = faults + 1

\* Mutant of Raise: a shutdown is raised on at once.
RaiseUncleaned(f) ==
    /\ failure' = f /\ cur' = [cur EXCEPT !.status = "failed"]
    /\ pc' = IF server.state = "none" \/ f = "shutdown" THEN "settle" ELSE "stop"

\* The try block ends with an exception: cleanup comes next.
Raise(f) ==
    /\ failure' = f /\ cur' = [cur EXCEPT !.status = "failed"]
    /\ pc' = IF server.state = "none" THEN "settle" ELSE "stop"

\* The port must be free; then a fresh server is started.
Launch ==
    /\ pc = "launch"
    /\ IF orphan = "listening"
       THEN Raise("error") /\ UNCHANGED server
       ELSE server' = Launched /\ pc' = "ready" /\ UNCHANGED <<cur, failure>>
    /\ UNCHANGED <<disk, cache, world, report, job, tries, left, budget>>

\* The server answers, owns the port and has the nodes.
Ready ==
    /\ pc = "ready" /\ server.state = "alive"
    /\ cur' = [cur EXCEPT !.env = server.env]
    /\ pc' = IF job.delete = NoFp THEN "prepare" ELSE "delete"
    /\ UNCHANGED <<disk, cache, world, report, job, tries, failure, server, left, budget>>

\* POST /delete, then look that no artifact is left.
DeleteEntry ==
    /\ pc = "delete" /\ server.state = "alive"
    /\ cache' = cache \ {job.delete} /\ stray' = stray \ {job.delete} /\ pc' = "prepare"
    /\ UNCHANGED <<disk, world, report, job, cur, tries, failure, server, orphan, late, budget>>

\* Prewarm and evict; a HIT's entry has to be there to be prewarmed.
Prepare ==
    /\ pc = "prepare"
    /\ IF cur.group = "cached_hit" /\ job.fp \notin cache
       THEN Raise("error")
       ELSE pc' = "execute" /\ UNCHANGED <<cur, failure>>
    /\ UNCHANGED <<disk, cache, world, report, job, tries, server, left, budget>>

\* What the server does with the prompt: its log and whether it encoded.
Hits == cur.group # "native" /\ KeyNow \in cache
Served ==
    [server EXCEPT !.event = IF cur.group = "native" THEN "none"
                             ELSE IF Hits THEN "HIT" ELSE "MISS",
                   !.fp = IF cur.group = "native" THEN NoFp ELSE KeyNow,
                   !.encoded = ~Hits]

\* What the memory sampler sees on the GPU besides the server: an orphan is always
\* seen (the sampling is assumed not to miss it).
Contaminated(other) == other \/ orphan # "none"

\* The prompt completes.  Another process on the GPU is a fault.
Execute ==
    /\ pc = "execute" /\ server.state = "alive"
    /\ server' = Served /\ cache' = cache \cup Saves
    /\ \E f \in BOOLEAN :
         /\ cur' = [cur EXCEPT !.foreign = Contaminated(f), !.encoded = ~Hits]
         /\ IF f /\ orphan = "none" THEN Fault ELSE UNCHANGED faults
    /\ pc' = "verify"
    /\ UNCHANGED <<disk, world, report, job, tries, failure, left, sessions, signals>>

\* The prompt completes, but the entry could not be saved: the node only warns.
ExecuteUnsaved ==
    /\ pc = "execute" /\ server.state = "alive" /\ cur.group # "native" /\ ~Hits /\ Fault
    /\ server' = Served
    /\ cur' = [cur EXCEPT !.foreign = Contaminated(FALSE), !.encoded = TRUE]
    /\ pc' = "verify"
    /\ UNCHANGED <<disk, cache, world, report, job, tries, failure, left, sessions, signals>>

\* The server nobody waits for: it may have saved its entry, or save it still.
Abandoned == [server EXCEPT !.saving = Unfinished]

\* The prompt fails or times out.
ExecuteFails ==
    /\ pc = "execute" /\ server.state = "alive" /\ Fault
    /\ server' = Abandoned
    /\ Raise("error")
    /\ UNCHANGED <<disk, cache, world, report, job, tries, left, sessions, signals>>

\* Mutant of Verified: any fingerprint will do.
VerifiedByEventOnly ==
    IF cur.group = "native" THEN server.event = "none"
    ELSE /\ server.event = (IF cur.group = "cached_miss" THEN "MISS" ELSE "HIT")
         /\ server.fp \in cache

\* _verify_cache: exactly the expected event, the entry it names on disk, the
\* expected fingerprint, and no encoder in a HIT's log.
Verified ==
    CASE cur.group = "native" -> server.event = "none"
      [] cur.group = "cached_miss" ->
            /\ server.event = "MISS" /\ server.fp \in cache
            /\ job.fp \in {NoFp, server.fp}
      [] OTHER ->
            /\ server.event = "HIT" /\ server.fp \in cache
            /\ job.fp = server.fp /\ ~server.encoded

Verify ==
    /\ pc = "verify"
    /\ IF Verified
       THEN /\ cur' = [cur EXCEPT !.status = "success", !.fp = server.fp]
            /\ pc' = "stop" /\ UNCHANGED failure
       ELSE Raise("error")
    /\ UNCHANGED <<disk, cache, world, report, job, tries, server, left, budget>>

\* Any of these steps fails or times out on its own.
StepFails ==
    /\ pc \in {"ready", "delete", "prepare"} /\ Fault /\ Raise("error")
    /\ UNCHANGED <<disk, cache, world, report, job, tries, server, left, sessions, signals>>

\* Every one of them asks the server: a dead one is an error too.
ServerGone ==
    /\ pc \in {"ready", "delete", "execute"} /\ server.state = "dead" /\ Raise("error")
    /\ UNCHANGED <<disk, cache, world, report, job, tries, server, left, budget>>

----------------------------------------------------------------------------
(* Cleanup (the finally of _run_one, stop_live_server) *)

Stopping == {"stop", "sigint", "sigterm", "sigkill"}

\* SIGINT, unless the server has already exited.
Stop ==
    /\ pc = "stop"
    /\ pc' = IF server.state = "dead" THEN "release" ELSE "sigint"
    /\ UNCHANGED <<disk, cache, world, report, job, cur, tries, failure, server, left, budget>>

\* A wait ends because the server has exited.
Reap ==
    /\ pc \in {"sigint", "sigterm", "sigkill"} /\ server.state = "dead"
    /\ pc' = "release"
    /\ UNCHANGED <<disk, cache, world, report, job, cur, tries, failure, server, left, budget>>

\* Mutant of Escalate: SIGTERM is the last resort.
EscalateToTermOnly ==
    /\ pc = "sigint" /\ server.state = "alive" /\ pc' = "sigterm"
    /\ UNCHANGED <<disk, cache, world, report, job, cur, tries, failure, server, left, budget>>

\* A wait times out: the next signal.
Escalate ==
    /\ pc \in {"sigint", "sigterm"} /\ server.state = "alive"
    /\ pc' = IF pc = "sigint" THEN "sigterm" ELSE "sigkill"
    /\ UNCHANGED <<disk, cache, world, report, job, cur, tries, failure, server, left, budget>>

\* A cleanup error makes even a successful attempt a failed one.
CleanupError ==
    /\ cur' = [cur EXCEPT !.status = "failed"]
    /\ failure' = IF failure = "none" THEN "error" ELSE failure

\* It outlived SIGKILL (a process stuck in the kernel): given up on.
GiveUp ==
    /\ pc = "sigkill" /\ server.state = "alive" /\ Fault
    /\ CleanupError /\ pc' = "release"
    /\ UNCHANGED <<disk, cache, world, report, job, tries, server, left, sessions, signals>>

\* _wait_for_gpu_release: the server's processes are off the GPU and its memory
\* is back, or it is an error.
Release ==
    /\ pc = "release"
    /\ \/ server.state = "dead" /\ UNCHANGED <<cur, failure, faults>>
       \/ server.state = "dead" /\ Fault /\ CleanupError
       \/ server.state = "alive" /\ CleanupError /\ UNCHANGED faults
    /\ pc' = "settle"
    /\ UNCHANGED <<disk, cache, world, report, job, tries, server, left, sessions, signals>>

\* Mutant of MayRetry: one attempt too many.
MayRetryOnceMore == Len(tries) < MaxAttempts
\* Mutant of RetryEntry: the retry keeps what the contaminated attempt saved.
RetryKeepsEntry == NoFp

\* Whether attempts are left, and the entry a retry deletes first: the one a
\* contaminated MISS has just made.
MayRetry == Len(tries) + 1 < MaxAttempts
RetryEntry == IF cur.group = "cached_miss" THEN cur.fp ELSE NoFp

\* _run_one returns, and _run_with_retries and its caller act on the attempt: a
\* shutdown is raised on and nothing is kept; a clean success is accepted; a
\* contaminated one is tried again, a MISS after deleting the entry it made;
\* anything else ends the session.
Settle ==
    /\ pc = "settle"
    /\ LET clean == cur.status = "success" /\ ~cur.foreign
           again == cur.status = "success" /\ cur.foreign /\ MayRetry
           run == [cur EXCEPT !.accepted = clean]
       IN  IF failure = "shutdown"
           THEN pc' = "exit" /\ UNCHANGED <<report, job, cur, tries, server, failure>>
           ELSE IF again
           THEN /\ tries' = Append(tries, run)
                /\ cur' = NewAttempt(cur.id + 1, cur.group, cur.case)
                /\ job' = [job EXCEPT !.fp = IF RetryEntry = NoFp THEN @ ELSE RetryEntry,
                                      !.delete = RetryEntry]
                /\ pc' = "launch" /\ server' = NoServer
                /\ UNCHANGED <<report, failure>>
           ELSE /\ report' = IF clean
                             THEN Taken(job.kind, report, Append(tries, run), run)
                             ELSE NoneAccepted(job.kind, report, Append(tries, run))
                /\ pc' = "write"
                /\ server' = IF clean THEN NoServer ELSE server
                /\ UNCHANGED <<job, cur, tries, failure>>
    /\ UNCHANGED <<disk, cache, world, left, budget>>

----------------------------------------------------------------------------
(* What happens around it *)

\* A server exits: asked to, or by crashing.  After SIGKILL it must.
ServerExits ==
    /\ server.state = "alive" /\ pc # "off"
    /\ IF pc \in {"sigint", "sigterm", "sigkill"} THEN UNCHANGED faults ELSE Fault
    /\ server' = [server EXCEPT !.state = "dead", !.saving = {}]
    /\ UNCHANGED <<disk, cache, world, control, left, sessions, signals>>

\* An orphan stops listening, or exits.
OrphanMoves ==
    /\ orphan # "none"
    /\ orphan' \in (IF orphan = "listening" THEN {"mute", "none"} ELSE {"none"})
    /\ late' = IF orphan' = "none" THEN {} ELSE late
    /\ UNCHANGED <<disk, cache, world, control, server, stray, budget>>

\* A prompt nobody waits for is encoded to its end: on this attempt's server while
\* that is being stopped, or on one that is on its own, whenever it gets there.
ServerSaves ==
    /\ server.saving # {}
    /\ cache' = cache \cup server.saving
    /\ server' = [server EXCEPT !.saving = {}]
    /\ UNCHANGED <<disk, world, control, left, budget>>
OrphanSaves ==
    /\ late # {} /\ late' = {}
    /\ cache' = cache \cup late /\ stray' = stray \cup late
    /\ UNCHANGED <<disk, world, control, server, orphan, budget>>

\* ComfyUI, Python or the driver is updated; running servers keep what they have.
Update ==
    /\ Fault /\ world' \in Worlds \ {world}
    /\ UNCHANGED <<disk, cache, control, server, left, sessions, signals>>

\* An entry is deleted in the Cache Manager or by hand.
DeletedByHand ==
    /\ Fault /\ \E f \in cache : cache' = cache \ {f} /\ stray' = stray \ {f}
    /\ UNCHANGED <<disk, world, control, server, orphan, late, sessions, signals>>

\* The report cannot be written: the session ends with the file as it was.
WriteFails ==
    /\ pc = "write" /\ Fault /\ pc' = "exit"
    /\ UNCHANGED <<disk, cache, world, report, job, cur, tries, failure, server, left, sessions, signals>>

\* SIGINT or SIGTERM.  In the try block it ends the attempt: as itself when it
\* is raised inside a coroutine, as a cancellation when the event loop was
\* waiting.  While the GPU is waited for it becomes a cleanup error.  While the
\* server is being stopped it leaves everything as it is; between attempts too.
Signal ==
    /\ pc # "off" /\ signals < MaxSignals /\ signals' = signals + 1
    /\ \/ /\ pc \in {"launch", "ready", "delete", "prepare", "execute", "verify"}
          /\ \E f \in {"shutdown", "error"} : Raise(f)
          /\ server' = Abandoned /\ UNCHANGED <<report, job, tries, left>>
       \/ /\ pc = "release" /\ CleanupError /\ pc' = "settle"
          /\ UNCHANGED <<report, job, tries, server, left>>
       \/ pc \in Stopping \cup {"next", "write", "settle", "exit"} /\ Leave
    /\ UNCHANGED <<disk, cache, world, sessions, faults>>

\* The orchestrator is killed, or the machine goes down with its server.
Killed ==
    /\ pc # "off" /\ Fault /\ Leave
    /\ UNCHANGED <<disk, cache, world, sessions, signals>>
Reboot ==
    /\ pc # "off" \/ orphan # "none"
    /\ Fault
    /\ pc' = "off" /\ report' = NoReport /\ job' = IdleJob /\ cur' = Idle
    /\ tries' = <<>> /\ failure' = "none" /\ server' = NoServer
    /\ orphan' = "none" /\ late' = {}
    /\ UNCHANGED <<disk, cache, world, stray, sessions, signals>>

Attempt == Launch \/ Ready \/ DeleteEntry \/ Prepare \/ Execute \/ ExecuteUnsaved
             \/ ExecuteFails \/ Verify \/ StepFails \/ ServerGone
Cleanup == Stop \/ Reap \/ Escalate \/ GiveUp \/ Release \/ Settle
Session == StartBenchmark \/ StartRerun \/ NextMeasurement \/ Finish \/ Write \/ Exit
Around == ServerExits \/ OrphanMoves \/ ServerSaves \/ OrphanSaves \/ Update \/ DeletedByHand
            \/ WriteFails \/ Signal \/ Killed \/ Reboot
Next == Session \/ Attempt \/ Cleanup \/ Around

Spec == Init /\ [][Next]_vars

\* The script runs on once started, and a killed process dies.
Steps == NextMeasurement \/ Finish \/ Write \/ Exit \/ Launch \/ Ready \/ DeleteEntry
           \/ Prepare \/ Execute \/ Verify \/ ServerGone \/ Stop \/ Reap \/ Escalate
           \/ Release \/ Settle
FairSpec == Spec /\ WF_vars(Steps) /\ WF_vars(pc = "sigkill" /\ ServerExits)
----------------------------------------------------------------------------
(* Properties *)

TypeOK ==
    /\ disk \in Reports \cup {NoReport} /\ report \in Reports \cup {NoReport}
    /\ cache \subseteq Fps \ {NoFp} /\ world \in Worlds
    /\ job.kind \in {"none", "benchmark", "rerun"} /\ job.fp \in Fps /\ job.delete \in Fps
    /\ job.todo \in Seq(Pairs)
    /\ tries \in Seq(AttemptRecords) /\ Len(tries) < MaxAttempts
    /\ failure \in {"none", "error", "shutdown"}
    /\ server.state \in {"none", "alive", "dead"} /\ server.event \in Events
    /\ orphan \in {"none", "listening", "mute"}
    /\ late \cup stray \cup server.saving \subseteq Fps \ {NoFp}

\* One accepted, successful, uncontaminated run per group and case, and in the
\* audit trail no other accepted attempt of that group and case.
OneRunEach(d) ==
    \A p \in Pairs :
        /\ d.runs[p] # NoRun /\ RunOK(d.runs[p])
        /\ <<d.runs[p].group, d.runs[p].case>> = p
        /\ {i \in DOMAIN d.attempts : /\ d.attempts[i].accepted
                                      /\ <<d.attempts[i].group, d.attempts[i].case>> = p}
             = {i \in DOMAIN d.attempts : d.attempts[i] = d.runs[p]}

\* All runs on one server environment, each HIT of the entry its case's MISS made.
Comparable(d) ==
    /\ \A p \in Pairs : d.runs[p].env = d.env
    /\ \A c \in Cases : /\ d.runs[<<"cached_miss", c>>].fp # NoFp
                        /\ d.runs[<<"cached_hit", c>>].fp = d.runs[<<"cached_miss", c>>].fp

\* What a group is named for is what its servers did.
Genuine(d) == \A p \in Pairs : d.runs[p].encoded = (p[1] # "cached_hit")

\* A report that says it is complete, or that only its last rerun failed, holds a
\* whole set of comparable measurements, whatever failed, was retried, replaced,
\* updated or killed on the way (_run_benchmark, _run_reruns, _write_report).
WholeReport ==
    disk # NoReport /\ disk.status \in {"complete", "rerun_failed"} =>
        OneRunEach(disk) /\ Comparable(disk) /\ Genuine(disk)

\* Of a whole report d, a later one of the same benchmark, e, differs in at most one
\* run, and has all attempts.
Preserves(d, e) ==
    Loadable(d) /\ e # d /\ e.bench = d.bench =>
        /\ e.status \in {"complete", "rerun_failed"}
        /\ Cardinality({p \in Pairs : e.runs[p] # d.runs[p]})
              <= (IF e.status = "complete" THEN 1 ELSE 0)
        /\ \A i \in DOMAIN d.attempts :
              e.attempts[i] \in {d.attempts[i], [d.attempts[i] EXCEPT !.accepted = FALSE]}

\* "Existing ... accepted result was preserved in the JSON": once whole, the file
\* of a benchmark changes at most one run at a time, none when the rerun failed,
\* never loses an attempt from the audit trail and never stops being whole.
ResultsPreserved == [][Preserves(disk, disk')]_vars

\* A MISS is measured cold: when its prompt is run on the installation the report
\* is about, the entry is not there, after whatever earlier attempt or session
\* made it (the deletes of _run_with_retries and _run_reruns); unless a server that
\* nobody could stop has saved it since.
MissStartsCold ==
    pc = "execute" /\ cur.group = "cached_miss" /\ job.fp \in {NoFp, KeyNow}
        => KeyNow \notin cache \ stray

\* No failing step and no signal in the measurement leaves the server running: it
\* is left to itself only by a signal while it is being stopped, by a kill of the
\* orchestrator, or when it outlived SIGKILL (_run_one's finally).
ServerNotLeft ==
    [][ orphan = "none" /\ orphan' # "none" =>
          \/ pc \in Stopping
          \/ faults' = faults + 1
          \/ cur.status = "failed" /\ faults > 0 /\ pc \in {"settle", "write", "exit"}
      ]_vars

\* Every session ends: no wait of an attempt, a retry or the cleanup is for ever.
SessionsEnd == pc # "off" ~> pc = "off"
============================================================================
