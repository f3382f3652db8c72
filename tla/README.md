# A verification project for ComfyUI-MiniMaxH3-CLIPCached

The program caches on disk what a 27 GB text encoder computes, and shows the cache in a browser
panel. This directory holds TLA+ models of the cache, the panel and the benchmark that measures
them, the TLC configurations that check them on small instances, and TLAPS proofs of every
safety property for any size. Everything is written from the code; `PROJECT.json` maps each definition to the
lines it stands for.

    tlc -workers 2 -config ClipCache.cfg MCClipCache     # check a run
    tlapm ClipCache_proofs.tla                              # check the proofs

## 1. The system

Paths are relative to `src/`; `clip/` abbreviates `minimaxh3_clipcache/`.

| component | state | operations |
|---|---|---|
| `clip/proxy.py` CachedClipProxy | the encoder it loaded, the fingerprint and outcome of the last call; the process-wide `_encoder_load_lock` | `encode_from_tokens_scheduled`: look up, or load, encode, validate, unload, save |
| `clip/store.py` | `<fp>.json` (skeleton) and `<fp>.safetensors` (tensors), each with a generation id; temp files | save, load (with self-heal), delete, inspect, sweep of orphans |
| `clip/locking.py` | one lock per fingerprint | `get_lock` |
| `clip/verbose_store.py` | `<fp>.verbose.json`: a *system* block the nodes write, a *user* block the user edits | load, save, update, pair, delete |
| `clip/thumbnails.py` | `thumbnails/<fp>_<i>.jpg` | save, list, delete |
| `nodes.py` | per run: proxy, outcome, references | four nodes; describe the entry, trace references, pair the two entries of a dual run, fix a shared entry's size, safety-net unload |
| `clip/scanner.py` | none | list the directory, classify every pair, look twice at a bad one |
| `clip/routes.py` | none | `/check`, `/update`, `/delete`, `/thumbnail`, each in an executor thread under the fingerprint's lock with a timeout |
| `web/main.js` | the last list, one detail panel with its fields, a check and a render generation, three pools of object URLs | check, star, checkbox, Save, Delete, filter, fold pairs, load thumbnails, copy the prompt |
| `clip/encoder_abi.py`, `embeddings.py` | the ABI identity and the tokenizer, both computed once per process, failures included | read the encoder's source, resolve embeddings |
| `clip/loader.py`, `fingerprint.py` | none | stat and load the checkpoint; hash everything an encode depends on |
| `clip/provenance.py` | none | walk the prompt graph back from each reference slot to the files behind it |
| `clip/serialize.py` | none | conversion of nested containers |
| `clip/last_used.py` | last fingerprint of each node kind | record, read |
| `scripts/benchmark_conditioning.py`, `_live_server.py` | the report on disk, one server process per attempt | benchmark, rerun, retry, verify, stop the server |
| other `scripts/` | none | measurements run by hand |

How they interact. ComfyUI's executor thread runs nodes; the web server runs
`/check`, `/update` and `/delete` in executor threads of the same process, so
all of them meet on the files. Two kinds of locks order them: a lock per
fingerprint around every section that changes an entry's files, and, nested in
it, one lock around the encoder. The sections of one run are separate: encode
and save, description, references, pairing each take the lock anew, and anything
may happen to the entry in between. A Check takes no lock to read. The browser
sees the result through answers that may overtake each other, and keeps one
detail panel for whatever is open. The benchmark drives the whole from outside: it starts a
server for every attempt, queues one prompt, reads the cache's log and deletes entries over
`/delete`.

What is hard: races between runs, Deletes and sweeps of one entry; two renames that a failure or
a restart may separate; an unload that raises; read-modify-write of one sidecar by nodes and by
the user; sections of two dual runs that need the same two locks; a lock-free reader; two caches
on top of each other whose keys are read from files that change, at several moments of one run;
in the page, handlers that go on after an `await`; references that three files line up by a key;
and, in the benchmark, a signal or a failing step at any point of a session that replaces
measurements one by one. `PROJECT.json` lists each as a hazard, at its line, with the properties
that cover it.

What makes each part correct:

* *cache*: a HIT is a whole entry of one generation, the one on disk; an encode
  happens only on a miss; one encoder at a time; a success is readable; nothing
  is lost but by intent; nothing is left behind;
* *sidecar*: edits survive, deleted entries stay deleted, a pair agrees with
  itself, and what earlier runs recorded lives on;
* *keys*: nothing made from an older checkpoint, another implementation or another
  embedding is returned, whichever cache answers;
* *Check*: no alarm about a healthy pair, no clean bill for a broken one;
* *page*: the list never steps back and in the end agrees with the server, texts
  are neither lost nor moved to another entry, every entry stays within reach; each reference
  is shown with its own files, each picture while it is wanted;
* *benchmark*: a report that says it is complete is; a MISS is cold; a failed rerun costs
  nothing; no server is left behind.

## 2. The modules

**`AtomicCache`** is the abstract specification: per fingerprint one entry, drawn,
published, dropped and served as a whole.

**`ClipCache`** is the implementation: proxy, store, locks, Delete and the orphan
sweep. A thread's program counter `pc` says which call it makes next, and one
action is one file-system call, one lock operation or one call into the encoder;
what lies between is local to the thread and cannot be observed.

| model | code |
|---|---|
| `json`, `st` | the two files of a fingerprint, reduced to the generation id they carry; 0 is absent |
| `tmp` | temp files, named by fingerprint, generation and kind |
| `fpLock`, `encLock` | `get_lock(fp)`, `_encoder_load_lock` |
| `resident`, `stuck` | proxies holding a loaded encoder; encoders whose proxy is gone and whose unload failed |
| `Lookup`, `Heal`, `ReadJson`, `ReadHeader`, `LoadFile`, `ReadError`, `ValidateHit` | `load_conditioning()` and the validation of a HIT |
| `LockEnc`, `LoadClip`, `Encode`, `Unload`, `UnlockEnc`, `SafetyNet` | the MISS branch and `_release_real_clip_safety_net()` |
| `WriteTmp`, `WriteTmpJson`, `PublishSt`, `PublishJson`, `CleanTmp` | `save_conditioning()` |
| `UnlinkJson`, `UnlinkSt`, `LockTimeout` | `/delete` and `delete_conditioning()` |
| `SweepNext`, `GcTry`, `GcRecheck`, `GcUnlink`, `GcUnlock`, `SweepDone` | `gc_orphaned_cache_files()` |
| `Crash` | the process dies anywhere and is started again |

Generation ids are random in the code and counters here: all the code does with
them is compare them for equality, and a counter also says which is newer. A file
whose content cannot be parsed is not told apart from a missing one, because
`load_conditioning()` answers both with a MISS; an `OSError` it does not expect is
`ReadError`. Failing calls come out of one budget, `MaxFaults`.

**`CacheScan`** extends `ClipCache` by one more thread, the scanner: it lists pairs,
reads skeleton and header of each without a lock, and goes back to a bad one under
the lock if the lock is free.

**`Sidecar`** is the life of `<fp>.verbose.json` and the thumbnails. A request is a
single or dual node run, an edit or a Delete; the cached encode is one step that
decides HIT or MISS and leaves a core file (`ClipCache` has its inside). Each locked
section is `Enter`, `PlanSection` (load, decide, thumbnails), `CarryUser` (the second
read in `save_verbose()`), `Write`, `Leave`; `Synced`, `Traced`, `Paired`, `Resized`
and `Edited` say what a section makes of the sidecar it loaded. A load may fail for a
moment (`misread`); the code then treats the sidecar as missing.

**`PanelUI`** is the page and the server it talks to. A handler runs up to its next
`await`, and an answer runs the rest: `PostDone`, `PostFailed`, `CheckDone`,
`CheckFailed`. `Populate` and `Reattach` are `populateDetail()` and
`reattachOpenDetailAfterRender()`, `Folded` is `resolvePairing()`. Server side, an update
and a Delete are one step (they hold the lock), a Check reads entry by entry, and node
runs write in between.

**`Freshness`** is one node with one prompt that is queued again and again: `SigAbi`,
`SigEmb`, `SigStat` are `_is_changed_common()`, `Compare` and `Done` ComfyUI's execution
cache, `Stat` and `Abi` `_build_cached_proxy()`, `Key` to `Save` the proxy, without the locks and
files that `ClipCache` is about. Every read of something outside the process is a step of
its own, and `ReplaceCkpt`, `RemoveCkpt`, `SwapEmb`, `UpdateSource`, `Restart` may fall
anywhere. What an encode was made of is recorded in it (`made`) and compared with what its key
claims. A checkpoint is identified by its stat, so a replacement is a new version; an
embedding by its content, so it may come back.

**`Provenance`** is pure: `Walk` is the breadth-first walk of `provenance.py` over a prompt
(node id to sequence of inputs), `CollectRefSources` its result by slot, `Items` the compacted
slots in the order the encoder gets them, `References` what `nodes.py` describes an entry with,
`RefSources` and `DetailRefCells` the join in the page. `TrailBehind` and `IsTrail` define by
reachability and distance what a walk should find; they share nothing with `Walk` but the prompt.

**`DetailPanel`** composes it with the runs that describe and trace entries and with the page
that shows them. `Describe` and `Trace` are the two locked sections of a run (another run of the
user's comes after both: ComfyUI executes one prompt at a time), `Forget` a Delete elsewhere.
The page's thumbnails are `thumbs`: the images in the document, the requests out, the URLs alive
and the three pools that will revoke them (list rows, reference cells, copy result); `Paint` throws
a place's images away, revokes its pool and asks anew. `tab` is the page's `currentVariant`: `Listed`
are the entries of the node whose tab is chosen, `SwitchVariant` closes the panel and renders the
other list, and what a copy shows depends on the tab there is when it settles. `copying` holds the `copyPrompt()` calls
that wait for the clipboard, `button` the copy icon with its revert timers.

**`Benchmark`** is a session of `scripts/benchmark_conditioning.py` with the server it starts and
stops. `NextMeasurement` to `Settle` are one attempt: `Launch`, `Ready`, `DeleteEntry`, `Prepare`,
`Execute`, `Verify`, then the `finally` of `_run_one` with `stop_live_server()` (`Stop`, `Reap`,
`Escalate`, `GiveUp`, `Release`); `Settle` is what `_run_with_retries()` and its caller make of it.
`report` is the dictionary in memory, `disk` the file. `Signal` may fall at every step: in a
coroutine or in the event loop (an attempt that is cancelled), during the wait for the GPU (a
cleanup error), while the server is being stopped (it propagates at once). The server and the node
in it are external: it hits when the entry of the key is there and saves it otherwise. A prompt that
is given up on (`ExecuteFails`, `Signal`) is not recalled: the server may have saved its entry, saves it
while it is being stopped (`ServerSaves`), or, if it outlives the session, at any later time
(`OrphanSaves`); `late` is what servers of former sessions may still save and `stray` a history
variable, what of the cache came that way.

**`MC*`** modules hold model values, symmetry and, for `Sidecar` and `DetailPanel`, the requests
and the prompts.
**`*_proofs`** modules hold the theorems. The refinement of `AtomicCache` is proved in
`ClipCache_proofs` and `CacheScan_proofs` (which builds on it); `Provenance` has no state, and what
`DetailPanel` uses of it is covered in `DetailPanel_proofs`; `SidecarDual_proofs` builds on `Sidecar_proofs`. In every model module, a definition announced
as *mutant of X* is a plausible mistake in X; no specification uses it, and it exists to
show that a property notices.

## 3. The runs

| run | instance | what it shows |
|---|---|---|
| `clip_cache` | 2 fingerprints, one of a wrong checkpoint; 2 threads, 3 requests, 2 faults, 1 restart | what is served, encoded, saved, lost and left behind when runs, refreshes, Deletes and Checks race; that every request ends; the refinement of `AtomicCache` |
| `cache_scan` | 1 fingerprint, 3 requests and a scanner | the Check's verdicts |
| `sidecar` | 2 fingerprints, 1 node thread, 1 manager, 3 requests, 1 fault | edits, phantoms, pairs, sizes, history |
| `sidecar_live` | 2 node threads with crossed pairs, 1 manager, 2 requests: two dual runs, or a dual run and a Delete | nobody waits for ever |
| `freshness` | 2 embedding contents or none, 3 queued runs, 3 changes of the world, 1 fault | what the execution cache and the disk cache may return after checkpoint, embedding or source changed |
| `panel` | 2 entries, 2 overlapping handlers, 2 clicks, 1 upset (a failed request or a node run's write) | list, texts, checkbox, pairs |
| `benchmark` | 2 cases, 3 sessions (benchmark or rerun), 2 attempts, 1 fault, 1 signal | the report, cold misses, servers left behind and what they save late, and that sessions end |
| `detail_panel` | 6 families of prompts, 1 run, 4 clicks | files beside references, thumbnails and their URLs, copy feedback |
| `freshness_update`, `panel_revert`, `slot_join`, `copy_leak` | as above | four statements of the code's own comments that the code does not keep (section 6) |

Why the bounds suffice. Two threads make every race of two; locks admit no third party to a
section, and a third thread only waits. Three requests are a save, one that races it and one
that finds what they left; the second fault is what separates a failed rename from a failed
clean-up, and a failed unload from a failed retry. The proofs of section 4 cover every number of
threads, requests, clicks, sessions and faults. The bounds count requests, not steps: a bound never stops a
request in the middle. Two fingerprints are all that two locks, a pair, or two rows need. In
`PanelUI` two handlers in flight suffice to overtake each other; opening, typing and filtering
are not bounded. In `Freshness` a stale answer takes a run that fills a cache, a change and a
run that asks again; the third run and the third change leave room for a change inside a run and
for a restart. In `Benchmark` the third session reruns what a rerun has already replaced or
failed to; `MaxAttempts` is two instead of three because a retry of a retry is treated
alike. `sidecar_live` has two requests, so a Delete meets one dual run there and not two at once; a
Delete takes one lock at a time and `clip_cache` has it race saves and refreshes. In
`DetailPanel` the families of prompts are chosen for the walk and the join: a fan-in
of uneven depth, a shared loader, a loop, a leaf without a file, literals on inner nodes,
soundtracks with and without their video, keyframes, the same pictures in other slots, and an entry
under each of the two tabs; four
clicks open, copy, move on and come back. Symmetry is used only in runs without liveness
properties, over threads (in `PanelUI`, handlers and entries; in `Freshness`, embedding
contents), which no definition tells apart; `NoText` is one of the `Texts`, so texts are not
permuted.

`CHECK_DEADLOCK FALSE` appears in the page's runs, because the user may stop clicking, and in
`benchmark`, because no session has to be started.
Elsewhere `Rest` lets a system that has served all its requests stand still, and any other
standstill is reported.

Fairness. `FairSpec` asks for weak fairness of each thread's steps: a started request is
an operating-system thread in straight-line code, and the only thing it can wait for is a
lock. Weak fairness is enough in these instances because requests are bounded, so a lock
that is free again and again is at some point free for good. `threading.Lock` promises
no order among waiters, so nothing is claimed about unboundedly many requests overtaking
one. The benchmark's `FairSpec` asks that the script goes on once it runs (every wait in it has a
timeout or is on a process) and that a process that was sent SIGKILL dies; that a server obeys
SIGINT or SIGTERM is not assumed. No fairness is assumed for requests, clicks, failures, signals or
restarts.

## 4. The proofs

Every invariant and every action property that a passing run checks is also a theorem, for all
values of the constants; so is the refinement. A property that needs the state of several actors
is not inductive as it stands, so each proof module states an inductive invariant, has one lemma
per conjunct (or per action) that every step preserves it, and a theorem `Invariance`; the
properties follow from it. TLC checked each of these invariants on the run's instance before it
was proved.

**`ClipCache_proofs`** (`IInv`). That a HIT is one entry depends on who may have written between
its three reads; the invariant supplies what each program counter may rely on:

* `Locks`, `Kinds`: at a locked section the thread owns the lock of *its* fingerprint (and,
  around the encoder, the encoder lock), and only the right requests get there;
* `Files`: generations on disk were drawn, tensors are never older than their skeleton, and
  between the renames the tensors on disk are those of the save;
* `Reads`: what a lookup has read is still on disk, because every writer needs the lock;
* `Saves`, `Encoders`, `Wrong`, `Gens`, `Temps`: success means readable; an encoder outside
  its lock belongs to a raised run; a wrong checkpoint never gets past validation; generations
  in use are the newest; each temp file has its save, up to one failing call.

The refinement maps `entry` to the generation of a matching pair and `served` to what a HIT
returned: `PublishJson` is the abstract `Publish`, `WriteTmp` draws, `PublishSt` over an entry,
`UnlinkJson` and no other action drop, `ValidateHit` serves. The lemmas are stated for any set of
lock owners that contains the threads, so that they hold with other lock holders about.

**`CacheScan_proofs`** (`ScanInv`) uses that: the scanner is one more owner, and `IInv` is kept
beside it. On top come the scanner's own facts: under its lock the scanner judges what is on disk
(`Held`); tensors that match a skeleton read without a lock were there when it was read (`Peeked`),
since a generation being saved is newer than the skeleton it replaces (`Fresh`); a pair with a
problem is judged again (`Judged`). `CheckIsRight`, the invariants of the cache,
`EntryLostOnlyByIntent` and the refinement of `AtomicCache` hold for the composed specification.

**`Sidecar_proofs`** (`SideInv`). `Plans` is the heart: from its read to its write, what the holder
of a lock is about to write keeps the date, the pairing and the user block of what is on disk
*now*, or, for an edit, everything but the user block. It holds because every writer of a sidecar
owns its lock (`Holding`), which the lemma `LockKeeps` turns into "no other thread touches
the files of my target". `NoPhantom` needs in addition that a Delete takes the sidecar before the
thumbnails (`Gone`) and that nothing is written for an entry that is not there.

**`SidecarDual_proofs`** (`DualInv`) proves `DualRunsAgree`: `Runs` says how far a dual run has
come (which entries are described if they are still there, which point at which, what is about to
be written), `Benign` what edits and Deletes may do in the meantime. `Differ` is the property
weakened by the pair that is being written. The theorem assumes one node thread: ComfyUI executes
prompts in one worker, and with two the property is false: TLC finds, on the instance of
`SidecarLive`, an entry of a run that is just done described anew by a second run's upscale pass.
It also assumes, in the property itself, that no call has failed: a failed second direction leaves
a one-sided pointer, which the code accepts.

**`Freshness_proofs`** (`FreshInv`): key and content of every entry on disk, of the memo of the
execution cache and of the run in progress agree, each up to what the code reads later than the key.
`Ages`: the stat that names an encode precedes the load that makes it, and versions of the checkpoint
only grow. `Implementations` and `Embeddings`: what an encode is kept under names the code and the
embedding in it, unless one of them changed between being read and being used. `Signs`: a forced
run has no signature, so the memo can neither answer nor keep it.

**`PanelUI_proofs`** (`PageInv`). `Versions`: a scan is no older than the list it will replace and no
newer than the server. `ListComing` makes `QuietPageIsTrue` inductive: unless a failure has been lost,
either the list is true, or the newest check is reading the truth, or a handler is still to start
one; `BoxComing` says the same of the open panel's checkbox. `Calling` (only the newest check will
be taken) and `OwnTexts` (the draft is the open entry's) support them.

**`DetailPanel_proofs`** (`PanelInv`). `Pictures`: each image with a URL is in the pool that will
revoke it, each image without one has a request that will be taken, and what a stale request brings
is dropped. `Entries`, `Opened` and `Runs`: `cells` are the join of the entry that is open, as some
run of the prompts described it. `Copying` and `Bounds` do the same for the feedback of a copy and for
the counters. `PanelShowsItsEntry` has the hypothesis `WalksAreRight`: the walk finds the trail behind each
slot of each prompt. That is a statement about a recursion over data, out of the prover's reach for
every prompt; TLC evaluates it for those of `MCDetailPanel`, as an assumption of the module.

**`Benchmark_proofs`** (`ReportInv`): the accepted runs of the report in memory and of the file
(`Measured`, one per measurement, with the trail of attempts behind it), what a rerun has
still to do (`Todo`), what the attempt at hand has seen (`Attempted`, `Expected`), that the entry of
a MISS that is about to be executed is not in the cache unless it strayed there (`Uncached`), whose
the running server is (`Serving`), and that all it may still save is the entry of its own attempt
(`Unsaved`). `ResultsPreserved` and `ServerNotLeft` are proved as properties of each step under it.

Assumptions on constants (each an `ASSUME` that TLC evaluates): bounds are natural numbers; the
values for "none" (`NoThread`, `NoFp`, `NoEmb`, `NoFile`, `NoRun`) are none of the others; node and manager
threads differ; requests are among the possible ones; the lists given to `--rerun` name each case
once; the cached node is a node of its prompt. `NothingAssumption` says that no attempt record
equals the value for "no run" and no fingerprint the one for "none".

Only model-checked: the liveness properties `RequestsEnd` (of `ClipCache` and of `Sidecar`) and
`SessionsEnd`, since fairness and ENABLED are out of the prover's reach; `WalksAreRight`, as said;
and the four statements of section 6, which are false.

## 5. What is not modelled

* `serialize.py`: a pure recursive conversion without state. Two facts about it: an empty
  key of an outermost mapping gives paths that others may have, and an integer key the path of
  its decimal string. ComfyUI's conditionings have neither.
* The framing of the fingerprint's stream: `Freshness` takes key and hash as injective, and
  `DetailPanel` that the stock nodes give the same tokens for the same references in the same order.
* In `Provenance`, how a literal is recognised (extension, annotation suffix) and resolved to a
  path, and the wording of labels.
* In the benchmark, how memory, times and page-cache residency are measured (`mincore`,
  `posix_fadvise`, the sampler), the statistics and the Markdown tables. `Contaminated` takes it
  that the sampling sees every process that stays on the GPU.
* `MissStartsCold` leaves out what a server that nobody could stop (its orchestrator was killed, or it
  outlived SIGKILL) saves late, between the delete and the prompt: the attempt is then a HIT, which
  `_verify_cache()` refuses, and `WholeReport` covers that.
* The other scripts: one measurement each, no state kept.
* What `encoder_abi.py` itself excludes: a change of the encoder's dependencies that leaves
  `minimax.py` and the version alone.
* A second process on the same directory: `docs/TECHNICAL_DETAILS.md` excludes it. What is
  modelled of a predecessor is what it leaves on disk (`Crash`).
* Torn writes below the rename (power loss): the code does not `fsync` and promises nothing.
* In the page sizes, the size limit's colours, sorting, search and tags, the status line, the
  launcher and the copying of fingerprints and paths; in the routes, the validation of an update's
  fields and the parsing of requests.
* Who should be listed when the favorites filter hides the base row of a favorite upscale entry
  (`main.js:1071`): the code folds first, and states no rule; `EntriesInReach` is about the
  unfiltered list.

## 6. Where comments and code part

* `freshness_update`: the encoder's source is hashed at the first queue, "the file cannot change
  while ComfyUI is running"; an update between start and first queue stores the old code's
  encode under the new code's hash, and the restarted server serves it.
* `panel_revert`: a refused favorite toggle flips the one checkbox of the page, which may
  show another entry by then.
* `slot_join`: the slot is said to be the identifier "both sides already agree on"; a HIT with the
  same references in other slots keeps the described slots and replaces the files by ones keyed by
  the new slots, so a reference is shown with another one's file, or with none.
* `copy_leak`: the reference hint "must never leak onto a freshly opened entry"; a copy that is
  still waiting for the clipboard when another entry is opened puts it there.

Facts the models show that no run of their own is spent on:

* `locking.py:12-13` and `proxy.py:38-43` promise one resident encoder at a time. After an unload that raises
  (the run fails loudly) the encoder lock is free, and until the safety net has run, or if it fails
  too, the next run loads a second one. `OneEncoder` is stated for unloads that work.
* `scanner.py:15-16` defines *inconsistent* as "both core files exist, but". A Delete that completes
  between listing and inspection has the Check report an entry that is gone. `CheckIsRight` excludes it.
* A detail thumbnail that arrives after another entry was opened (`main.js:1558`) adds its URL to the
  pool array that `renderDetailRefs()` has replaced; nothing revokes it. `ThumbsRight` excludes it.
* `_live_server.py:73-76`: a repeated signal during teardown is acceptable because "by then the
  child has already had at least one SIGINT". A first signal that falls just as the `finally`
  begins leaves a server that has had none. The message "active ComfyUI server was stopped"
  (`benchmark_conditioning.py:2232`) is then wrong; `ServerNotLeft` names the case.
* A signal that the event loop turns into a cancellation is recorded as a failed attempt and writes
  the report; one raised in a coroutine writes nothing. And a rerun of a MISS that fails has already
  deleted the entry the preserved report is about.

And a remark no run is needed for: `verbose_store.py:24-27` still describes the roll-back
("created[]") that `save_conditioning()` no longer has; `store.py:160-168` explains why it leaves
the first published file, and the properties of `clip_cache` show that it may.

## 7. Plan

Done, in this order: `AtomicCache` and `ClipCache` with its proofs, `CacheScan`, `Sidecar`,
`PanelUI`, `Freshness`, `Provenance` with `DetailPanel`, `Benchmark`; then the proofs of
`Freshness`, `CacheScan`, `Sidecar`, `DetailPanel`, `PanelUI`, `Benchmark` and of dual runs. Next:

1. `PanelShowsItsEntry` without its hypothesis: the join of the references with the sources is
   proved, what remains is the walk, by a least counterexample over its levels instead of an
   induction theorem.
2. The abstract cache under `Sidecar`'s encode step: that `Encode` of `Sidecar` is what `ClipCache`
   does between `LockFp` and `UnlockFp`.
