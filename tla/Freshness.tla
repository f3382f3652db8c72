----------------------------- MODULE Freshness -----------------------------
(***************************************************************************)
(* What an encode depends on besides its prompt, and how the two caches    *)
(* notice that it changed: ComfyUI's execution cache through IS_CHANGED    *)
(* (nodes.py: _is_changed_common), the disk cache through the fingerprint  *)
(* (fingerprint.py, encoder_abi.py, embeddings.py, loader.py).             *)
(*                                                                         *)
(* One node with a prompt that names one embedding is queued again and     *)
(* again by one executor thread, while files are replaced and the server   *)
(* restarts.  Each read of a file is an action, so a file may change       *)
(* between two reads of one run.                                           *)
(***************************************************************************)
EXTENDS Naturals, FiniteSets

CONSTANTS Contents,    \* contents of the embedding file
          NoEmb,       \* no such file: the reference resolves to nothing
          MaxRuns,     \* bound: times the node is queued
          MaxChanges,  \* bound: files replaced or removed, and restarts
          MaxFaults    \* bound: failing calls

ASSUME FreshnessAssumption ==
    NoEmb \notin Contents /\ MaxRuns \in Nat /\ MaxChanges \in Nat /\ MaxFaults \in Nat

VARIABLES
    ckpt,       \* version of the checkpoint: any rewrite has a new ctime
    there,      \* whether the checkpoint is there
    emb,        \* content of the embedding file
    source,     \* version of comfy/text_encoders/minimax.py on disk
    code,       \* the version this process imported
    abi, tok,   \* get_encoder_abi_id() and _get_minimax_tokenizer(), cached
    store,      \* the disk cache: what each key's encode was made of
    memo,       \* ComfyUI's execution cache: last signature and output
    pc, mode,
    sig,        \* what IS_CHANGED returned
    key,        \* the fingerprint of this run
    made,       \* what the conditioning it returns was made of
    origin,     \* where it comes from
    since, seen,\* history: the checkpoint when the run began, embeddings since
    mixed,      \* history: a version was read for the ABI that is not the code's
    swapped,    \* history: an embedding changed between reading and using it
    unresolved, \* history: a reference was left out of a key or signature
    runsLeft, changesLeft, faultsLeft

world == <<ckpt, there, emb, source, code>>
session == <<abi, tok>>
run == <<mode, sig, key, made, origin>>
history == <<since, seen, mixed, swapped, unresolved>>
budget == <<runsLeft, changesLeft, faultsLeft>>
vars == <<world, session, store, memo, pc, run, history, budget>>

Unread == [state |-> "unread", id |-> 0]
Unavailable == [state |-> "unavailable", id |-> 0]
Known(v) == [state |-> "known", id |-> v]
Identities == [ckpt : Nat, emb : Contents \cup {NoEmb}, abi : Nat]
Nothing == [ckpt |-> 0, emb |-> NoEmb, abi |-> 0]

\* A signature is NaN, equal to nothing, or an identity.
NaN == [nan |-> TRUE, id |-> Nothing]
Signatures == [nan : BOOLEAN, id : Identities]

Pcs == {"idle", "sigAbi", "sigEmb", "sigStat", "compare", "stat", "abi", "key", "lookup",
        "load", "encode", "save", "done"}

TypeOK ==
    /\ ckpt \in Nat /\ there \in BOOLEAN /\ emb \in Contents \cup {NoEmb}
    /\ source \in Nat /\ code \in Nat
    /\ abi \in [state : {"unread", "unavailable", "known"}, id : Nat]
    /\ tok \in {"unread", "unavailable", "built"}
    /\ store \subseteq [key : Identities, made : Identities]
    /\ \A e, d \in store : e.key = d.key => e = d
    /\ memo \in [sig : Signatures, made : Identities]
    /\ pc \in Pcs /\ mode \in {"auto", "refresh"}
    /\ sig \in Signatures /\ key \in Identities /\ made \in Identities
    /\ origin \in {"none", "memo", "hit", "encode"}
    /\ since \in Nat /\ seen \subseteq Contents \cup {NoEmb}
    /\ mixed \in BOOLEAN /\ swapped \in BOOLEAN /\ unresolved \in BOOLEAN
    /\ runsLeft \in Nat /\ changesLeft \in Nat /\ faultsLeft \in Nat

NoMemo == [sig |-> NaN, made |-> Nothing]

\* A fresh server over an empty cache directory.
Init ==
    /\ ckpt = 1 /\ there = TRUE /\ emb \in Contents \cup {NoEmb}
    /\ source = 1 /\ code = 1
    /\ abi = Unread /\ tok = "unread"
    /\ store = {} /\ memo = NoMemo
    /\ pc = "idle" /\ mode = "auto"
    /\ sig = NaN /\ key = Nothing /\ made = Nothing /\ origin = "none"
    /\ since = 0 /\ seen = {}
    /\ mixed = FALSE /\ swapped = FALSE /\ unresolved = FALSE
    /\ runsLeft = MaxRuns /\ changesLeft = MaxChanges /\ faultsLeft = MaxFaults

Fault == faultsLeft > 0 /\ faultsLeft' = faultsLeft - 1 /\ UNCHANGED <<runsLeft, changesLeft>>

-----------------------------------------------------------------------------
(* What a run reads.                                                       *)

\* get_encoder_abi_id(): the first call of the process reads minimax.py, and its
\* outcome, good or bad, is that of every later call.
GetAbi ==
    IF abi # Unread THEN UNCHANGED <<abi, mixed, budget>>
    ELSE \/ /\ abi' = Known(source) /\ UNCHANGED budget
            /\ mixed' = (mixed \/ source # code)
         \/ abi' = Unavailable /\ Fault /\ UNCHANGED mixed

\* resolve_prompt_embedding_tensors(): v is what it returns.  Without a tokenizer,
\* or when resolving raises, a reference counts as absent.
Resolve(v) ==
    \/ /\ tok # "unavailable" /\ v = emb
       /\ tok' = "built" /\ UNCHANGED <<unresolved, budget>>
    \/ /\ v = NoEmb /\ unresolved' = (unresolved \/ emb # NoEmb)
       /\ \/ tok = "unavailable" /\ UNCHANGED <<tok, budget>>
          \/ tok # "unavailable" /\ Fault
             /\ tok' \in (IF tok = "unread" THEN {"unavailable", "built"} ELSE {tok})

-----------------------------------------------------------------------------
(* IS_CHANGED and the execution cache.                                     *)

Queue(m) ==
    /\ pc = "idle" /\ runsLeft > 0
    /\ runsLeft' = runsLeft - 1
    /\ mode' = m
    /\ pc' = IF m = "refresh" THEN "compare" ELSE "sigAbi"
    /\ since' = ckpt /\ seen' = {emb}
    /\ UNCHANGED <<world, session, store, memo, sig, key, made, origin, mixed, swapped,
                   unresolved, changesLeft, faultsLeft>>

\* Without an ABI identity nothing may be reused.
SigAbi ==
    /\ pc = "sigAbi"
    /\ GetAbi
    /\ pc' = IF abi'.state = "known" THEN "sigEmb" ELSE "compare"
    /\ UNCHANGED <<world, tok, store, memo, run, since, seen, swapped, unresolved>>

\* Mutant of SigEmb: the digest is left out of the signature.
SigEmbLeftOut ==
    /\ pc = "sigEmb"
    /\ \E v \in Contents \cup {NoEmb} : Resolve(v) /\ sig' = [nan |-> FALSE, id |-> Nothing]
    /\ pc' = "sigStat"
    /\ UNCHANGED <<world, abi, store, memo, mode, key, made, origin, since, seen, mixed, swapped>>

SigEmb ==
    /\ pc = "sigEmb"
    /\ \E v \in Contents \cup {NoEmb} :
          Resolve(v) /\ sig' = [nan |-> FALSE, id |-> [Nothing EXCEPT !.emb = v]]
    /\ pc' = "sigStat"
    /\ UNCHANGED <<world, abi, store, memo, mode, key, made, origin, since, seen, mixed, swapped>>

\* Mutant of SigStat: the file name alone identifies the checkpoint.
SigStatByName ==
    /\ pc = "sigStat"
    /\ sig' = IF there THEN [sig EXCEPT !.id.abi = abi.id] ELSE NaN
    /\ pc' = "compare"
    /\ UNCHANGED <<world, session, store, memo, mode, key, made, origin, history, budget>>

\* resolve_clip_stat(); a missing checkpoint is left for execute() to report.
SigStat ==
    /\ pc = "sigStat"
    /\ sig' = IF there THEN [sig EXCEPT !.id.ckpt = ckpt, !.id.abi = abi.id] ELSE NaN
    /\ pc' = "compare"
    /\ UNCHANGED <<world, session, store, memo, mode, key, made, origin, history, budget>>

\* The executor returns the last output under an equal signature, and drops it
\* under any other one.
Compare ==
    /\ pc = "compare"
    /\ IF ~sig.nan /\ sig = memo.sig
       THEN made' = memo.made /\ origin' = "memo" /\ pc' = "done" /\ UNCHANGED memo
       ELSE memo' = NoMemo /\ pc' = "stat" /\ UNCHANGED <<made, origin>>
    /\ UNCHANGED <<world, session, store, mode, sig, key, history, budget>>

-----------------------------------------------------------------------------
(* execute().                                                              *)

\* Nothing of a run is left but what the caches keep.
Reset ==
    /\ mode' = "auto" /\ sig' = NaN /\ key' = Nothing /\ made' = Nothing
    /\ origin' = "none" /\ since' = 0 /\ seen' = {}

Raise == pc' = "idle" /\ Reset

\* _build_cached_proxy(): the stat that goes into the fingerprint ...
Stat ==
    /\ pc = "stat"
    /\ IF there
       THEN /\ key' = [Nothing EXCEPT !.ckpt = ckpt] /\ pc' = "abi"
            /\ UNCHANGED <<mode, sig, made, origin, since, seen>>
       ELSE Raise
    /\ UNCHANGED <<world, session, store, memo, mixed, swapped, unresolved, budget>>

\* Mutant of Abi: the fingerprint does not name the implementation.
AbiLeftOut ==
    /\ pc = "abi"
    /\ GetAbi
    /\ pc' = "key"
    /\ UNCHANGED <<world, tok, store, memo, run, since, seen, swapped, unresolved>>

\* ... and the ABI identity, 0 standing for "unavailable".
Abi ==
    /\ pc = "abi"
    /\ GetAbi
    /\ key' = [key EXCEPT !.abi = abi'.id]
    /\ pc' = "key"
    /\ UNCHANGED <<world, tok, store, memo, mode, sig, made, origin, since, seen, swapped,
                   unresolved>>

\* The prompt's embeddings complete the fingerprint.
Key ==
    /\ pc = "key"
    /\ \E v \in Contents \cup {NoEmb} : Resolve(v) /\ key' = [key EXCEPT !.emb = v]
    /\ pc' = "lookup"
    /\ UNCHANGED <<world, abi, store, memo, mode, sig, made, origin, since, seen, mixed, swapped>>

\* Mutant of Forced: an unknown implementation is no reason to encode.
ForcedByMode == mode = "refresh"

\* force_refresh
Forced == mode = "refresh" \/ abi.state = "unavailable"

Lookup ==
    /\ pc = "lookup"
    /\ \/ \E e \in store :
             /\ ~Forced /\ e.key = key
             /\ made' = e.made /\ origin' = "hit" /\ pc' = "done"
       \/ /\ Forced \/ \A e \in store : e.key # key
          /\ pc' = "load" /\ UNCHANGED <<made, origin>>
    /\ UNCHANGED <<world, session, store, memo, mode, sig, key, history, budget>>

\* The checkpoint that is there by now is the one that is loaded.
Load ==
    /\ pc = "load"
    /\ \/ /\ there
          /\ made' = [Nothing EXCEPT !.ckpt = ckpt] /\ pc' = "encode"
          /\ UNCHANGED <<mode, sig, key, origin, since, seen, budget>>
       \/ ((~there /\ UNCHANGED budget) \/ Fault) /\ Raise
    /\ UNCHANGED <<world, session, store, memo, mixed, swapped, unresolved>>

\* The real tokenizer reads the embedding again; the imported code encodes.
Encode ==
    /\ pc = "encode"
    /\ \/ /\ made' = [made EXCEPT !.emb = emb, !.abi = code]
          /\ origin' = "encode"
          /\ pc' = "save"
          /\ UNCHANGED <<mode, sig, key, since, seen, budget>>
       \/ Fault /\ Raise
    /\ UNCHANGED <<world, session, store, memo, mixed, swapped, unresolved>>

\* Mutant of Save: a refresh leaves the entry it replaces.
SaveAppending ==
    /\ pc = "save"
    /\ store' = store \cup {[key |-> key, made |-> made]}
    /\ pc' = "done"
    /\ UNCHANGED <<world, session, memo, run, history, budget>>

\* A save that fails costs an entry, even the one it replaces, not the result.
Save ==
    /\ pc = "save"
    /\ \/ /\ store' = {e \in store : e.key # key} \cup {[key |-> key, made |-> made]}
          /\ UNCHANGED budget
       \/ Fault /\ store' \in {store, {e \in store : e.key # key}}
    /\ pc' = "done"
    /\ UNCHANGED <<world, session, memo, run, history>>

\* The executor keeps the output under the signature it was computed for.
Done ==
    /\ pc = "done"
    /\ memo' = IF sig.nan THEN NoMemo ELSE [sig |-> sig, made |-> made]
    /\ pc' = "idle" /\ Reset
    /\ UNCHANGED <<world, session, store, mixed, swapped, unresolved, budget>>

-----------------------------------------------------------------------------
(* The world.                                                              *)

Change == changesLeft > 0 /\ changesLeft' = changesLeft - 1 /\ UNCHANGED <<runsLeft, faultsLeft>>

ReplaceCkpt ==
    /\ Change
    /\ ckpt' = ckpt + 1 /\ there' = TRUE
    /\ UNCHANGED <<emb, source, code, session, store, memo, pc, run, history>>

RemoveCkpt ==
    /\ Change /\ there
    /\ there' = FALSE
    /\ UNCHANGED <<ckpt, emb, source, code, session, store, memo, pc, run, history>>

\* An embedding is known by its content: swapping it back brings back its keys.
SwapEmb(e) ==
    /\ Change /\ e # emb
    /\ emb' = e
    /\ seen' = IF pc = "idle" THEN seen ELSE seen \cup {e}
    /\ swapped' = (swapped \/ pc \in Pcs \ {"idle", "sigAbi", "sigEmb", "save", "done"})
    /\ UNCHANGED <<ckpt, there, source, code, session, store, memo, pc, run, since, mixed,
                   unresolved>>

\* ComfyUI is updated on disk under the running server.
UpdateSource ==
    /\ Change
    /\ source' = source + 1
    /\ UNCHANGED <<ckpt, there, emb, code, session, store, memo, pc, run, history>>

\* At any point; the disk cache survives.
Restart ==
    /\ Change
    /\ code' = source
    /\ abi' = Unread /\ tok' = "unread" /\ memo' = NoMemo
    /\ pc' = "idle" /\ Reset
    /\ UNCHANGED <<ckpt, there, emb, source, store, mixed, swapped, unresolved>>

Run ==
    \/ (\E m \in {"auto", "refresh"} : Queue(m))
    \/ SigAbi \/ SigEmb \/ SigStat \/ Compare
    \/ Stat \/ Abi \/ Key \/ Lookup \/ Load \/ Encode \/ Save \/ Done
World ==
    ReplaceCkpt \/ RemoveCkpt \/ (\E e \in Contents \cup {NoEmb} : SwapEmb(e))
    \/ UpdateSource \/ Restart

\* Every allowed run was made.
Rest == runsLeft = 0 /\ pc = "idle" /\ UNCHANGED vars

Next == Run \/ World \/ Rest

Spec == Init /\ [][Next]_vars

-----------------------------------------------------------------------------
(* Properties.                                                             *)

\* No run returns an encode of a checkpoint older than the one there when it was
\* queued, whichever cache answers and however many replacements fall between
\* the three reads of the file (nodes.py, "serving a stale CONDITIONING").
NeverOlderCheckpoint == pc = "done" => made.ckpt >= since

\* A run returns what the running implementation encodes, provided its source was
\* read as it was imported; an unknown implementation is never mistaken for one
\* (encoder_abi.py, "invalidates old cache entries").
SameImplementation == (pc = "done" /\ ~mixed) => made.abi = code

\* A run returns an encode of an embedding that was on disk at some point during
\* it, as long as none changed between being read and being used and every
\* reference was resolved (embeddings.py, "closes that hole").
EmbeddingWasThere ==
    (pc = "done" /\ ~swapped /\ ~unresolved) => made.emb \in seen

\* A refresh, and any run of a server without ABI identity, encodes for real: it
\* returns the checkpoint and code of this very run, from neither cache.
ForcedRunsEncode ==
    (pc = "done" /\ (mode = "refresh" \/ abi.state = "unavailable")) =>
        origin = "encode" /\ made.abi = code

\* Known or unknown, an implementation never answers for another one.
RightImplementation == SameImplementation /\ ForcedRunsEncode

\* encoder_abi.py: the source "cannot change while ComfyUI is running", so its
\* hash names the code that runs.
HashNamesTheCode == pc = "done" => made.abi = code
=============================================================================
