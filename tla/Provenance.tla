----------------------------- MODULE Provenance -----------------------------
(***************************************************************************)
(* Where the references of an entry came from: the backward walk of        *)
(* provenance.py, the list of references nodes.py describes an entry with, *)
(* and the join of the two in the page (main.js: detailRefCells).          *)
(*                                                                         *)
(* A prompt maps a node id to the sequence of its inputs, in prompt order. *)
(* A slot is a pair: the input's name and the number at its end.           *)
(***************************************************************************)
EXTENDS Integers, FiniteSets, SequencesExt

CONSTANTS Me,           \* unique_id: the cached node in its own prompt
          MediaFiles,   \* literals with the extension of a media file
          NoFile,
          ImageSlots,   \* how many slots of a kind the node has
          VideoSlots,
          AudioSlots

ASSUME ProvenanceAssumption ==
    /\ NoFile \notin MediaFiles
    /\ {ImageSlots, VideoSlots, AudioSlots} \subseteq Nat

LinkTo(id) == [is |-> "link", node |-> id]
Literal(text) == [is |-> "literal", text |-> text]
Input(key, value) == [key |-> key, value |-> value]

IsLink(input) == input.value.is = "link"
IsMedia(input) == ~IsLink(input) /\ input.value.text \in MediaFiles

-----------------------------------------------------------------------------
(* The walk *)

TracedKinds == {"ref_image", "ref_video", "ref_video_audio", "ref_audio",
                "first_frame", "last_frame"}

LeafMediaFilename(inputs) ==
    LET media == SelectSeq(inputs, IsMedia)
    IN  IF media = <<>> THEN NoFile ELSE Head(media).value.text

\* Mutant of Visit: intermediate nodes contribute their literals as well.
VisitAnyLiteral(prompt, walk, id) ==
    IF id \notin DOMAIN prompt THEN walk
    ELSE LET name == LeafMediaFilename(prompt[id])
             Enqueue(w, input) ==
                 IF input.value.node \in w.visited THEN w
                 ELSE [w EXCEPT !.visited = @ \cup {input.value.node},
                                !.next = Append(@, input.value.node)]
             found == IF name = NoFile \/ Contains(walk.found, name) THEN walk
                      ELSE [walk EXCEPT !.found = Append(@, name)]
         IN  FoldLeft(Enqueue, found, SelectSeq(prompt[id], IsLink))

\* One node of a level: follow its links or, at a leaf, take its media file.
Visit(prompt, walk, id) ==
    IF id \notin DOMAIN prompt THEN walk
    ELSE LET links == SelectSeq(prompt[id], IsLink)
             name == LeafMediaFilename(prompt[id])
             Enqueue(w, input) ==
                 IF input.value.node \in w.visited THEN w
                 ELSE [w EXCEPT !.visited = @ \cup {input.value.node},
                                !.next = Append(@, input.value.node)]
         IN  IF links # <<>> THEN FoldLeft(Enqueue, walk, links)
             ELSE IF name = NoFile \/ Contains(walk.found, name) THEN walk
             ELSE [walk EXCEPT !.found = Append(@, name)]

\* Level by level; a level with a node of the prompt is not the last but once
\* for each node, so as many levels as the prompt has nodes are all of them.
Walk(prompt, start) ==
    LET VisitNode(walk, id) == Visit(prompt, walk, id)
        Upto[k \in 0..Cardinality(DOMAIN prompt)] ==
            IF k = 0 THEN [visited |-> {start}, next |-> <<start>>, found |-> <<>>]
            ELSE FoldLeft(VisitNode, [Upto[k - 1] EXCEPT !.next = <<>>], Upto[k - 1].next)
    IN  Upto[Cardinality(DOMAIN prompt)].found

\* The links of the cached node's own inputs, by slot.
Wired(prompt) ==
    LET links == {i \in ToSet(prompt[Me]) : IsLink(i)}
    IN  [key \in {i.key : i \in links} |-> (CHOOSE i \in links : i.key = key).value.node]

\* collect_ref_sources(): slot -> files; without any, the walk found no trail.
CollectRefSources(prompt) ==
    LET traced == {key \in DOMAIN Wired(prompt) :
                      key[1] \in TracedKinds /\ Walk(prompt, Wired(prompt)[key]) # <<>>}
    IN  [key \in traced |-> Walk(prompt, Wired(prompt)[key])]

-----------------------------------------------------------------------------
(* The references *)

\* The slots of the cached nodes in the order the encoder is given them.
SlotOrder ==
    [i \in 1..ImageSlots |-> <<"ref_image", i - 1>>]
        \o FlattenSeq([i \in 1..VideoSlots |->
               <<<<"ref_video_audio", i - 1>>, <<"ref_video", i - 1>>>>])
        \o [i \in 1..AudioSlots |-> <<"ref_audio", i - 1>>]
        \o <<<<"first_frame", 0>>, <<"last_frame", 0>>>>

\* The wired slots, compacted; a soundtrack counts only beside its video.
Items(prompt) ==
    LET wired == DOMAIN Wired(prompt)
    IN  SelectSeq(SlotOrder, LAMBDA slot :
            slot \in wired
            /\ (slot[1] = "ref_video_audio" => <<"ref_video", slot[2]>> \in wired))

TypeOf(slot) ==
    CASE slot[1] \in {"ref_video_audio", "ref_audio"} -> "audio"
      [] slot[1] = "ref_video" -> "video"
      [] OTHER -> "image"

\* _build_references(): key is "slot" of Ref2VA and "label" of FL2VA, the
\* index is the position, and all but audio have a thumbnail.
References(prompt) ==
    [i \in DOMAIN Items(prompt) |->
        [key |-> Items(prompt)[i], type |-> TypeOf(Items(prompt)[i])]]

\* Mutant of RefSources: the files are lined up by position.
RefSourcesByPosition(refs, i, sources) ==
    LET slots == SelectSeq(SlotOrder, LAMBDA slot : slot \in DOMAIN sources)
    IN  IF i \in DOMAIN slots THEN sources[slots[i]] ELSE <<>>

\* refSourcesForReference(): the join of reference i with the sources.
RefSources(refs, i, sources) ==
    IF refs[i].key \in DOMAIN sources THEN sources[refs[i].key] ELSE <<>>

\* detailRefCells(): what the detail panel shows of an entry.
DetailRefCells(refs, sources) ==
    [i \in DOMAIN refs |->
        [type |-> refs[i].type, files |-> RefSources(refs, i, sources)]]

-----------------------------------------------------------------------------
(* Reference definitions, by reachability *)

\* The nodes k links or fewer behind a start.
Within(prompt, start) ==
    LET Behind(id) == IF id \in DOMAIN prompt
                      THEN {i.value.node : i \in {j \in ToSet(prompt[id]) : IsLink(j)}}
                      ELSE {}
        N[k \in 0..Cardinality(DOMAIN prompt)] ==
            IF k = 0 THEN {start} ELSE N[k - 1] \cup UNION {Behind(id) : id \in N[k - 1]}
    IN  N

\* The files of the loaders at most k links behind a start.
FilesWithin(prompt, start, k) ==
    {LeafMediaFilename(prompt[id]) :
        id \in {n \in Within(prompt, start)[k] \cap DOMAIN prompt :
                    \A i \in ToSet(prompt[n]) : ~IsLink(i)}} \ {NoFile}

\* What a walk from a start should find, by distance.
TrailBehind(prompt, start) ==
    [k \in 0..Cardinality(DOMAIN prompt) |-> FilesWithin(prompt, start, k)]

\* A list of files is such a trail: every reachable loader's file, once, and
\* the nearer ones first.
IsTrail(files, trail) ==
    /\ ToSet(files) = UNION {trail[k] : k \in DOMAIN trail}
    /\ \A i, j \in DOMAIN files : i < j =>
           /\ files[i] # files[j]
           /\ \A k \in DOMAIN trail : files[j] \in trail[k] => files[i] \in trail[k]
=============================================================================
