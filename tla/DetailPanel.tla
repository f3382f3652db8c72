---------------------------- MODULE DetailPanel -----------------------------
(***************************************************************************)
(* The reference section of the Cache Manager, from the node run to the    *)
(* picture on the screen.  Runs describe entries and trace where their     *)
(* references came from (nodes.py, provenance.py); the page shows them in  *)
(* its one detail panel, joined to their files, and loads thumbnails one   *)
(* request at a time, into pools of object URLs it has to revoke.  Copying *)
(* the prompt waits for the clipboard, and goes on in the panel as it is   *)
(* then (main.js).                                                         *)
(*                                                                         *)
(* Entries are named by what the encoder is given.  All thumbnails of one  *)
(* entry in one rendering are treated alike: one stands for them.  Races   *)
(* of the sidecar are the business of Sidecar, overlapping Checks and the  *)
(* filter that of PanelUI.                                                 *)
(***************************************************************************)
EXTENDS Provenance

CONSTANTS Families,   \* sets of workflows a user moves between
          Prompt,     \* workflow -> its prompt
          NodeVariant, \* workflow -> which of the two nodes runs it
          Traceable,  \* the workflows whose node is given PROMPT and UNIQUE_ID
          Picture,    \* node id -> the picture or video it puts out
          NoFp, NoEntry, NoRun,
          MaxRuns,    \* bound: runs started, and entries deleted elsewhere
          MaxClicks   \* bound: things done in the page

Workflows == UNION Families

\* What a run of a workflow is about: the references in order, their trails,
\* and what tokenize() is given, which has no slots, and of audio a marker only.
ItemsOf == [w \in Workflows |-> Items(Prompt[w])]
RefsOf == [w \in Workflows |-> References(Prompt[w])]
SourcesOf == [w \in Workflows |-> CollectRefSources(Prompt[w])]
EncoderSees ==
    [w \in Workflows |->
        [i \in DOMAIN ItemsOf[w] |->
            LET slot == ItemsOf[w][i]
            IN  IF TypeOf(slot) = "audio" THEN <<"audio">>
                ELSE <<TypeOf(slot), Picture[Wired(Prompt[w])[slot]]>>]]

\* By its definition, where the i-th reference of a workflow came from.
TrailsOf ==
    [w \in Workflows |->
        [i \in DOMAIN ItemsOf[w] |->
            TrailBehind(Prompt[w], Wired(Prompt[w])[ItemsOf[w][i]])]]

Fps == {EncoderSees[w] : w \in Workflows}
Variants == {"fl2va", "ref2va"}

ASSUME PanelAssumption ==
    /\ NoFp \notin Fps /\ {MaxRuns, MaxClicks} \subseteq Nat
    /\ Traceable \subseteq Workflows
    /\ \A w \in Workflows : Me \in DOMAIN Prompt[w] /\ NodeVariant[w] \in Variants
    /\ \A v, w \in Workflows : EncoderSees[v] = EncoderSees[w] => NodeVariant[v] = NodeVariant[w]

Places == {"row", "cell", "copy"}

VARIABLES
    family,     \* the workflows of this behaviour
    entry,      \* the sidecar of each fingerprint, or NoEntry
    running,    \* the workflow whose run has described its entry, or NoRun
    list,       \* lastCheckResult: each entry as the last Check read it
    tab,        \* currentVariant: the node whose entries are listed
    open,       \* openDetailFingerprint, or NoFp
    cells,      \* the reference cells in the detail panel
    generation, \* renderGeneration
    thumbs,     \* the thumbnails, see below
    copying,    \* copyPrompt() calls that wait for the clipboard
    result,     \* the entry whose copy result the panel shows, or NoFp
    hint,       \* the entry whose "Reference detected" it shows, or NoFp
    button,     \* the copy icon: its face, the timer it remembers, timers armed
    runsLeft, clicksLeft

server == <<family, entry, running, runsLeft>>
copyUI == <<copying, result, hint, button>>
panel == <<list, tab, open, cells, generation, thumbs>>
vars == <<server, panel, copyUI, clicksLeft>>

Click == clicksLeft > 0 /\ clicksLeft' = clicksLeft - 1

-----------------------------------------------------------------------------
(* Node runs *)

\* Mutant of Traced: a clean walk without a trail leaves the old files.
TracedKeeping(old, w) ==
    IF w \notin Traceable THEN old
    ELSE [old EXCEPT !.sources = IF DOMAIN SourcesOf[w] = {} THEN @ ELSE SourcesOf[w],
                     !.traced = w]

\* _sync_ref_sources(): a run without a graph leaves the sources alone.  Both
\* an absent ref_sources and an empty one are an empty function here.
Traced(old, w) ==
    IF w \notin Traceable THEN old
    ELSE [old EXCEPT !.sources = SourcesOf[w], !.traced = w]

\* A run that misses, or refreshes, describes its entry; a HIT leaves what
\* describes the encode as it is.  (described, traced: by which workflow.)
Describe(w, refresh) ==
    LET fp == EncoderSees[w]
    IN  /\ running = NoRun /\ w \in family /\ runsLeft > 0 /\ runsLeft' = runsLeft - 1
        /\ running' = w
        /\ entry' = IF entry[fp] = NoEntry
                    THEN [entry EXCEPT ![fp] =
                             [refs |-> RefsOf[w], sources |-> <<>>,
                              described |-> w, traced |-> NoRun]]
                    ELSE IF refresh
                    THEN [entry EXCEPT ![fp].refs = RefsOf[w],
                                       ![fp].described = w]
                    ELSE entry
        /\ UNCHANGED <<family, panel, copyUI, clicksLeft>>

Trace ==
    /\ running # NoRun /\ running' = NoRun
    /\ LET fp == EncoderSees[running]
       IN  entry' = IF entry[fp] = NoEntry THEN entry
                    ELSE [entry EXCEPT ![fp] = Traced(@, running)]
    /\ UNCHANGED <<family, runsLeft, panel, copyUI, clicksLeft>>

\* A Delete by another page.
Forget(fp) ==
    /\ entry[fp] # NoEntry /\ runsLeft > 0 /\ runsLeft' = runsLeft - 1
    /\ entry' = [entry EXCEPT ![fp] = NoEntry]
    /\ UNCHANGED <<family, running, panel, copyUI, clicksLeft>>

-----------------------------------------------------------------------------
(* Thumbnails: an image <<place, entry, number of its rendering>> has at most *)
(* one object URL, which goes by its name.                                    *)
(*   dom     images in the document       src   those that have a URL         *)
(*   live    URLs not revoked             gone  those that will get none      *)
(*   loads   requests out                 pool  URLs a rendering will revoke  *)

NoThumbs == [dom |-> [p \in Places |-> {}], pool |-> [p \in Places |-> {}],
             src |-> {}, live |-> {}, loads |-> {}, gone |-> {}, painted |-> 0]

\* Mutant of Revoke: all pools are one.
RevokeAll(t, place) ==
    [t EXCEPT !.live = @ \ UNION {t.pool[p] : p \in Places},
              !.pool = [p \in Places |-> {}], !.dom[place] = {},
              !.src = @ \ t.dom[place], !.gone = @ \ t.dom[place]]

\* Throw the images of a place away and revoke its pool.
Revoke(t, place) ==
    [t EXCEPT !.live = @ \ t.pool[place], !.pool[place] = {}, !.dom[place] = {},
              !.src = @ \ t.dom[place], !.gone = @ \ t.dom[place]]

\* Render images for the given entries and ask for their thumbnails.
Paint(t, place, fps, gen) ==
    LET imgs == {<<place, fp, t.painted + 1>> : fp \in fps}
    IN  [Revoke(t, place) EXCEPT
            !.dom[place] = imgs, !.painted = @ + 1,
            !.loads = @ \cup {[img |-> i, gen |-> gen] : i \in imgs}]

HasThumbs(fp, l) ==
    l[fp] # NoEntry /\ \E i \in DOMAIN l[fp].refs : l[fp].refs[i].type # "audio"

\* renderDetailRefs()
PaintDetail(t, fp, l, gen) == Paint(t, "cell", {f \in {fp} : HasThumbs(f, l)}, gen)

\* Mutant of Wanted: late thumbnails are always shown.
WantedAlways(load) == TRUE

\* loadThumbnail() bails when the list was rendered meanwhile;
\* loadCopyResultThumbnail() does not look.
Wanted(load) == load.img[1] = "copy" \/ load.gen = generation

\* The pool a load adds its URL to is the one it was started with; a copy
\* result's is whichever is there.
PoolIsCurrent(t, img) == img[1] = "copy" \/ img \in t.dom[img[1]]

Arrive(load) ==
    /\ load \in thumbs.loads
    /\ LET t == [thumbs EXCEPT !.loads = @ \ {load}]
           img == load.img
       IN  thumbs' = IF ~Wanted(load) THEN t
                     ELSE [t EXCEPT !.live = @ \cup {img}, !.src = @ \cup ({img} \cap t.dom[img[1]]),
                                    !.pool[img[1]] = IF PoolIsCurrent(t, img)
                                                     THEN @ \cup {img} ELSE @]
    /\ UNCHANGED <<server, list, tab, open, cells, generation, copyUI, clicksLeft>>

\* The thumbnail is missing, or the request fails: the placeholder stays.
ArriveNot(load) ==
    /\ load \in thumbs.loads
    /\ thumbs' = [thumbs EXCEPT !.loads = @ \ {load}, !.gone = @ \cup ({load.img} \cap thumbs.dom[load.img[1]])]
    /\ UNCHANGED <<server, list, tab, open, cells, generation, copyUI, clicksLeft>>

-----------------------------------------------------------------------------
(* The list and the panel *)

\* filterEntries() with the toolbar at its defaults: a tab lists the entries of
\* its node; and those of them whose rows have thumbnails.
Listed(l, v) == {fp \in Fps : l[fp] # NoEntry /\ NodeVariant[l[fp].described] = v}
Rows(l, v) == {fp \in Listed(l, v) : HasThumbs(fp, l)}

\* resetCopyUI()
ResetCopy(t) == Revoke(t, "copy")

\* Mutant of Reattach: an open panel is moved to its row and not rebuilt.
ReattachOnly(t, l, gen) ==
    IF open = NoFp \/ open \in Listed(l, tab)
    THEN /\ thumbs' = t /\ UNCHANGED <<open, cells, result, hint>>
    ELSE /\ thumbs' = ResetCopy(t)
         /\ open' = NoFp /\ result' = NoFp /\ hint' = NoFp /\ UNCHANGED cells

\* Mutant of Reattach: a panel whose entry is gone stays open.
ReattachAnyway(t, l, gen) ==
    IF open = NoFp THEN thumbs' = t /\ UNCHANGED <<open, cells, result, hint>>
    ELSE /\ thumbs' = PaintDetail(t, open, l, gen)
         /\ cells' = IF l[open] = NoEntry THEN cells
                     ELSE DetailRefCells(l[open].refs, l[open].sources)
         /\ UNCHANGED <<open, result, hint>>

\* reattachOpenDetailAfterRender(): rebuild an open panel from the new list,
\* or close it.
Reattach(t, l, gen) ==
    IF open = NoFp THEN thumbs' = t /\ UNCHANGED <<open, cells, result, hint>>
    ELSE IF open \in Listed(l, tab)
    THEN /\ thumbs' = PaintDetail(t, open, l, gen)
         /\ cells' = DetailRefCells(l[open].refs, l[open].sources)
         /\ UNCHANGED <<open, result, hint>>
    ELSE /\ thumbs' = ResetCopy(t)
         /\ open' = NoFp /\ result' = NoFp /\ hint' = NoFp /\ UNCHANGED cells

\* renderList() of a Check's answer, or of the old one when the user types in
\* the search box.
RenderList ==
    /\ Click
    /\ list' \in {list, entry}
    /\ generation' = generation + 1
    /\ Reattach(Paint(thumbs, "row", Rows(list', tab), generation'), list', generation')
    /\ UNCHANGED <<server, tab, copying, button>>

OpenDetail(fp) ==
    /\ fp \in Listed(list, tab) /\ Click
    /\ open' = fp /\ result' = NoFp /\ hint' = NoFp
    /\ thumbs' = PaintDetail(ResetCopy(thumbs), fp, list, generation)
    /\ cells' = DetailRefCells(list[fp].refs, list[fp].sources)
    /\ UNCHANGED <<server, list, tab, generation, copying, button>>

CloseDetail ==
    /\ open # NoFp /\ Click
    /\ open' = NoFp /\ result' = NoFp /\ hint' = NoFp
    /\ thumbs' = ResetCopy(thumbs)
    /\ UNCHANGED <<server, list, tab, cells, generation, copying, button>>

\* switchVariant(): the other tab opens without a panel.
SwitchVariant(v) ==
    /\ Click
    /\ tab' = v /\ generation' = generation + 1 /\ open' = NoFp
    /\ IF open = NoFp THEN UNCHANGED <<result, hint>> ELSE result' = NoFp /\ hint' = NoFp
    /\ LET t == IF open = NoFp THEN thumbs ELSE ResetCopy(thumbs)
       IN  thumbs' = Paint(t, "row", Rows(list, v), generation')
    /\ UNCHANGED <<server, list, cells, copying, button>>

-----------------------------------------------------------------------------
(* Copy prompt *)

\* cancelCopyRevert(): clear the one timer the button remembers.
Cancelled == IF button.handle THEN [button EXCEPT !.handle = FALSE, !.armed = @ - 1]
             ELSE button

\* Mutant of Copied: nothing is cancelled when the outcome is applied.
CopiedAgain == [button EXCEPT !.face = "copied", !.handle = TRUE, !.armed = @ + 1]

\* markCopied(), markCopyFailed()
Copied == [Cancelled EXCEPT !.face = "copied", !.handle = TRUE, !.armed = @ + 1]
CopyFailed == [Cancelled EXCEPT !.face = "failed"]

\* The icon, copyPromptText(), or the big button, copyPrompt() alone.
ClickCopy(icon) ==
    /\ open # NoFp /\ Click
    /\ IF list[open] # NoEntry
       THEN /\ button' = IF icon THEN Cancelled ELSE button
            /\ copying' = Append(copying, [fp |-> open, refs |-> list[open].refs, icon |-> icon])
       ELSE /\ button' = IF icon THEN CopyFailed ELSE button
            /\ UNCHANGED copying
    /\ UNCHANGED <<server, panel, result, hint>>

\* renderCopyResult() and the hint, in whatever panel and under whatever tab there
\* is by now, and the outcome on the button.
CopySettles(i, ok) ==
    LET c == copying[i]
    IN  /\ i \in DOMAIN copying
        /\ copying' = RemoveAt(copying, i)
        /\ thumbs' = IF tab = "fl2va" /\ c.refs # <<>>
                     THEN Paint(thumbs, "copy", {c.fp}, generation)
                     ELSE Revoke(thumbs, "copy")
        /\ result' = c.fp
        /\ hint' = IF c.refs = <<>> THEN NoFp ELSE c.fp
        /\ button' = IF ~c.icon THEN button ELSE IF ok THEN Copied ELSE CopyFailed
        /\ UNCHANGED <<server, list, tab, open, cells, generation, clicksLeft>>

\* A timer fires: the icon is itself again and forgets the timer.
RevertFires ==
    /\ button.armed > 0
    /\ button' = [face |-> "plain", handle |-> FALSE, armed |-> button.armed - 1]
    /\ UNCHANGED <<server, panel, copying, result, hint, clicksLeft>>

-----------------------------------------------------------------------------
\* The cache as earlier runs of these workflows left it, and a fresh page, either
\* of whose tabs the user may have chosen before the first answer.
Init ==
    /\ family \in Families
    /\ entry \in [Fps -> {NoEntry}
                    \cup {[refs |-> RefsOf[w],
                           sources |-> SourcesOf[w],
                           described |-> w, traced |-> w] : w \in family \cap Traceable}]
    /\ \A fp \in Fps : entry[fp] # NoEntry => EncoderSees[entry[fp].described] = fp
    /\ running = NoRun
    /\ list = [fp \in Fps |-> NoEntry]
    /\ tab \in Variants /\ open = NoFp /\ cells = <<>> /\ generation = 0 /\ thumbs = NoThumbs
    /\ copying = <<>> /\ result = NoFp /\ hint = NoFp
    /\ button = [face |-> "plain", handle |-> FALSE, armed |-> 0]
    /\ runsLeft = MaxRuns /\ clicksLeft = MaxClicks

Next ==
    \/ \E w \in family, refresh \in BOOLEAN : Describe(w, refresh)
    \/ Trace
    \/ \E fp \in Fps : Forget(fp) \/ OpenDetail(fp)
    \/ RenderList
    \/ \E v \in Variants : SwitchVariant(v)
    \/ CloseDetail
    \/ \E load \in thumbs.loads : Arrive(load) \/ ArriveNot(load)
    \/ \E icon \in BOOLEAN : ClickCopy(icon)
    \/ \E i \in DOMAIN copying, ok \in BOOLEAN : CopySettles(i, ok)
    \/ RevertFires

Spec == Init /\ [][Next]_vars

-----------------------------------------------------------------------------
(* Properties *)

TypeOK ==
    /\ family \in Families /\ running \in family \cup {NoRun}
    /\ \A l \in {entry, list} : DOMAIN l = Fps
           /\ \A fp \in Fps : l[fp] # NoEntry => DOMAIN l[fp].refs = DOMAIN fp
    /\ tab \in Variants /\ open \in Fps \cup {NoFp} /\ (open # NoFp => list[open] # NoEntry)
    /\ generation \in 0..MaxClicks /\ runsLeft \in 0..MaxRuns /\ clicksLeft \in 0..MaxClicks
    /\ thumbs.painted \in 0..2 * MaxClicks
    /\ \A load \in thumbs.loads : load.img \notin thumbs.src \cup thumbs.gone
    /\ {result, hint} \subseteq Fps \cup {NoFp} /\ Len(copying) \in 0..MaxClicks
    /\ button.face \in {"plain", "copied", "failed"} /\ button.armed \in 0..MaxClicks

\* The slots an entry is described with are those of the run that traced it.
SameSlots(e) ==
    e.traced # NoRun /\ ItemsOf[e.traced] = [i \in DOMAIN e.refs |-> e.refs[i].key]

\* Whatever was wired, skipped, traced or re-run, the open panel shows one cell
\* for each reference the encoder was given, of its type and in its order, and
\* under it the files of the loaders it came from: every loader the graph leads
\* back to, each file once, the nearer first, nothing else, and nothing left
\* from a trace that has been superseded.
JoinIsRight ==
    open # NoFp =>
        LET e == list[open]
        IN  /\ [i \in DOMAIN cells |-> cells[i].type] = [i \in DOMAIN open |-> open[i][1]]
            /\ SameSlots(e) => \A i \in DOMAIN cells :
                   IsTrail(cells[i].files, TrailsOf[e.traced][i])

\* The walk finds the trail behind each slot a reference comes from.
WalksAreRight ==
    \A w \in Workflows : \A i \in DOMAIN ItemsOf[w] :
        LET slot == ItemsOf[w][i]
        IN  /\ slot \in DOMAIN Wired(Prompt[w]) /\ slot[1] \in TracedKinds
            /\ IsTrail(Walk(Prompt[w], Wired(Prompt[w])[slot]), TrailsOf[w][i])

\* Images that are on the screen.
OnScreen == thumbs.dom["row"]
            \cup IF open = NoFp THEN {} ELSE thumbs.dom["cell"] \cup thumbs.dom["copy"]

\* No rendering revokes the URL of a picture that stays on the screen; a
\* picture still without one has a request out whose answer will be taken; and
\* every URL is revoked by some later rendering, except that of a detail
\* thumbnail that was overtaken by another entry's panel.
ThumbsRight ==
    /\ OnScreen \cap thumbs.src \subseteq thumbs.live
    /\ \A img \in OnScreen \ (thumbs.src \cup thumbs.gone) :
           \E load \in thumbs.loads : load.img = img /\ Wanted(load)
    /\ \A img \in thumbs.live \ UNION {thumbs.pool[p] : p \in Places} :
           img[1] = "cell" /\ img \notin thumbs.dom["cell"]

\* However clicks on the copy icon overlap, at most one timer runs and the icon
\* knows it, so none fires in the middle of a later "Copied!"; and a "Copied!"
\* has a timer, or another outcome on its way, to take it back.
FeedbackEnds ==
    /\ button.armed = IF button.handle THEN 1 ELSE 0
    /\ button.face = "copied" => button.handle \/ \E i \in DOMAIN copying : copying[i].icon

\* provenance.py:70-73: the slot is "the one stable identifier both sides already
\* agree on", so what is listed under a reference is where that reference came
\* from.  A HIT that wires the same references to other slots breaks it.
EveryReferenceNamesItsFiles ==
    \A fp \in Fps : running = NoRun /\ entry[fp] # NoEntry =>
        LET e == entry[fp]
        IN  \A i \in DOMAIN e.refs :
                IsTrail(RefSources(e.refs, i, e.sources), TrailsOf[e.traced][i])

\* main.js:1664-1666: the hint "must never leak onto a freshly opened entry".  It
\* does when the entry is opened while the clipboard is being written.
HintIsOwn == open # NoFp /\ hint # NoFp => hint = open
=============================================================================
