------------------------- MODULE DetailPanel_proofs -------------------------
(***************************************************************************)
(* Theorems about DetailPanel, for any workflows, any prompts and any      *)
(* bounds.  What the walk of provenance.py finds in a prompt is computed   *)
(* by folds, about which the provers know nothing: the theorem about the   *)
(* join takes it as a hypothesis, which TLC evaluates on every run.        *)
(***************************************************************************)
EXTENDS DetailPanel, SequenceTheorems, TLAPS

\* The fingerprints of the workflows, and what describes an entry of one.
Seen(fp) == {w \in Workflows : EncoderSees[w] = fp}
EntriesOf(fp) ==
    {e \in [refs : {RefsOf[w] : w \in Seen(fp)},
            sources : {<<>>} \cup {SourcesOf[w] : w \in Workflows},
            described : Workflows, traced : Workflows \cup {NoRun}] :
        e.traced # NoRun => e.sources = SourcesOf[e.traced]}

\* An entry is described by a run it was made or refreshed by, and has the
\* sources of the run that traced it.
Described(l) == DOMAIN l = Fps /\ \A fp \in Fps : l[fp] # NoEntry => l[fp] \in EntriesOf(fp)
Entries == Described(entry) /\ Described(list)

Runs == family \in Families /\ running \in family \cup {NoRun}

\* The open panel is that of an entry of the list, and shows it.
Opened ==
    /\ tab \in Variants /\ open \in Fps \cup {NoFp}
    /\ open # NoFp => /\ list[open] # NoEntry
                      /\ cells = DetailRefCells(list[open].refs, list[open].sources)

Images == Places \X Fps \X Nat
Loads == [img : Images, gen : Nat]
Thumbs == [dom : [Places -> SUBSET Images], pool : [Places -> SUBSET Images],
           src : SUBSET Images, live : SUBSET Images, loads : SUBSET Loads,
           gone : SUBSET Images, painted : Nat]

\* Images and their URLs are kept by place, and numbered in the order of their
\* renderings; a request is out for an image that has no answer yet, and only one.
Numbered(t) ==
    /\ \A p \in Places : \A img \in t.dom[p] : img[1] = p /\ img[3] <= t.painted
    /\ \A p \in Places : \A img \in t.pool[p] : img[1] = p /\ img[3] <= t.painted
    /\ \A img \in t.src \cup t.live \cup t.gone : img[3] <= t.painted
    /\ \A load \in t.loads : load.img[3] <= t.painted
Asked(t) ==
    /\ \A load \in t.loads : load.img \notin t.src \cup t.gone
    /\ \A a, b \in t.loads : a.img = b.img => a = b

\* What is shown is not revoked, and what is not shown will be.
Shown(t) == \A p \in Places : t.dom[p] \cap t.src \subseteq t.live
Revoked(t) ==
    \A img \in t.live : (\E p \in Places : img \in t.pool[p])
                        \/ (img[1] = "cell" /\ img \notin t.dom["cell"])

Sound(t) == t \in Thumbs /\ Numbered(t) /\ Asked(t) /\ Shown(t) /\ Revoked(t)

\* Requests of this rendering of the list are for the rows that are there.
OfRows(t, g) ==
    /\ \A load \in t.loads : load.gen <= g
    /\ \A load \in t.loads :
          (load.img[1] = "row" /\ load.gen = g) => load.img \in t.dom["row"]

\* An image of a place that has had no answer still gets one.
Answered(t, p, g) ==
    \A img \in t.dom[p] \ (t.src \cup t.gone) :
        \E load \in t.loads : load.img = img /\ (p = "copy" \/ load.gen = g)

\* What is true of the pictures of a panel that is open or is not.
Fine(t, g, isOpen) ==
    /\ Sound(t) /\ OfRows(t, g) /\ Answered(t, "row", g) /\ Answered(t, "copy", g)
    /\ isOpen => Answered(t, "cell", g)
Pictures == Fine(thumbs, generation, open # NoFp)

\* What has been done is bounded by the clicks that are gone.
Bounds ==
    /\ generation \in Nat /\ runsLeft \in 0..MaxRuns /\ clicksLeft \in 0..MaxClicks
    /\ generation + clicksLeft <= MaxClicks
    /\ thumbs.painted + 2 * clicksLeft + Len(copying) <= 2 * MaxClicks
    /\ button.armed + clicksLeft + Len(copying) <= MaxClicks

Copies == [fp : Fps, refs : {RefsOf[w] : w \in Workflows}, icon : BOOLEAN]
Copying ==
    /\ copying \in Seq(Copies) /\ {result, hint} \subseteq Fps \cup {NoFp}
    /\ button \in [face : {"plain", "copied", "failed"}, handle : BOOLEAN, armed : Nat]
    /\ FeedbackEnds

PanelInv == Runs /\ Entries /\ Opened /\ Pictures /\ Copying /\ Bounds

-----------------------------------------------------------------------------
(* Thumbnails.                                                             *)

\* What throwing the images of a place away does to the record.
LEMMA RevokeFields ==
    ASSUME NEW t \in Thumbs, NEW p \in Places
    PROVE  /\ Revoke(t, p) \in Thumbs
           /\ Revoke(t, p).dom = [t.dom EXCEPT ![p] = {}]
           /\ Revoke(t, p).pool = [t.pool EXCEPT ![p] = {}]
           /\ Revoke(t, p).src = t.src \ t.dom[p]
           /\ Revoke(t, p).live = t.live \ t.pool[p]
           /\ Revoke(t, p).gone = t.gone \ t.dom[p]
           /\ Revoke(t, p).loads = t.loads /\ Revoke(t, p).painted = t.painted
  BY DEF Revoke, Thumbs

\* It revokes no URL of another place, and none of this place is left.
LEMMA RevokeSound ==
    ASSUME NEW t, Sound(t), NEW p \in Places
    PROVE  Sound(Revoke(t, p))
<1> DEFINE r == Revoke(t, p)
<1> USE DEF Sound
<1>1. /\ r \in Thumbs
      /\ r.dom = [t.dom EXCEPT ![p] = {}] /\ r.pool = [t.pool EXCEPT ![p] = {}]
      /\ r.src = t.src \ t.dom[p] /\ r.live = t.live \ t.pool[p]
      /\ r.gone = t.gone \ t.dom[p] /\ r.loads = t.loads /\ r.painted = t.painted
  BY RevokeFields
<1>2. t.dom \in [Places -> SUBSET Images] /\ t.pool \in [Places -> SUBSET Images]
  BY DEF Thumbs
<1> HIDE DEF r
<1>3. Numbered(r)
  BY <1>1, <1>2 DEF Numbered
<1>4. Asked(r)
  BY <1>1 DEF Asked
<1>5. Shown(r)
  <2>1. ASSUME NEW q \in Places, NEW img \in r.dom[q] \cap r.src PROVE img \in r.live
    <3>1. q # p /\ img \in t.dom[q] \cap t.src /\ img[1] = q
      BY <1>1, <1>2, <2>1 DEF Numbered
    <3>2. img \in t.live /\ img \notin t.pool[p]
      BY <3>1 DEF Shown, Numbered
    <3> QED
      BY <1>1, <3>2
  <2> QED
    BY <2>1 DEF Shown
<1>6. Revoked(r)
  BY <1>1, <1>2 DEF Revoked, Places
<1> QED
  BY <1>1, <1>3, <1>4, <1>5, <1>6 DEF r

\* Who waits for an answer still does.
LEMMA RevokeAnswered ==
    ASSUME NEW t, Sound(t), NEW p \in Places, NEW q \in Places, NEW g,
           Answered(t, q, g) \/ p = q
    PROVE  Answered(Revoke(t, p), q, g)
<1> DEFINE r == Revoke(t, p)
<1>1. /\ r.dom = [t.dom EXCEPT ![p] = {}] /\ r.src = t.src \ t.dom[p]
      /\ r.gone = t.gone \ t.dom[p] /\ r.loads = t.loads
  BY RevokeFields DEF Sound
<1>2. t.dom \in [Places -> SUBSET Images]
  BY DEF Sound, Thumbs
<1> HIDE DEF r
<1>3. ASSUME p = q PROVE Answered(r, q, g)
  BY <1>1, <1>2, <1>3 DEF Answered
<1>4. ASSUME p # q, Answered(t, q, g) PROVE Answered(r, q, g)
  <2>1. \A img \in r.dom[q] \ (r.src \cup r.gone) : img \in t.dom[q] \ (t.src \cup t.gone)
    BY <1>1, <1>2, <1>4 DEF Sound, Numbered
  <2> QED
    BY <1>1, <1>4, <2>1 DEF Answered
<1> QED
  BY <1>3, <1>4 DEF r

\* The images of a rendering, which are new, and the requests for them.
Rendered(t, p, fps) == {<<p, fp, t.painted + 1>> : fp \in fps}
Requests(imgs, g) == {[img |-> i, gen |-> g] : i \in imgs}

\* A rendering makes new images of the place it is for.
LEMMA RenderedImages ==
    ASSUME NEW t \in Thumbs, NEW p \in Places, NEW fps \in SUBSET Fps
    PROVE  /\ Rendered(t, p, fps) \in SUBSET Images
           /\ \A img \in Rendered(t, p, fps) : img[1] = p /\ img[3] = t.painted + 1
  BY DEF Rendered, Images, Thumbs

\* What a rendering makes of the record.
PaintedAs(r, t, p, new, g) ==
    /\ r \in Thumbs
    /\ r.dom = [t.dom EXCEPT ![p] = new] /\ r.pool = [t.pool EXCEPT ![p] = {}]
    /\ r.src = t.src \ t.dom[p] /\ r.live = t.live \ t.pool[p]
    /\ r.gone = t.gone \ t.dom[p] /\ r.painted = t.painted + 1
    /\ r.loads = t.loads \cup Requests(new, g)

\* It is what the record becomes.
LEMMA PaintFields ==
    ASSUME NEW t \in Thumbs, NEW p \in Places, NEW fps \in SUBSET Fps, NEW g \in Nat
    PROVE  PaintedAs(Paint(t, p, fps, g), t, p, Rendered(t, p, fps), g)
<1> DEFINE new == Rendered(t, p, fps)
           r == Revoke(t, p)
           asked == Requests(new, g)
<1>1. new \in SUBSET Images
  BY RenderedImages
<1>2. asked \in SUBSET Loads
  BY <1>1 DEF Loads, Requests
<1>3. /\ r \in Thumbs
      /\ r.dom = [t.dom EXCEPT ![p] = {}] /\ r.pool = [t.pool EXCEPT ![p] = {}]
      /\ r.src = t.src \ t.dom[p] /\ r.live = t.live \ t.pool[p]
      /\ r.gone = t.gone \ t.dom[p] /\ r.loads = t.loads /\ r.painted = t.painted
  BY RevokeFields
<1>4. Paint(t, p, fps, g)
         = [r EXCEPT !.dom[p] = new, !.painted = @ + 1, !.loads = @ \cup asked]
  BY DEF Paint, Rendered, Requests
<1>5. t.dom \in [Places -> SUBSET Images]
  BY DEF Thumbs
<1> HIDE DEF new, r, asked
<1> DEFINE s == [r EXCEPT !.dom[p] = new, !.painted = @ + 1, !.loads = @ \cup asked]
<1>6. /\ s.dom = [r.dom EXCEPT ![p] = new] /\ s.painted = r.painted + 1
      /\ s.loads = r.loads \cup asked
      /\ s.pool = r.pool /\ s.src = r.src /\ s.live = r.live /\ s.gone = r.gone
      /\ s \in Thumbs
  <2>1. /\ [r.dom EXCEPT ![p] = new] \in [Places -> SUBSET Images]
        /\ r.painted + 1 \in Nat /\ r.loads \cup asked \in SUBSET Loads
    BY <1>1, <1>2, <1>3 DEF Thumbs
  <2> QED
    BY <1>3, <2>1 DEF Thumbs
<1>7. [r.dom EXCEPT ![p] = new] = [t.dom EXCEPT ![p] = new]
  BY <1>3, <1>5
<1> QED
  BY <1>3, <1>4, <1>6, <1>7 DEF new, asked, PaintedAs

\* It asks for the thumbnails of its images, and disturbs no others.
LEMMA PaintSound ==
    ASSUME NEW t, Sound(t), NEW p \in Places, NEW fps \in SUBSET Fps, NEW g \in Nat
    PROVE  Sound(Paint(t, p, fps, g))
<1> DEFINE new == Rendered(t, p, fps)
           r == Paint(t, p, fps, g)
<1> USE DEF Sound
<1>1. PaintedAs(r, t, p, new, g)
  BY PaintFields
<1>2. /\ t.dom \in [Places -> SUBSET Images] /\ t.pool \in [Places -> SUBSET Images]
      /\ t.painted \in Nat /\ t.loads \subseteq Loads
      /\ t.src \cup t.live \cup t.gone \subseteq Images
  BY DEF Thumbs
<1>3. new \in SUBSET Images /\ \A img \in new : img[1] = p /\ img[3] = t.painted + 1
  BY RenderedImages
<1>4. \A img \in Images : img[3] \in Nat
  BY DEF Images
<1>5. \A load \in Loads : load.img \in Images
  BY DEF Loads
<1> HIDE DEF new, r
<1> USE DEF PaintedAs
<1>6. Numbered(r)
  <2>1. \A q \in Places : \A img \in r.dom[q] : img[1] = q /\ img[3] <= r.painted
    BY <1>1, <1>2, <1>3, <1>4 DEF Numbered
  <2>2. \A q \in Places : \A img \in r.pool[q] : img[1] = q /\ img[3] <= r.painted
    BY <1>1, <1>2, <1>4 DEF Numbered
  <2>3. \A img \in r.src \cup r.live \cup r.gone : img[3] <= r.painted
    BY <1>1, <1>2, <1>4 DEF Numbered
  <2>4. \A load \in r.loads : load.img[3] <= r.painted
    BY <1>1, <1>2, <1>3, <1>4, <1>5 DEF Numbered, Requests
  <2> QED
    BY <2>1, <2>2, <2>3, <2>4 DEF Numbered
<1>7. \A img \in new : /\ img \notin t.src \cup t.live \cup t.gone
                       /\ \A load \in t.loads : load.img # img
  BY <1>2, <1>3 DEF Numbered
<1>8. Asked(r)
  <2>1. \A load \in r.loads : load.img \notin r.src \cup r.gone
    BY <1>1, <1>7 DEF Asked, Requests
  <2>2. \A a, b \in r.loads : a.img = b.img => a = b
    BY <1>1, <1>7 DEF Asked, Requests
  <2> QED
    BY <2>1, <2>2 DEF Asked
<1>9. Shown(r)
  <2>1. ASSUME NEW q \in Places, NEW img \in r.dom[q] \cap r.src PROVE img \in r.live
    <3>1. img \in t.src
      BY <1>1, <2>1
    <3>2. q # p /\ img \in t.dom[q] /\ img[1] = q
      BY <1>1, <1>2, <1>7, <2>1, <3>1 DEF Numbered
    <3>3. img \in t.live /\ img \notin t.pool[p]
      BY <3>1, <3>2 DEF Shown, Numbered
    <3> QED
      BY <1>1, <3>3
  <2> QED
    BY <2>1 DEF Shown
<1>10. Revoked(r)
  <2>1. ASSUME NEW img \in r.live
        PROVE  (\E q \in Places : img \in r.pool[q]) \/ (img[1] = "cell" /\ img \notin r.dom["cell"])
    <3>1. img \in t.live /\ img \notin t.pool[p] /\ img \notin new
      BY <1>1, <1>7, <2>1
    <3>2. CASE \E q \in Places : img \in t.pool[q]
      BY <1>1, <1>2, <3>1, <3>2
    <3>3. CASE img[1] = "cell" /\ img \notin t.dom["cell"]
      BY <1>1, <1>2, <3>1, <3>3 DEF Places
    <3> QED
      BY <3>1, <3>2, <3>3 DEF Revoked
  <2> QED
    BY <2>1 DEF Revoked
<1> QED
  BY <1>1, <1>6, <1>8, <1>9, <1>10 DEF r

\* Who waits for an answer still does, and the new images wait for theirs.
LEMMA PaintAnswered ==
    ASSUME NEW t, Sound(t), NEW p \in Places, NEW fps \in SUBSET Fps, NEW g \in Nat
    PROVE  /\ Answered(Paint(t, p, fps, g), p, g)
           /\ \A q \in Places \ {p} : \A h :
                 Answered(t, q, h) => Answered(Paint(t, p, fps, g), q, h)
<1> DEFINE new == Rendered(t, p, fps)
           r == Paint(t, p, fps, g)
<1>1. PaintedAs(r, t, p, new, g)
  BY PaintFields DEF Sound
<1>2. t.dom \in [Places -> SUBSET Images]
  BY DEF Sound, Thumbs
<1> HIDE DEF r, new
<1> USE DEF PaintedAs, Requests
<1>3. Answered(r, p, g)
  <2>1. ASSUME NEW img \in r.dom[p]
        PROVE  \E load \in r.loads : load.img = img /\ load.gen = g
    <3>1. img \in new
      BY <1>1, <1>2, <2>1
    <3>2. [img |-> img, gen |-> g] \in r.loads
      BY <1>1, <3>1
    <3> QED
      BY <3>2
  <2> QED
    BY <2>1 DEF Answered
<1>4. ASSUME NEW q \in Places \ {p}, NEW h, Answered(t, q, h) PROVE Answered(r, q, h)
  <2>1. \A img \in r.dom[q] \ (r.src \cup r.gone) : img \in t.dom[q] \ (t.src \cup t.gone)
    BY <1>1, <1>2 DEF Sound, Numbered
  <2> QED
    BY <1>1, <1>4, <2>1 DEF Answered
<1> QED
  BY <1>3, <1>4 DEF r

\* The requests for rows are those of the rows that are there, unless the list
\* itself is rendered, and then they are all new.
LEMMA RevokeOfRows ==
    ASSUME NEW t, Sound(t), NEW p \in Places \ {"row"}, NEW g, OfRows(t, g)
    PROVE  OfRows(Revoke(t, p), g)
<1>1. Revoke(t, p).dom = [t.dom EXCEPT ![p] = {}] /\ Revoke(t, p).loads = t.loads
  BY RevokeFields DEF Sound
<1>2. t.dom \in [Places -> SUBSET Images] /\ "row" \in Places
  BY DEF Sound, Thumbs, Places
<1>3. Revoke(t, p).dom["row"] = t.dom["row"]
  BY <1>1, <1>2
<1> QED
  BY <1>1, <1>3 DEF OfRows

\* A rendering keeps what the rows are of: a new list of it asks anew.
LEMMA PaintOfRows ==
    ASSUME NEW t, Sound(t), NEW p \in Places, NEW fps \in SUBSET Fps, NEW g \in Nat,
           IF p = "row" THEN \A load \in t.loads : load.gen < g ELSE OfRows(t, g)
    PROVE  OfRows(Paint(t, p, fps, g), g)
<1> DEFINE new == Rendered(t, p, fps)
           r == Paint(t, p, fps, g)
<1>1. PaintedAs(r, t, p, new, g)
  BY PaintFields DEF Sound
<1>2. /\ t.dom \in [Places -> SUBSET Images] /\ "row" \in Places
      /\ \A load \in t.loads : load.gen \in Nat
  BY DEF Sound, Thumbs, Places, Loads
<1>3. \A img \in new : img[1] = p
  BY RenderedImages DEF Sound
<1> HIDE DEF r, new
<1> USE DEF PaintedAs, Requests
<1>4. \A load \in r.loads : load.gen <= g
  BY <1>1, <1>2 DEF OfRows
<1>5. ASSUME NEW load \in r.loads, load.img[1] = "row", load.gen = g
      PROVE  load.img \in r.dom["row"]
  <2>1. CASE p = "row"
    BY <1>1, <1>2, <1>5, <2>1
  <2>2. CASE p # "row"
    BY <1>1, <1>2, <1>3, <1>5, <2>2 DEF OfRows
  <2> QED
    BY <2>1, <2>2
<1> QED
  BY <1>4, <1>5 DEF OfRows, r

\* Throwing the copy result away, and rendering another place than the list.
LEMMA ResetFine ==
    ASSUME NEW t, NEW g, NEW b, Fine(t, g, b)
    PROVE  Fine(ResetCopy(t), g, b) /\ ResetCopy(t).painted = t.painted
<1>1. {"row", "cell", "copy"} \subseteq Places /\ "copy" # "row" /\ "copy" # "cell"
  BY DEF Places
<1>2. Sound(t) /\ OfRows(t, g) /\ Answered(t, "row", g) /\ Answered(t, "copy", g)
  BY DEF Fine
<1>3. Sound(Revoke(t, "copy")) /\ OfRows(Revoke(t, "copy"), g)
  BY <1>1, <1>2, RevokeSound, RevokeOfRows
<1>4. Answered(Revoke(t, "copy"), "row", g) /\ Answered(Revoke(t, "copy"), "copy", g)
  BY <1>1, <1>2, RevokeAnswered
<1>5. b => Answered(Revoke(t, "copy"), "cell", g)
  BY <1>1, <1>2, RevokeAnswered DEF Fine
<1>6. Revoke(t, "copy").painted = t.painted
  BY <1>1, <1>2, RevokeFields DEF Sound
<1> QED
  BY <1>3, <1>4, <1>5, <1>6 DEF Fine, ResetCopy

\* One of a cell or of the copy keeps what is on the page fine.
LEMMA PaintFine ==
    ASSUME NEW t, NEW g \in Nat, NEW b, Fine(t, g, b), NEW p \in {"cell", "copy"},
           NEW fps \in SUBSET Fps
    PROVE  /\ Fine(Paint(t, p, fps, g), g, b \/ p = "cell")
           /\ Paint(t, p, fps, g).painted = t.painted + 1
<1> DEFINE r == Paint(t, p, fps, g)
<1>1. {"row", "cell", "copy"} \subseteq Places /\ p \in Places /\ p # "row"
  BY DEF Places
<1>2. Sound(t) /\ OfRows(t, g) /\ Answered(t, "row", g) /\ Answered(t, "copy", g)
  BY DEF Fine
<1>3. Sound(r) /\ OfRows(r, g)
  BY <1>1, <1>2, PaintSound, PaintOfRows
<1>4. Answered(r, p, g) /\ \A q \in Places \ {p} : Answered(t, q, g) => Answered(r, q, g)
  BY <1>1, <1>2, PaintAnswered
<1>5. r.painted = t.painted + 1
  <2>1. PaintedAs(r, t, p, Rendered(t, p, fps), g)
    BY <1>1, <1>2, PaintFields DEF Sound
  <2> QED
    BY <2>1 DEF PaintedAs
<1> HIDE DEF r
<1>6. Answered(r, "row", g) /\ Answered(r, "copy", g)
  BY <1>1, <1>2, <1>4
<1>7. (b \/ p = "cell") => Answered(r, "cell", g)
  BY <1>1, <1>4 DEF Fine
<1> QED
  BY <1>3, <1>5, <1>6, <1>7 DEF Fine, r

\* The next rendering of the list asks for all its rows anew; of a panel that was
\* open, the cells may wait in vain until it is rebuilt.
LEMMA RowsFine ==
    ASSUME NEW t, NEW g \in Nat, Fine(t, g, FALSE), NEW rows \in SUBSET Fps
    PROVE  /\ Fine(Paint(t, "row", rows, g + 1), g + 1, FALSE)
           /\ Paint(t, "row", rows, g + 1).painted = t.painted + 1
<1> DEFINE h == g + 1
           r == Paint(t, "row", rows, h)
<1>1. Sound(t) /\ OfRows(t, g) /\ Answered(t, "copy", g) /\ t \in Thumbs /\ h \in Nat
  BY DEF Fine, Sound
<1>2. "row" \in Places /\ "copy" \in Places \ {"row"}
  BY DEF Places
<1>3. \A load \in t.loads : load.gen < h
  BY <1>1 DEF OfRows, Thumbs, Loads
<1> HIDE DEF h
<1>4. Sound(r) /\ OfRows(r, h) /\ Answered(r, "row", h)
  BY <1>1, <1>2, <1>3, PaintSound, PaintOfRows, PaintAnswered
<1>5. Answered(r, "copy", h)
  <2>1. Answered(t, "copy", h)
    BY <1>1 DEF Answered
  <2> QED
    BY <1>1, <1>2, <2>1, PaintAnswered
<1>6. r.painted = t.painted + 1
  <2>1. PaintedAs(r, t, "row", Rendered(t, "row", rows), h)
    BY <1>1, <1>2, PaintFields
  <2> QED
    BY <2>1 DEF PaintedAs
<1> HIDE DEF r
<1>7. Fine(r, h, FALSE)
  BY <1>4, <1>5 DEF Fine
<1> QED
  BY <1>6, <1>7 DEF r, h

-----------------------------------------------------------------------------
(* Steps.                                                                  *)

\* An entry that has been read is that of its fingerprint.
LEMMA DescribedType ==
    ASSUME NEW l, Described(l), NEW fp \in Fps, l[fp] # NoEntry
    PROVE  /\ l[fp] \in EntriesOf(fp)
           /\ l[fp].refs \in {RefsOf[w] : w \in Workflows}
  BY DEF Described, EntriesOf, Seen

\* A run describes its entry with one reference for each thing its encoder sees,
\* of the same type.
LEMMA DescribedAs ==
    ASSUME NEW w \in Workflows
    PROVE  /\ DOMAIN EncoderSees[w] = DOMAIN ItemsOf[w] /\ DOMAIN RefsOf[w] = DOMAIN ItemsOf[w]
           /\ \A i \in DOMAIN ItemsOf[w] : /\ EncoderSees[w][i][1] = TypeOf(ItemsOf[w][i])
                                           /\ RefsOf[w][i].type = TypeOf(ItemsOf[w][i])
<1> DEFINE items == Items(Prompt[w])
<1>1. ItemsOf[w] = items /\ RefsOf[w] = References(Prompt[w])
  BY DEF ItemsOf, RefsOf
<1>2. /\ DOMAIN References(Prompt[w]) = DOMAIN items
      /\ \A i \in DOMAIN items : References(Prompt[w])[i].type = TypeOf(items[i])
  BY DEF References
<1>3. EncoderSees[w] = [i \in DOMAIN items |->
            LET slot == items[i]
            IN  IF TypeOf(slot) = "audio" THEN <<"audio">>
                ELSE <<TypeOf(slot), Picture[Wired(Prompt[w])[slot]]>>]
  BY <1>1 DEF EncoderSees
<1> HIDE DEF items
<1>4. \A i \in DOMAIN items : EncoderSees[w][i][1] = TypeOf(items[i])
  BY <1>3
<1> QED
  BY <1>1, <1>2, <1>3, <1>4

\* So it has as many references as its fingerprint has items.
LEMMA DescribedShape ==
    ASSUME NEW l, Described(l), NEW fp \in Fps, l[fp] # NoEntry
    PROVE  DOMAIN l[fp].refs = DOMAIN fp
<1>1. PICK w \in Workflows : EncoderSees[w] = fp /\ l[fp].refs = RefsOf[w]
  BY DescribedType DEF EntriesOf, Seen
<1> QED
  BY <1>1, DescribedAs

\* The invariant holds at first.
LEMMA InitInv == Init => PanelInv
<1> SUFFICES ASSUME Init PROVE PanelInv
  OBVIOUS
<1> USE PanelAssumption DEF Init
<1>1. Runs
  BY DEF Runs
<1>2. Described(entry)
  <2>1. ASSUME NEW fp \in Fps, entry[fp] # NoEntry PROVE entry[fp] \in EntriesOf(fp)
    <3>1. PICK w \in family \cap Traceable :
             entry[fp] = [refs |-> RefsOf[w], sources |-> SourcesOf[w],
                          described |-> w, traced |-> w]
      BY <2>1
    <3>2. w \in Workflows /\ w \in Seen(fp)
      BY <2>1, <3>1 DEF Seen
    <3> QED
      BY <3>1, <3>2 DEF EntriesOf
  <2> QED
    BY <2>1 DEF Described
<1>3. Entries
  BY <1>2 DEF Entries, Described
<1>4. Opened
  BY DEF Opened
<1>5. thumbs \in Thumbs
  BY DEF NoThumbs, Thumbs
<1>6. Sound(thumbs)
  BY <1>5 DEF Sound, Numbered, Asked, Shown, Revoked, NoThumbs
<1>7. Pictures
  BY <1>6 DEF Pictures, Fine, OfRows, Answered, NoThumbs, Places
<1>8. copying \in Seq(Copies) /\ Len(copying) = 0
  OBVIOUS
<1>9. Copying
  BY <1>8 DEF Copying, FeedbackEnds
<1>10. Bounds
  BY <1>8 DEF Bounds, NoThumbs
<1> QED
  BY <1>1, <1>3, <1>4, <1>7, <1>9, <1>10 DEF PanelInv

\* A workflow of the user's family is one.
LEMMA FamilyType ==
    ASSUME Runs, NEW w \in family
    PROVE  w \in Workflows /\ EncoderSees[w] \in Fps /\ w \in Seen(EncoderSees[w])
<1>1. w \in Workflows
  BY DEF Runs, Workflows
<1> QED
  BY <1>1 DEF Fps, Seen

\* Runs and Deletes.
LEMMA ServerKeeps ==
    ASSUME PanelInv,
           \/ \E w \in family, refresh \in BOOLEAN : Describe(w, refresh)
           \/ Trace
           \/ \E fp \in Fps : Forget(fp)
    PROVE  PanelInv'
<1> USE DEF PanelInv
<1>1. UNCHANGED <<family, panel, copyUI, clicksLeft>>
  BY DEF Describe, Trace, Forget
<1>2. runsLeft' \in 0..MaxRuns
  <2>1. runsLeft \in 0..MaxRuns /\ MaxRuns \in Nat
    BY PanelAssumption DEF Bounds
  <2>2. runsLeft' = runsLeft \/ (runsLeft > 0 /\ runsLeft' = runsLeft - 1)
    BY DEF Describe, Trace, Forget
  <2> QED
    BY <2>1, <2>2
<1>3. Opened' /\ Pictures' /\ Copying' /\ Bounds'
  <2> USE <1>1, <1>2 DEF panel, copyUI
  <2>1. Opened'
    BY DEF Opened
  <2>2. Pictures'
    BY DEF Pictures
  <2>3. Copying'
    BY DEF Copying, FeedbackEnds
  <2>4. Bounds'
    BY DEF Bounds
  <2> QED
    BY <2>1, <2>2, <2>3, <2>4
<1>4. ASSUME Described(entry') PROVE Entries'
  BY <1>1, <1>4 DEF Entries, panel, Described
<1>5. ASSUME NEW w \in family, NEW refresh \in BOOLEAN, Describe(w, refresh)
      PROVE  Runs' /\ Described(entry')
  <2> DEFINE fp == EncoderSees[w]
             made == [refs |-> RefsOf[w], sources |-> <<>>, described |-> w, traced |-> NoRun]
  <2>1. w \in Workflows /\ fp \in Fps /\ w \in Seen(fp)
    BY FamilyType
  <2>2. Described(entry)
    BY DEF Entries
  <2>3. Runs'
    BY <1>1, <1>5 DEF Runs, Describe
  <2>4. CASE entry' = entry
    BY <2>2, <2>3, <2>4
  <2>5. CASE entry' = [entry EXCEPT ![fp] = made]
    <3>1. made \in EntriesOf(fp)
      BY <2>1 DEF EntriesOf
    <3> QED
      BY <2>1, <2>2, <2>3, <2>5, <3>1 DEF Described
  <2>6. CASE entry[fp] # NoEntry
             /\ entry' = [entry EXCEPT ![fp].refs = RefsOf[w], ![fp].described = w]
    <3>1. entry'[fp] = [entry[fp] EXCEPT !.refs = RefsOf[w], !.described = w]
      BY <2>1, <2>2, <2>6 DEF Described
    <3>2. entry[fp] \in EntriesOf(fp)
      BY <2>1, <2>2, <2>6, DescribedType
    <3>3. entry'[fp] \in EntriesOf(fp)
      BY <2>1, <3>1, <3>2 DEF EntriesOf
    <3> QED
      BY <2>1, <2>2, <2>3, <2>6, <3>3 DEF Described
  <2> QED
    BY <1>5, <2>4, <2>5, <2>6 DEF Describe
<1>6. ASSUME Trace PROVE Runs' /\ Described(entry')
  <2> DEFINE fp == EncoderSees[running]
             old == entry[fp]
  <2>1. /\ running \in family /\ running # NoRun /\ running \in Workflows
        /\ fp \in Fps /\ Described(entry)
    BY <1>6, FamilyType DEF Trace, Runs, Entries
  <2>2. Runs'
    BY <1>1, <1>6 DEF Runs, Trace
  <2>3. CASE entry' = entry
    BY <2>1, <2>2, <2>3
  <2>4. CASE old # NoEntry /\ entry' = [entry EXCEPT ![fp] = Traced(old, running)]
    <3>1. old \in EntriesOf(fp)
      BY <2>1, <2>4, DescribedType
    <3>2. Traced(old, running) \in EntriesOf(fp)
      BY <2>1, <3>1 DEF EntriesOf, Traced
    <3> QED
      BY <2>1, <2>2, <2>4, <3>2 DEF Described
  <2> QED
    BY <1>6, <2>3, <2>4 DEF Trace
<1>7. ASSUME NEW fp \in Fps, Forget(fp) PROVE Runs' /\ Described(entry')
  <2>1. Runs'
    BY <1>1, <1>7 DEF Runs, Forget
  <2> QED
    BY <1>7, <2>1 DEF Forget, Entries, Described
<1> QED
  BY <1>3, <1>4, <1>5, <1>6, <1>7

\* What is left of a click.
LEMMA ClickType ==
    ASSUME PanelInv, Click
    PROVE  /\ clicksLeft \in 1..MaxClicks /\ MaxClicks \in Nat
           /\ clicksLeft' = clicksLeft - 1
  BY PanelAssumption DEF Click, PanelInv, Bounds

\* A rendering of the list rebuilds the open panel or closes it.
LEMMA ReattachFine ==
    ASSUME NEW t, NEW l, NEW g \in Nat, PanelInv, Described(l), Fine(t, g, FALSE),
           Reattach(t, l, g)
    PROVE  /\ Fine(thumbs', g, open' # NoFp)
           /\ thumbs'.painted \in {t.painted, t.painted + 1}
           /\ {result', hint'} \subseteq Fps \cup {NoFp} /\ open' \in Fps \cup {NoFp}
           /\ open' # NoFp => /\ l[open'] # NoEntry
                              /\ cells' = DetailRefCells(l[open'].refs, l[open'].sources)
<1>1. open \in Fps \cup {NoFp} /\ {result, hint} \subseteq Fps \cup {NoFp}
  BY DEF PanelInv, Opened, Copying
<1>2. CASE open = NoFp
  BY <1>1, <1>2 DEF Reattach
<1>3. CASE open # NoFp /\ open \in Listed(l, tab)
  <2> DEFINE fps == {f \in {open} : HasThumbs(f, l)}
  <2>1. /\ thumbs' = Paint(t, "cell", fps, g) /\ open' = open /\ result' = result /\ hint' = hint
        /\ cells' = DetailRefCells(l[open].refs, l[open].sources)
    BY <1>3 DEF Reattach, PaintDetail
  <2>2. fps \in SUBSET Fps
    BY <1>1, <1>3
  <2> HIDE DEF fps
  <2>3. Fine(thumbs', g, TRUE) /\ thumbs'.painted = t.painted + 1
    BY <2>1, <2>2, PaintFine DEF Fine
  <2>4. l[open] # NoEntry
    BY <1>3 DEF Listed
  <2> QED
    BY <1>1, <1>3, <2>1, <2>3, <2>4 DEF Fine
<1>4. CASE open # NoFp /\ open \notin Listed(l, tab)
  <2>1. thumbs' = ResetCopy(t) /\ open' = NoFp /\ result' = NoFp /\ hint' = NoFp
    BY <1>4 DEF Reattach
  <2> QED
    BY <2>1, ResetFine DEF Fine
<1> QED
  BY <1>2, <1>3, <1>4

\* What the page does with its list and its panel leaves the server and pending
\* copies alone.
LEMMA PageKeeps ==
    ASSUME PanelInv, UNCHANGED <<server, copying, button>>, Click,
           NEW j \in 0..1, generation' = generation + j,
           NEW k \in 0..2, thumbs'.painted = thumbs.painted + k,
           {result', hint'} \subseteq Fps \cup {NoFp},
           Described(list'), Opened', Pictures'
    PROVE  PanelInv'
<1> USE DEF PanelInv, server
<1>1. Runs'
  BY DEF Runs
<1>2. Entries'
  BY DEF Entries, Described
<1>3. Copying'
  BY DEF Copying, FeedbackEnds
<1>4. Bounds'
  <2>1. /\ clicksLeft \in 1..MaxClicks /\ MaxClicks \in Nat
        /\ clicksLeft' = clicksLeft - 1
    BY ClickType
  <2>2. Len(copying) \in Nat /\ button.armed \in Nat /\ thumbs.painted \in Nat
    BY DEF Copying, Pictures, Fine, Sound, Thumbs
  <2> DEFINE n == Len(copying)
             armed == button.armed
             painted == thumbs.painted
  <2>3. /\ generation \in Nat /\ generation + clicksLeft <= MaxClicks
        /\ painted + 2 * clicksLeft + n <= 2 * MaxClicks
        /\ armed + clicksLeft + n <= MaxClicks
    BY DEF Bounds
  <2>4. /\ Len(copying') = n /\ button'.armed = armed
        /\ thumbs'.painted = painted + k
    OBVIOUS
  <2>5. /\ generation' \in Nat /\ generation' + clicksLeft' <= MaxClicks
        /\ thumbs'.painted + 2 * clicksLeft' + n <= 2 * MaxClicks
        /\ armed + clicksLeft' + n <= MaxClicks
    <3>1. n \in Nat /\ armed \in Nat /\ painted \in Nat
      BY <2>2
    <3> HIDE DEF n, armed, painted
    <3>2. generation' \in Nat /\ generation' + clicksLeft' <= MaxClicks
      BY <2>1, <2>3, <2>4
    <3>3. thumbs'.painted + 2 * clicksLeft' + n <= 2 * MaxClicks
      BY <2>1, <2>3, <2>4, <3>1
    <3>4. armed + clicksLeft' + n <= MaxClicks
      BY <2>1, <2>3, <2>4, <3>1
    <3> QED
      BY <3>2, <3>3, <3>4
  <2>6. runsLeft' \in 0..MaxRuns /\ clicksLeft' \in 0..MaxClicks
    BY <2>1 DEF Bounds
  <2> QED
    BY <2>1, <2>4, <2>5, <2>6 DEF Bounds
<1> QED
  BY <1>1, <1>2, <1>3, <1>4

\* Rendering the list keeps it.
LEMMA RenderKeeps ==
    ASSUME PanelInv, RenderList
    PROVE  PanelInv'
<1> DEFINE rows == Rows(list', tab)
           g == generation + 1
           t == Paint(thumbs, "row", rows, g)
<1>1. /\ Click /\ list' \in {list, entry} /\ generation' = g
      /\ Reattach(t, list', g) /\ UNCHANGED <<server, tab, copying, button>>
  BY DEF RenderList
<1>2. Described(list') /\ generation \in Nat /\ g \in Nat
  BY <1>1 DEF PanelInv, Entries, Bounds
<1>3. Fine(thumbs, generation, FALSE) /\ thumbs.painted \in Nat
  BY DEF PanelInv, Pictures, Fine, Sound, Thumbs
<1>4. rows \in SUBSET Fps
  BY DEF Rows, Listed
<1> HIDE DEF rows
<1>5. Fine(t, g, FALSE) /\ t.painted = thumbs.painted + 1
  BY <1>2, <1>3, <1>4, RowsFine
<1> HIDE DEF t
<1>6. /\ Fine(thumbs', g, open' # NoFp) /\ thumbs'.painted \in {t.painted, t.painted + 1}
      /\ {result', hint'} \subseteq Fps \cup {NoFp} /\ open' \in Fps \cup {NoFp}
      /\ open' # NoFp => /\ list'[open'] # NoEntry
                         /\ cells' = DetailRefCells(list'[open'].refs, list'[open'].sources)
  BY <1>1, <1>2, <1>5, ReattachFine
<1>7. Opened' /\ Pictures'
  BY <1>1, <1>2, <1>6 DEF Opened, Pictures, PanelInv
<1>8. \E k \in 0..2 : thumbs'.painted = thumbs.painted + k
  BY <1>3, <1>5, <1>6
<1> QED
  BY <1>1, <1>2, <1>6, <1>7, <1>8, PageKeeps

\* So does opening an entry,
LEMMA OpenKeeps ==
    ASSUME PanelInv, NEW fp \in Fps, OpenDetail(fp)
    PROVE  PanelInv'
<1> DEFINE fps == {f \in {fp} : HasThumbs(f, list)}
           t == ResetCopy(thumbs)
<1>1. /\ list[fp] # NoEntry /\ Click /\ open' = fp /\ result' = NoFp /\ hint' = NoFp
      /\ thumbs' = Paint(t, "cell", fps, generation)
      /\ cells' = DetailRefCells(list[fp].refs, list[fp].sources)
      /\ UNCHANGED <<server, list, tab, generation, copying, button>>
  BY DEF OpenDetail, PaintDetail, Listed
<1>2. /\ Fine(thumbs, generation, FALSE) /\ generation \in Nat /\ thumbs.painted \in Nat
      /\ Described(list) /\ tab \in Variants
  BY DEF PanelInv, Pictures, Fine, Sound, Thumbs, Bounds, Entries, Opened
<1>3. Fine(t, generation, FALSE) /\ t.painted = thumbs.painted
  BY <1>2, ResetFine
<1>4. fps \in SUBSET Fps
  OBVIOUS
<1> HIDE DEF t, fps
<1>5. Fine(thumbs', generation, TRUE) /\ thumbs'.painted = thumbs.painted + 1
  BY <1>1, <1>2, <1>3, <1>4, PaintFine DEF Fine
<1>6. Opened' /\ Pictures'
  BY <1>1, <1>2, <1>5 DEF Opened, Pictures, Fine
<1>7. generation' = generation + 0 /\ thumbs'.painted = thumbs.painted + 1
  BY <1>1, <1>2, <1>5
<1>8. Described(list')
  BY <1>1, <1>2 DEF Described
<1> QED
  BY <1>1, <1>6, <1>7, <1>8, PageKeeps

\* and closing it.
LEMMA CloseKeeps ==
    ASSUME PanelInv, CloseDetail
    PROVE  PanelInv'
<1>1. /\ Click /\ open' = NoFp /\ result' = NoFp /\ hint' = NoFp /\ thumbs' = ResetCopy(thumbs)
      /\ UNCHANGED <<server, list, tab, cells, generation, copying, button>>
  BY DEF CloseDetail
<1>2. /\ Fine(thumbs, generation, FALSE) /\ generation \in Nat /\ thumbs.painted \in Nat
      /\ Described(list) /\ tab \in Variants
  BY DEF PanelInv, Pictures, Fine, Sound, Thumbs, Bounds, Entries, Opened
<1>3. Fine(thumbs', generation, FALSE) /\ thumbs'.painted = thumbs.painted
  BY <1>1, <1>2, ResetFine
<1>4. Opened' /\ Pictures'
  BY <1>1, <1>2, <1>3 DEF Opened, Pictures, Fine
<1>5. generation' = generation + 0 /\ thumbs'.painted = thumbs.painted + 0
  BY <1>1, <1>2, <1>3
<1>6. Described(list')
  BY <1>1, <1>2 DEF Described
<1> QED
  BY <1>1, <1>4, <1>5, <1>6, PageKeeps

\* The other tab is a new list, and has no panel.
LEMMA SwitchKeeps ==
    ASSUME PanelInv, NEW v \in Variants, SwitchVariant(v)
    PROVE  PanelInv'
<1> DEFINE t == IF open = NoFp THEN thumbs ELSE ResetCopy(thumbs)
           rows == Rows(list, v)
           g == generation + 1
<1>1. /\ Click /\ tab' = v /\ generation' = g /\ open' = NoFp
      /\ thumbs' = Paint(t, "row", rows, g)
      /\ UNCHANGED <<server, list, cells, copying, button>>
  BY DEF SwitchVariant
<1>2. {result', hint'} \subseteq Fps \cup {NoFp}
  BY DEF SwitchVariant, PanelInv, Copying
<1>3. /\ Fine(thumbs, generation, FALSE) /\ generation \in Nat /\ thumbs.painted \in Nat
      /\ Described(list)
  BY DEF PanelInv, Pictures, Fine, Sound, Thumbs, Bounds, Entries
<1>4. Fine(t, generation, FALSE) /\ t.painted = thumbs.painted
  BY <1>3, ResetFine
<1>5. rows \in SUBSET Fps
  BY DEF Rows, Listed
<1> HIDE DEF t, rows
<1>6. Fine(thumbs', g, FALSE) /\ thumbs'.painted = thumbs.painted + 1
  BY <1>1, <1>3, <1>4, <1>5, RowsFine
<1>7. Opened' /\ Pictures'
  BY <1>1, <1>6 DEF Opened, Pictures, Fine
<1>8. Described(list') /\ generation' = generation + 1
  BY <1>1, <1>3 DEF Described
<1> QED
  BY <1>1, <1>2, <1>6, <1>7, <1>8, PageKeeps

\* An answer is for an image that has none yet; one that is wanted gets its URL,
\* and one that is not wanted is not on the screen.
LEMMA ArriveKeeps ==
    ASSUME PanelInv, NEW load \in thumbs.loads, Arrive(load) \/ ArriveNot(load)
    PROVE  PanelInv'
<1> DEFINE t == thumbs
           img == load.img
           place == img[1]
           r == thumbs'
<1>1. UNCHANGED <<server, list, tab, open, cells, generation, copyUI, clicksLeft>>
  BY DEF Arrive, ArriveNot
<1>2. /\ Sound(t) /\ OfRows(t, generation) /\ Answered(t, "row", generation)
      /\ Answered(t, "copy", generation) /\ (open # NoFp => Answered(t, "cell", generation))
      /\ t \in Thumbs
  BY DEF PanelInv, Pictures, Fine, Sound
<1>3. /\ load \in Loads /\ img \in Images /\ place \in Places /\ img[3] <= t.painted
      /\ img \notin t.src \cup t.gone
      /\ \A other \in t.loads : other.img = img => other = load
  BY <1>2 DEF Thumbs, Loads, Images, Sound, Numbered, Asked
<1>4. /\ t.dom \in [Places -> SUBSET Images] /\ t.pool \in [Places -> SUBSET Images]
      /\ t.src \in SUBSET Images /\ t.live \in SUBSET Images /\ t.gone \in SUBSET Images
      /\ t.loads \in SUBSET Loads /\ t.painted \in Nat
  BY <1>2 DEF Thumbs
<1> DEFINE g == generation
           Kept == r \in Thumbs /\ r.dom = t.dom /\ r.painted = t.painted /\ r.loads = t.loads \ {load}
<1>5. ASSUME Kept, NEW p \in Places,
             NEW other \in t.dom[p] \ (t.src \cup t.gone), p = "row" \/ p = "copy" \/ open # NoFp,
             other # img \/ ~Wanted(load)
      PROVE  \E l \in r.loads : l.img = other /\ (p = "copy" \/ l.gen = g)
  <2>1. PICK l \in t.loads : l.img = other /\ (p = "copy" \/ l.gen = g)
    <3>1. Answered(t, p, g)
      BY <1>2, <1>5 DEF Places
    <3> QED
      BY <1>5, <3>1 DEF Answered
  <2>2. other[1] = p
    BY <1>2, <1>5 DEF Sound, Numbered
  <2>3. l # load
    BY <1>5, <2>1, <2>2 DEF Wanted
  <2> QED
    BY <1>5, <2>1, <2>3
<1>6. ASSUME Kept PROVE OfRows(r, g)
  BY <1>2, <1>6 DEF OfRows
<1>7. ASSUME Sound(r), Kept,
             \A p \in Places : p = "row" \/ p = "copy" \/ open # NoFp => Answered(r, p, g)
      PROVE  PanelInv'
  <2>1. Pictures'
    BY <1>1, <1>6, <1>7 DEF Pictures, Fine, Places
  <2>2. Runs' /\ Entries' /\ Opened' /\ Copying'
    BY <1>1 DEF server, copyUI, PanelInv, Runs, Entries, Described, Opened, Copying, FeedbackEnds
  <2>3. Bounds'
    BY <1>1, <1>7 DEF server, copyUI, PanelInv, Bounds
  <2> QED
    BY <2>1, <2>2, <2>3 DEF PanelInv
<1>8. CASE ArriveNot(load)
  <2>1. /\ Kept /\ r.pool = t.pool /\ r.src = t.src /\ r.live = t.live
        /\ r.gone = t.gone \cup ({img} \cap t.dom[place])
    BY <1>2, <1>3, <1>4, <1>8 DEF ArriveNot, Thumbs
  <2>2. Sound(r)
    BY <1>2, <1>3, <1>4, <2>1 DEF Sound, Numbered, Asked, Shown, Revoked
  <2>3. ASSUME NEW p \in Places, p = "row" \/ p = "copy" \/ open # NoFp
        PROVE  Answered(r, p, g)
    <3>1. ASSUME NEW other \in r.dom[p] \ (r.src \cup r.gone) PROVE other # img
      BY <1>2, <1>3, <2>1, <3>1 DEF Sound, Numbered
    <3> QED
      BY <1>5, <2>1, <2>3, <3>1 DEF Answered
  <2> QED
    BY <1>7, <2>1, <2>2, <2>3
<1>9. CASE Arrive(load) /\ ~Wanted(load)
  <2>1. /\ Kept /\ r.pool = t.pool /\ r.src = t.src /\ r.live = t.live /\ r.gone = t.gone
    BY <1>2, <1>4, <1>9 DEF Arrive, Thumbs
  <2>2. Sound(r)
    BY <1>2, <1>4, <2>1 DEF Sound, Numbered, Asked, Shown, Revoked
  <2>3. ASSUME NEW p \in Places, p = "row" \/ p = "copy" \/ open # NoFp
        PROVE  Answered(r, p, g)
    BY <1>5, <1>9, <2>1, <2>3 DEF Answered
  <2> QED
    BY <1>7, <2>1, <2>2, <2>3
<1>10. CASE Arrive(load) /\ Wanted(load)
  <2> DEFINE added == IF place = "copy" \/ img \in t.dom[place]
                      THEN t.pool[place] \cup {img} ELSE t.pool[place]
  <2>1. /\ Kept /\ r.pool = [t.pool EXCEPT ![place] = added]
        /\ r.src = t.src \cup ({img} \cap t.dom[place]) /\ r.live = t.live \cup {img}
        /\ r.gone = t.gone
    <3> DEFINE u == [t EXCEPT !.loads = @ \ {load}]
    <3>1. /\ u \in Thumbs /\ u.dom = t.dom /\ u.pool = t.pool /\ u.src = t.src
          /\ u.live = t.live /\ u.painted = t.painted /\ u.gone = t.gone
          /\ u.loads = t.loads \ {load}
      BY <1>2, <1>4 DEF Thumbs
    <3>2. added \in SUBSET Images
      BY <1>3, <1>4
    <3>3. r = [u EXCEPT !.live = @ \cup {img}, !.src = @ \cup ({img} \cap u.dom[place]),
                        !.pool[place] = added]
      BY <1>10, <3>1 DEF Arrive, PoolIsCurrent
    <3> HIDE DEF u, added
    <3> QED
      BY <1>3, <1>4, <3>1, <3>2, <3>3 DEF Thumbs
  <2>2. Sound(r)
    <3>1. Numbered(r)
      BY <1>2, <1>3, <1>4, <2>1 DEF Sound, Numbered
    <3>2. Asked(r)
      BY <1>2, <1>3, <2>1 DEF Sound, Asked
    <3>3. Shown(r)
      BY <1>2, <2>1 DEF Sound, Shown
    <3>4. place = "copy" \/ img \in t.dom[place] \/ place = "cell"
      BY <1>2, <1>3, <1>10 DEF Wanted, OfRows, Places
    <3>5. ASSUME NEW i \in r.live
          PROVE  (\E p \in Places : i \in r.pool[p]) \/ (i[1] = "cell" /\ i \notin r.dom["cell"])
      <4>1. CASE i = img
        BY <1>3, <1>4, <2>1, <3>4, <4>1
      <4>2. CASE i # img
        BY <1>2, <1>3, <1>4, <2>1, <3>5, <4>2 DEF Sound, Revoked
      <4> QED
        BY <4>1, <4>2
    <3> QED
      BY <2>1, <3>1, <3>2, <3>3, <3>5 DEF Sound, Revoked
  <2>3. ASSUME NEW p \in Places, p = "row" \/ p = "copy" \/ open # NoFp
        PROVE  Answered(r, p, g)
    <3>1. ASSUME NEW other \in r.dom[p] \ (r.src \cup r.gone) PROVE other # img
      BY <1>2, <1>3, <2>1, <3>1 DEF Sound, Numbered
    <3> QED
      BY <1>5, <2>1, <2>3, <3>1 DEF Answered
  <2> QED
    BY <1>7, <2>1, <2>2, <2>3
<1> QED
  BY <1>8, <1>9, <1>10

\* r is s without its i-th element.
LostOnly(r, s, i, S) ==
    /\ r \in Seq(S) /\ Len(r) = Len(s) - 1 /\ Len(s) \in Nat
    /\ \A j \in DOMAIN s \ {i} : \E k \in DOMAIN r : r[k] = s[j]


\* Taking one element out of a sequence keeps the others.
LEMMA RemoveAtKeeps ==
    ASSUME NEW S, NEW s \in Seq(S), NEW i \in DOMAIN s
    PROVE  LostOnly(RemoveAt(s, i), s, i, S)
<1> DEFINE n == Len(s)
           a == SubSeq(s, 1, i - 1)
           b == SubSeq(s, i + 1, n)
<1>1. n \in Nat /\ DOMAIN s = 1..n /\ i \in 1..n /\ \A j \in 1..n : s[j] \in S
  BY LenProperties, ElementOfSeq
<1>2. /\ a \in Seq(S) /\ Len(a) = i - 1 /\ \A j \in 1..(i - 1) : a[j] = s[j]
  BY <1>1
<1>3. /\ b \in Seq(S) /\ Len(b) = n - i /\ \A j \in 1..(n - i) : b[j] = s[i + j]
  <2>1. /\ i + 1 \in Int /\ n \in Int /\ \A j \in (i + 1)..n : s[j] \in S
    BY <1>1
  <2>2. /\ b \in Seq(S) /\ Len(b) = IF i + 1 <= n THEN n - (i + 1) + 1 ELSE 0
        /\ \A j \in 1..(n - (i + 1) + 1) : b[j] = s[(i + 1) + j - 1]
    BY <2>1, SubSeqProperties
  <2>3. Len(b) = n - i
    BY <1>1, <2>2
  <2>4. ASSUME NEW j \in 1..(n - i) PROVE b[j] = s[i + j]
    <3>1. j \in 1..(n - (i + 1) + 1) /\ (i + 1) + j - 1 = i + j
      BY <1>1
    <3> QED
      BY <2>2, <3>1
  <2> QED
    BY <2>2, <2>3, <2>4
<1> HIDE DEF n, a, b
<1>4. /\ a \o b \in Seq(S) /\ Len(a \o b) = n - 1
      /\ \A j \in 1..(n - 1) : /\ j <= i - 1 => (a \o b)[j] = a[j]
                               /\ j > i - 1 => (a \o b)[j] = b[j - (i - 1)]
  <2>1. /\ a \o b \in Seq(S) /\ Len(a \o b) = Len(a) + Len(b)
        /\ \A j \in 1 .. Len(a) + Len(b) :
              (a \o b)[j] = IF j <= Len(a) THEN a[j] ELSE b[j - Len(a)]
    BY <1>2, <1>3, ConcatProperties
  <2>2. Len(a) = i - 1 /\ Len(a) + Len(b) = n - 1
    BY <1>1, <1>2, <1>3
  <2>3. ASSUME NEW j \in 1..(n - 1)
        PROVE  /\ j <= i - 1 => (a \o b)[j] = a[j]
               /\ j > i - 1 => (a \o b)[j] = b[j - (i - 1)]
    BY <1>1, <2>1, <2>2
  <2> QED
    BY <2>1, <2>2, <2>3
<1>5. DOMAIN (a \o b) = 1..(n - 1)
  BY <1>4, LenProperties
<1>6. ASSUME NEW j \in (1..n) \ {i} PROVE \E k \in 1..(n - 1) : (a \o b)[k] = s[j]
  <2>1. CASE j < i
    BY <1>1, <1>2, <1>4, <2>1
  <2>2. CASE j > i
    <3>1. /\ j - 1 \in 1..(n - 1) /\ j - 1 > i - 1 /\ j - i \in 1..(n - i)
          /\ (j - 1) - (i - 1) = j - i /\ i + (j - i) = j
      BY <1>1, <2>2
    <3>2. (a \o b)[j - 1] = b[j - i]
      BY <1>4, <3>1
    <3>3. b[j - i] = s[j]
      BY <1>3, <3>1
    <3> QED
      BY <3>1, <3>2, <3>3
  <2>3. j < i \/ j > i
    BY <1>1, <1>6
  <2> QED
    BY <2>1, <2>2, <2>3
<1> QED
  BY <1>1, <1>4, <1>5, <1>6 DEF LostOnly, RemoveAt, n, a, b

\* Cancelling leaves no timer.
LEMMA CancelledType ==
    ASSUME FeedbackEnds,
           button \in [face : {"plain", "copied", "failed"}, handle : BOOLEAN, armed : Nat]
    PROVE  /\ Cancelled \in [face : {"plain", "copied", "failed"}, handle : BOOLEAN, armed : Nat]
           /\ Cancelled.armed = 0 /\ ~Cancelled.handle /\ Cancelled.face = button.face
<1>1. CASE button.handle
  <2>1. button.armed = 1
    BY <1>1 DEF FeedbackEnds
  <2>2. Cancelled = [button EXCEPT !.handle = FALSE, !.armed = 0]
    BY <1>1, <2>1 DEF Cancelled
  <2> QED
    BY <2>2
<1>2. CASE ~button.handle
  BY <1>2 DEF Cancelled, FeedbackEnds
<1> QED
  BY <1>1, <1>2

\* A copy that is asked for is remembered until the clipboard answers.
LEMMA ClickCopyKeeps ==
    ASSUME PanelInv, NEW icon \in BOOLEAN, ClickCopy(icon)
    PROVE  PanelInv'
<1>1. /\ UNCHANGED <<server, panel, result, hint>> /\ open # NoFp /\ Click
  BY DEF ClickCopy
<1>2. /\ copying \in Seq(Copies) /\ button.handle \in BOOLEAN /\ button.armed \in Nat
      /\ button \in [face : {"plain", "copied", "failed"}, handle : BOOLEAN, armed : Nat]
      /\ FeedbackEnds /\ Len(copying) \in Nat
  BY DEF PanelInv, Copying
<1>3. Runs' /\ Entries' /\ Opened' /\ Pictures'
  <2> USE <1>1 DEF PanelInv, server, panel
  <2>1. Runs' /\ Entries'
    BY DEF Runs, Entries, Described
  <2> QED
    BY <2>1 DEF Opened, Pictures
<1> DEFINE n == Len(copying)
           armed == button.armed
           Buttons == [face : {"plain", "copied", "failed"}, handle : BOOLEAN, armed : Nat]
<1>4. /\ Cancelled \in Buttons
      /\ Cancelled.armed = 0 /\ ~Cancelled.handle /\ Cancelled.face = button.face
  BY <1>2, CancelledType
<1>5. ASSUME copying' \in Seq(Copies), \E k \in 0..1 : Len(copying') = n + k,
             button' \in Buttons, \E a \in 0..armed : button'.armed = a, FeedbackEnds'
      PROVE  PanelInv'
  <2> PICK k \in 0..1 : Len(copying') = n + k
    BY <1>5
  <2> PICK a \in 0..armed : button'.armed = a
    BY <1>5
  <2>1. Copying'
    BY <1>1, <1>5 DEF PanelInv, Copying
  <2>2. /\ clicksLeft \in 1..MaxClicks /\ MaxClicks \in Nat /\ clicksLeft' = clicksLeft - 1
    BY <1>1, ClickType
  <2>3. Bounds'
    <3> DEFINE painted == thumbs.painted
    <3>1. /\ generation \in Nat /\ generation + clicksLeft <= MaxClicks
          /\ painted + 2 * clicksLeft + n <= 2 * MaxClicks
          /\ armed + clicksLeft + n <= MaxClicks /\ runsLeft \in 0..MaxRuns
      BY DEF PanelInv, Bounds
    <3>2. n \in Nat /\ armed \in Nat /\ painted \in Nat
      BY <1>2 DEF PanelInv, Pictures, Fine, Sound, Thumbs
    <3>3. /\ generation' = generation /\ thumbs'.painted = painted /\ runsLeft' = runsLeft
          /\ Len(copying') = n + k /\ button'.armed = a
      BY <1>1, <1>5 DEF panel, server
    <3> HIDE DEF n, armed, painted
    <3>4. generation + clicksLeft' <= MaxClicks /\ clicksLeft' \in 0..MaxClicks
      BY <2>2, <3>1
    <3>5. painted + 2 * clicksLeft' + (n + k) <= 2 * MaxClicks
      BY <2>2, <3>1, <3>2
    <3>6. a + clicksLeft' + (n + k) <= MaxClicks
      BY <1>5, <2>2, <3>1, <3>2
    <3> QED
      BY <3>1, <3>3, <3>4, <3>5, <3>6 DEF Bounds
  <2> QED
    BY <1>3, <2>1, <2>3 DEF PanelInv
<1>6. CASE list[open] = NoEntry
  <2>1. copying' = copying /\ button' = IF icon THEN CopyFailed ELSE button
    BY <1>6 DEF ClickCopy
  <2>2. CASE icon
    <3>1. button' \in Buttons /\ button'.armed = 0 /\ ~button'.handle /\ button'.face = "failed"
      BY <1>4, <2>1, <2>2 DEF CopyFailed
    <3>2. FeedbackEnds'
      BY <2>1, <3>1 DEF FeedbackEnds
    <3>3. (\E k \in 0..1 : Len(copying') = n + k) /\ \E a \in 0..armed : button'.armed = a
      BY <1>2, <2>1, <3>1
    <3> QED
      BY <1>2, <1>5, <2>1, <3>1, <3>2, <3>3
  <2>3. CASE ~icon
    <3>1. button' = button
      BY <2>1, <2>3
    <3>2. FeedbackEnds'
      BY <1>2, <2>1, <3>1 DEF FeedbackEnds
    <3>3. (\E k \in 0..1 : Len(copying') = n + k) /\ \E a \in 0..armed : button'.armed = a
      BY <1>2, <2>1, <3>1
    <3> QED
      BY <1>2, <1>5, <2>1, <3>1, <3>2, <3>3
  <2> QED
    BY <2>2, <2>3
<1>7. CASE list[open] # NoEntry
  <2> DEFINE c == [fp |-> open, refs |-> list[open].refs, icon |-> icon]
  <2>1. copying' = Append(copying, c) /\ button' = IF icon THEN Cancelled ELSE button
    BY <1>7 DEF ClickCopy
  <2>2. c \in Copies
    BY <1>1, <1>7, DescribedType DEF PanelInv, Opened, Entries, Copies
  <2>3. /\ copying' \in Seq(Copies) /\ Len(copying') = n + 1
        /\ DOMAIN copying' = 1..(n + 1) /\ DOMAIN copying = 1..n
        /\ \A i \in 1..n : copying'[i] = copying[i]
        /\ copying'[n + 1].icon = icon /\ n + 1 \in 1..(n + 1) /\ 1..n \subseteq 1..(n + 1)
    BY <1>2, <2>1, <2>2
  <2>4. CASE icon
    <3>1. button' \in Buttons /\ button'.armed = 0 /\ ~button'.handle
      BY <1>4, <2>1, <2>4
    <3>2. FeedbackEnds'
      BY <2>3, <2>4, <3>1 DEF FeedbackEnds
    <3>3. (\E k \in 0..1 : Len(copying') = n + k) /\ \E a \in 0..armed : button'.armed = a
      BY <1>2, <2>3, <3>1
    <3> QED
      BY <1>5, <2>3, <3>1, <3>2, <3>3
  <2>5. CASE ~icon
    <3>1. button' = button
      BY <2>1, <2>5
    <3>2. FeedbackEnds'
      BY <1>2, <2>3, <3>1 DEF FeedbackEnds
    <3>3. (\E k \in 0..1 : Len(copying') = n + k) /\ \E a \in 0..armed : button'.armed = a
      BY <1>2, <2>3, <3>1
    <3> QED
      BY <1>2, <1>5, <2>3, <3>1, <3>2, <3>3
  <2> QED
    BY <2>4, <2>5
<1> QED
  BY <1>6, <1>7

\* An answer of the clipboard shows its result and starts its timer anew.
LEMMA CopySettlesKeeps ==
    ASSUME PanelInv, NEW i \in DOMAIN copying, NEW ok \in BOOLEAN, CopySettles(i, ok)
    PROVE  PanelInv'
<1> DEFINE n == Len(copying)
           armed == button.armed
           painted == thumbs.painted
           c == copying[i]
           images == tab = "fl2va" /\ c.refs # <<>>
           Buttons == [face : {"plain", "copied", "failed"}, handle : BOOLEAN, armed : Nat]
<1>1. /\ copying \in Seq(Copies) /\ button \in Buttons /\ FeedbackEnds
      /\ n \in Nat /\ DOMAIN copying = 1..n /\ c \in Copies /\ button.armed \in {0, 1}
      /\ {result, hint} \subseteq Fps \cup {NoFp}
  BY LenProperties, ElementOfSeq DEF PanelInv, Copying, FeedbackEnds
<1>2. /\ copying' = RemoveAt(copying, i) /\ result' = c.fp
      /\ hint' = IF c.refs = <<>> THEN NoFp ELSE c.fp
      /\ thumbs' = IF images THEN Paint(thumbs, "copy", {c.fp}, generation)
                   ELSE Revoke(thumbs, "copy")
      /\ button' = IF ~c.icon THEN button ELSE IF ok THEN Copied ELSE CopyFailed
      /\ UNCHANGED <<server, list, tab, open, cells, generation, clicksLeft>>
  BY DEF CopySettles
<1>3. /\ copying' \in Seq(Copies) /\ Len(copying') = n - 1
      /\ \A j \in DOMAIN copying \ {i} : \E k \in DOMAIN copying' : copying'[k] = copying[j]
  <2>1. LostOnly(RemoveAt(copying, i), copying, i, Copies)
    BY <1>1, RemoveAtKeeps
  <2> QED
    BY <1>2, <2>1 DEF LostOnly
<1>4. Runs' /\ Entries' /\ Opened'
  BY <1>2 DEF PanelInv, Runs, Entries, Described, Opened, server
<1>5. Pictures' /\ thumbs'.painted \in {painted, painted + 1} /\ painted \in Nat
  <2>1. /\ Fine(thumbs, generation, open # NoFp) /\ generation \in Nat /\ painted \in Nat
        /\ {c.fp} \in SUBSET Fps
    BY <1>1 DEF PanelInv, Pictures, Fine, Sound, Thumbs, Bounds, Copies
  <2>2. CASE images
    <3>1. Fine(thumbs', generation, open # NoFp) /\ thumbs'.painted = painted + 1
      BY <1>2, <2>1, <2>2, PaintFine
    <3> QED
      BY <1>2, <2>1, <3>1 DEF Pictures
  <2>3. CASE ~images
    <3>1. Fine(thumbs', generation, open # NoFp) /\ thumbs'.painted = painted
      BY <1>2, <2>1, <2>3, ResetFine DEF ResetCopy
    <3> QED
      BY <1>2, <2>1, <3>1 DEF Pictures
  <2> QED
    BY <2>2, <2>3
<1>6. /\ Cancelled \in Buttons /\ Cancelled.armed = 0 /\ ~Cancelled.handle
  BY <1>1, CancelledType
<1>7. button' \in Buttons /\ (\E a \in 0..1 : button'.armed = a) /\ FeedbackEnds'
  <2>1. CASE ~c.icon
    <3>1. button' = button
      BY <1>2, <2>1
    <3>2. ASSUME button.face = "copied", ~button.handle
          PROVE  \E k \in DOMAIN copying' : copying'[k].icon
      <4>1. PICK j \in DOMAIN copying : copying[j].icon
        BY <1>1, <3>2 DEF FeedbackEnds
      <4>2. j # i
        BY <2>1, <4>1
      <4> QED
        BY <1>3, <4>1, <4>2
    <3> QED
      BY <1>1, <3>1, <3>2 DEF FeedbackEnds
  <2>2. CASE c.icon /\ ok
    <3>1. Copied = [Cancelled EXCEPT !.face = "copied", !.handle = TRUE, !.armed = 1]
      BY <1>6 DEF Copied
    <3>2. Copied \in Buttons /\ Copied.armed = 1 /\ Copied.handle
      BY <1>6, <3>1
    <3>3. button' = Copied
      BY <1>2, <2>2
    <3> QED
      BY <3>2, <3>3 DEF FeedbackEnds
  <2>3. CASE c.icon /\ ~ok
    <3>1. /\ button' \in Buttons /\ button'.armed = 0 /\ ~button'.handle
          /\ button'.face = "failed"
      BY <1>2, <1>6, <2>3 DEF CopyFailed
    <3> QED
      BY <3>1 DEF FeedbackEnds
  <2> QED
    BY <2>1, <2>2, <2>3
<1>8. Bounds'
  <2> PICK a \in 0..1 : button'.armed = a
    BY <1>7
  <2> PICK k \in 0..1 : thumbs'.painted = painted + k
    BY <1>5
  <2>1. /\ generation \in Nat /\ generation + clicksLeft <= MaxClicks
        /\ painted + 2 * clicksLeft + n <= 2 * MaxClicks
        /\ armed + clicksLeft + n <= MaxClicks /\ runsLeft \in 0..MaxRuns
        /\ clicksLeft \in 0..MaxClicks /\ MaxClicks \in Nat
    BY PanelAssumption DEF PanelInv, Bounds
  <2>2. /\ generation' = generation /\ runsLeft' = runsLeft /\ clicksLeft' = clicksLeft
        /\ Len(copying') = n - 1 /\ n \in Nat /\ armed \in Nat /\ painted \in Nat
    BY <1>1, <1>2, <1>3, <1>5 DEF server
  <2> HIDE DEF n, armed, painted
  <2>3. painted + k + 2 * clicksLeft + (n - 1) <= 2 * MaxClicks
    BY <2>1, <2>2
  <2>4. a + clicksLeft + (n - 1) <= MaxClicks
    BY <2>1, <2>2
  <2> QED
    BY <2>1, <2>2, <2>3, <2>4 DEF Bounds
<1>9. Copying'
  BY <1>1, <1>2, <1>3, <1>7 DEF Copying, Copies
<1> QED
  BY <1>4, <1>5, <1>8, <1>9 DEF PanelInv

\* Once the icon is itself again there is no timer left.
LEMMA RevertKeeps ==
    ASSUME PanelInv, RevertFires
    PROVE  PanelInv'
<1>1. /\ UNCHANGED <<server, panel, copying, result, hint, clicksLeft>>
      /\ button' = [face |-> "plain", handle |-> FALSE, armed |-> button.armed - 1]
      /\ button.armed = 1
  BY DEF RevertFires, PanelInv, Copying, FeedbackEnds
<1>2. button'.armed = 0 /\ ~button'.handle /\ button'.face = "plain"
  BY <1>1
<1>3. Runs' /\ Entries' /\ Opened' /\ Pictures'
  <2> USE <1>1 DEF PanelInv, server, panel
  <2>1. Runs' /\ Entries'
    BY DEF Runs, Entries, Described
  <2> QED
    BY <2>1 DEF Opened, Pictures
<1>4. Copying'
  BY <1>1, <1>2 DEF PanelInv, Copying, FeedbackEnds
<1>5. Bounds'
  <2>1. /\ generation \in Nat /\ generation + clicksLeft <= MaxClicks
        /\ thumbs.painted + 2 * clicksLeft + Len(copying) <= 2 * MaxClicks
        /\ 1 + clicksLeft + Len(copying) <= MaxClicks /\ runsLeft \in 0..MaxRuns
        /\ clicksLeft \in 0..MaxClicks /\ MaxClicks \in Nat /\ Len(copying) \in Nat
    BY <1>1, PanelAssumption DEF PanelInv, Bounds, Copying
  <2>2. clicksLeft + Len(copying) <= MaxClicks
    BY <2>1
  <2>3. 0 + clicksLeft + Len(copying) <= MaxClicks
    BY <2>1
  <2> QED
    BY <1>1, <1>2, <2>1, <2>3 DEF Bounds, server, panel
<1> QED
  BY <1>3, <1>4, <1>5 DEF PanelInv

\* Every step keeps the invariant.
LEMMA StepKeeps == PanelInv /\ [Next]_vars => PanelInv'
<1> SUFFICES ASSUME PanelInv, [Next]_vars PROVE PanelInv'
  OBVIOUS
<1>1. CASE UNCHANGED vars
  <2> USE <1>1 DEF vars, server, panel, copyUI, PanelInv
  <2>1. Runs' /\ Entries' /\ Opened'
    BY DEF Runs, Entries, Described, Opened
  <2>2. Pictures' /\ Copying' /\ Bounds'
    BY DEF Pictures, Copying, FeedbackEnds, Bounds
  <2> QED
    BY <2>1, <2>2
<1>2. CASE Next
  BY <1>2, ServerKeeps, OpenKeeps, RenderKeeps, SwitchKeeps, CloseKeeps, ArriveKeeps, ClickCopyKeeps,
     CopySettlesKeeps, RevertKeeps DEF Next
<1> QED
  BY <1>1, <1>2

-----------------------------------------------------------------------------
(* Theorems.                                                               *)

\* The inductive invariant.
THEOREM Invariance == Spec => []PanelInv
  BY InitInv, StepKeeps, PTL DEF Spec

\* Every variable stays in its type, and nothing grows beyond the clicks.
THEOREM TypeCorrect == Spec => []TypeOK
<1>1. ASSUME PanelInv PROVE TypeOK
  <2> USE <1>1 DEF PanelInv
  <2>1. family \in Families /\ running \in family \cup {NoRun}
    BY DEF Runs
  <2>2. ASSUME NEW l, Described(l)
        PROVE  DOMAIN l = Fps /\ \A fp \in Fps : l[fp] # NoEntry => DOMAIN l[fp].refs = DOMAIN fp
    BY <2>2, DescribedShape DEF Described
  <2>3. tab \in Variants /\ open \in Fps \cup {NoFp} /\ (open # NoFp => list[open] # NoEntry)
    BY DEF Opened
  <2>4. /\ generation \in 0..MaxClicks /\ runsLeft \in 0..MaxRuns /\ clicksLeft \in 0..MaxClicks
        /\ thumbs.painted \in 0..2 * MaxClicks /\ Len(copying) \in 0..MaxClicks
        /\ button.armed \in 0..MaxClicks
    <3>1. thumbs.painted \in Nat /\ button.armed \in Nat /\ Len(copying) \in Nat
      BY DEF Pictures, Fine, Sound, Thumbs, Copying
    <3> DEFINE painted == thumbs.painted
               armed == button.armed
               n == Len(copying)
    <3>2. /\ generation \in Nat /\ runsLeft \in 0..MaxRuns /\ clicksLeft \in 0..MaxClicks
          /\ generation + clicksLeft <= MaxClicks /\ MaxClicks \in Nat
          /\ painted + 2 * clicksLeft + n <= 2 * MaxClicks /\ armed + clicksLeft + n <= MaxClicks
      BY PanelAssumption DEF Bounds
    <3>3. painted \in Nat /\ armed \in Nat /\ n \in Nat
      BY <3>1
    <3> HIDE DEF painted, armed, n
    <3>4. /\ generation \in 0..MaxClicks /\ painted \in 0..2 * MaxClicks
          /\ n \in 0..MaxClicks /\ armed \in 0..MaxClicks
      BY <3>2, <3>3
    <3> QED
      BY <3>2, <3>4 DEF painted, armed, n
  <2>5. \A load \in thumbs.loads : load.img \notin thumbs.src \cup thumbs.gone
    BY DEF Pictures, Fine, Sound, Asked
  <2>6. /\ {result, hint} \subseteq Fps \cup {NoFp}
        /\ button.face \in {"plain", "copied", "failed"}
    BY DEF Copying
  <2>7. \A l \in {entry, list} : DOMAIN l = Fps
            /\ \A fp \in Fps : l[fp] # NoEntry => DOMAIN l[fp].refs = DOMAIN fp
    BY <2>2 DEF Entries
  <2> QED
    BY <2>1, <2>3, <2>4, <2>5, <2>6, <2>7 DEF TypeOK
<1> QED
  BY <1>1, Invariance, PTL

\* No picture on the screen loses its URL, none waits for an answer that will not
\* be taken, and no URL is left over but those the code is known to leave.
THEOREM PicturesAreRight == Spec => []ThumbsRight
<1>1. ASSUME PanelInv PROVE ThumbsRight
  <2>1. /\ Sound(thumbs) /\ Answered(thumbs, "row", generation)
        /\ Answered(thumbs, "copy", generation)
        /\ open # NoFp => Answered(thumbs, "cell", generation)
    BY <1>1 DEF PanelInv, Pictures, Fine
  <2>2. {"row", "cell", "copy"} = Places
    BY DEF Places
  <2>3. OnScreen \cap thumbs.src \subseteq thumbs.live
    BY <2>1, <2>2 DEF Sound, Shown, OnScreen
  <2>4. ASSUME NEW img \in OnScreen \ (thumbs.src \cup thumbs.gone)
        PROVE  \E load \in thumbs.loads : load.img = img /\ Wanted(load)
    <3>1. PICK p \in Places : img \in thumbs.dom[p] /\ Answered(thumbs, p, generation)
      BY <2>1, <2>2 DEF OnScreen
    <3>2. PICK load \in thumbs.loads : load.img = img /\ (p = "copy" \/ load.gen = generation)
      BY <2>4, <3>1 DEF Answered
    <3>3. img[1] = p
      BY <2>1, <3>1 DEF Sound, Numbered
    <3> QED
      BY <3>2, <3>3 DEF Wanted
  <2>5. ASSUME NEW img \in thumbs.live \ UNION {thumbs.pool[p] : p \in Places}
        PROVE  img[1] = "cell" /\ img \notin thumbs.dom["cell"]
    BY <2>1 DEF Sound, Revoked
  <2> QED
    BY <2>3, <2>4, <2>5 DEF ThumbsRight
<1> QED
  BY <1>1, Invariance, PTL

\* The files an entry is joined with are, if the walk is right, the right ones.
LEMMA TraceIsRight ==
    ASSUME WalksAreRight, NEW w \in Workflows, NEW i \in DOMAIN ItemsOf[w]
    PROVE  LET slot == ItemsOf[w][i]
           IN  IsTrail(IF slot \in DOMAIN SourcesOf[w] THEN SourcesOf[w][slot] ELSE <<>>,
                       TrailsOf[w][i])
<1> DEFINE prompt == Prompt[w]
           slot == ItemsOf[w][i]
           files == Walk(prompt, Wired(prompt)[slot])
<1>1. slot \in DOMAIN Wired(prompt) /\ slot[1] \in TracedKinds /\ IsTrail(files, TrailsOf[w][i])
  BY DEF WalksAreRight
<1>2. SourcesOf[w] = CollectRefSources(prompt)
  BY DEF SourcesOf
<1> HIDE DEF prompt, slot
<1>3. CASE files = <<>>
  <2>1. slot \notin DOMAIN SourcesOf[w]
    BY <1>2, <1>3 DEF CollectRefSources
  <2> QED
    BY <1>1, <1>3, <2>1 DEF slot
<1>4. CASE files # <<>>
  <2>1. slot \in DOMAIN SourcesOf[w] /\ SourcesOf[w][slot] = files
    BY <1>1, <1>2, <1>4 DEF CollectRefSources
  <2> QED
    BY <1>1, <2>1 DEF slot
<1> QED
  BY <1>3, <1>4

\* Whatever is run, deleted, rendered and opened in whatever order, an open panel
\* shows a cell for each reference of its entry and joins it to the files of the
\* right loaders, given that the walk finds the right files in each prompt.
THEOREM PanelShowsItsEntry == ASSUME WalksAreRight PROVE Spec => []JoinIsRight
<1>1. ASSUME PanelInv PROVE JoinIsRight
  <2> SUFFICES ASSUME open # NoFp
               PROVE  /\ [i \in DOMAIN cells |-> cells[i].type]
                            = [i \in DOMAIN open |-> open[i][1]]
                      /\ SameSlots(list[open]) => \A i \in DOMAIN cells :
                            IsTrail(cells[i].files, TrailsOf[list[open].traced][i])
    BY DEF JoinIsRight
  <2> DEFINE e == list[open]
  <2>1. /\ open \in Fps /\ e # NoEntry /\ cells = DetailRefCells(e.refs, e.sources)
        /\ e \in EntriesOf(open)
    BY <1>1 DEF PanelInv, Opened, Entries, Described
  <2>2. PICK w \in Workflows : EncoderSees[w] = open /\ e.refs = RefsOf[w]
    BY <2>1 DEF EntriesOf, Seen
  <2>3. /\ DOMAIN open = DOMAIN ItemsOf[w] /\ DOMAIN e.refs = DOMAIN ItemsOf[w]
        /\ \A i \in DOMAIN ItemsOf[w] : /\ open[i][1] = TypeOf(ItemsOf[w][i])
                                        /\ e.refs[i].type = TypeOf(ItemsOf[w][i])
    BY <2>2, DescribedAs
  <2>4. /\ DOMAIN cells = DOMAIN e.refs
        /\ \A i \in DOMAIN e.refs : /\ cells[i].type = e.refs[i].type
                                     /\ cells[i].files = RefSources(e.refs, i, e.sources)
    BY <2>1 DEF DetailRefCells
  <2> HIDE DEF e
  <2>5. [i \in DOMAIN cells |-> cells[i].type] = [i \in DOMAIN open |-> open[i][1]]
    BY <2>3, <2>4
  <2>6. ASSUME SameSlots(e), NEW i \in DOMAIN cells
        PROVE  IsTrail(cells[i].files, TrailsOf[e.traced][i])
    <3> DEFINE v == e.traced
    <3>1. v \in Workflows /\ e.sources = SourcesOf[v]
      BY <2>1, <2>6 DEF EntriesOf, SameSlots
    <3>2. i \in DOMAIN ItemsOf[v] /\ e.refs[i].key = ItemsOf[v][i] /\ i \in DOMAIN e.refs
      BY <2>4, <2>6 DEF SameSlots
    <3>3. cells[i].files = IF ItemsOf[v][i] \in DOMAIN SourcesOf[v]
                           THEN SourcesOf[v][ItemsOf[v][i]] ELSE <<>>
      BY <2>4, <3>1, <3>2 DEF RefSources
    <3> QED
      BY <3>1, <3>2, <3>3, TraceIsRight
  <2> QED
    BY <2>5, <2>6 DEF e
<1> QED
  BY <1>1, Invariance, PTL

\* The copy icon never forgets a timer.
THEOREM IconIsRight == Spec => []FeedbackEnds
<1>1. PanelInv => FeedbackEnds
  BY DEF PanelInv, Copying
<1> QED
  BY <1>1, Invariance, PTL
=============================================================================
