------------------------------ MODULE PanelUI ------------------------------
(***************************************************************************)
(* The Cache Manager in the browser (web/main.js) and the server it talks  *)
(* to.  The client is one event loop: a click or an answer runs its        *)
(* handler up to the next await, and every await lets any other click or   *)
(* answer in between.  There is one detail panel in the page; a handler    *)
(* that goes on after an await finds it showing whatever is open by then.  *)
(*                                                                         *)
(* A call is one activation of an async handler: an optional POST followed *)
(* by runCheck().  The server answers in any order, refuses (409, 404), or *)
(* obeys and fails to say so.                                              *)
(***************************************************************************)
EXTENDS Naturals, FiniteSets

CONSTANTS Fps, NoFp,
          Texts, NoText,  \* values of name / notes / tags, taken together
          Calls,          \* handler activations that may overlap
          MaxClicks,      \* bound: clicks that send a request
          MaxUpsets       \* bound: refused or unanswered requests, and sidecars
                          \* written by node runs meanwhile

ASSUME PanelAssumption ==
    /\ NoFp \notin Fps /\ NoText \in Texts
    /\ {MaxClicks, MaxUpsets} \subseteq Nat

VARIABLES
    server,       \* the entries as the server's files describe them
    list,         \* lastCheckResult, the last one shown
    listed,       \* whether lastCheckResult is set
    favoritesOnly,
    open,         \* openDetailFingerprint
    draft, box,   \* the detail panel's input fields and Favorite checkbox
    newest,       \* checkGeneration
    call,
    trouble,      \* history: the worst that became of a POST so far
    clicksLeft, upsetsLeft

page == <<list, listed, favoritesOnly, open, draft, box>>
budget == <<clicksLeft, upsetsLeft>>
vars == <<server, page, newest, call, trouble, budget>>

Gone(v) == [live |-> FALSE, fav |-> FALSE, text |-> NoText, pair |-> NoFp, up |-> FALSE, ver |-> v]
Entries == [live : BOOLEAN, fav : BOOLEAN, text : Texts, pair : Fps \cup {NoFp},
            up : BOOLEAN, ver : Nat]
NoDraft == [of |-> NoFp, text |-> NoText]
Idle == [kind |-> "idle", step |-> "none", fp |-> NoFp, fav |-> FALSE, draft |-> NoDraft,
         gen |-> 0, todo |-> {}, snap |-> [f \in Fps |-> Gone(0)]]

TypeOK ==
    /\ server \in [Fps -> Entries] /\ list \in [Fps -> Entries]
    /\ listed \in BOOLEAN /\ favoritesOnly \in BOOLEAN
    /\ open \in Fps \cup {NoFp}
    /\ draft \in [of : Fps \cup {NoFp}, text : Texts] /\ box \in BOOLEAN
    /\ newest \in Nat
    /\ call \in [Calls ->
          [kind : {"idle", "check", "star", "box", "save", "delete"},
           step : {"none", "post", "done", "failed"},
           fp : Fps \cup {NoFp}, fav : BOOLEAN,
           draft : [of : Fps \cup {NoFp}, text : Texts],
           gen : Nat, todo : SUBSET Fps, snap : [Fps -> Entries]]]
    /\ trouble \in {"none", "failed", "lost"}
    /\ clicksLeft \in Nat /\ upsetsLeft \in Nat

-----------------------------------------------------------------------------
(* What a list shows.                                                      *)

\* Mutant of Folded: the roles of a pair are not compared.
FoldedUpscale(l, f) ==
    \E g \in Fps : l[f].pair = g /\ l[g].pair = f /\ l[f].live /\ l[g].live /\ l[f].up

\* resolvePairing(): the upscale side of a mutual pair with opposite roles.
Folded(l, f) ==
    \E g \in Fps :
        /\ l[f].pair = g /\ l[g].pair = f
        /\ l[f].live /\ l[g].live
        /\ l[f].up /\ ~l[g].up

\* filterEntries(), then one row for every entry that is not folded away.
Filtered(l, favOnly) == {f \in Fps : l[f].live /\ (favOnly => l[f].fav)}
Rows(l, favOnly) == {f \in Filtered(l, favOnly) : ~Folded(l, f)}
Shown == IF listed THEN Rows(list, favoritesOnly) ELSE {}

\* Deletable through the page: rows, and the strip under a base row.
Strips == {f \in Fps : Folded(list, f) /\ list[f].pair \in Shown}

-----------------------------------------------------------------------------
(* The detail panel.                                                       *)

\* Mutant of Populate: a re-render resets the fields.
PopulateAfresh(l, f, keep) ==
    /\ draft' = [of |-> f, text |-> l[f].text]
    /\ box' = l[f].fav
\* Mutant of Populate: opening another entry keeps the fields.
PopulateKeeping(l, f, keep) ==
    /\ draft' = IF keep \/ draft # NoDraft THEN draft ELSE [of |-> f, text |-> l[f].text]
    /\ box' = l[f].fav
\* Mutant of Populate: the checkbox is taken for a draft, too.
PopulateKeepingBox(l, f, keep) ==
    /\ draft' = IF keep THEN draft ELSE [of |-> f, text |-> l[f].text]
    /\ box' = IF keep THEN box ELSE l[f].fav

\* populateDetail(): keep is preserveEditableFields; the checkbox follows the list.
Populate(l, f, keep) ==
    /\ draft' = IF keep THEN draft ELSE [of |-> f, text |-> l[f].text]
    /\ box' = l[f].fav

Close == open' = NoFp /\ draft' = NoDraft /\ box' = FALSE

\* Mutant of Reattach: an entry that passes the filter has a row.
ReattachFiltered(l, favOnly) ==
    IF open = NoFp THEN UNCHANGED <<open, draft, box>>
    ELSE IF open \in Filtered(l, favOnly) THEN Populate(l, open, TRUE) /\ UNCHANGED open
    ELSE Close

\* reattachOpenDetailAfterRender(): without a row the panel closes.
Reattach(l, favOnly) ==
    IF open = NoFp THEN UNCHANGED <<open, draft, box>>
    ELSE IF open \in Rows(l, favOnly) THEN Populate(l, open, TRUE) /\ UNCHANGED open
    ELSE Close

-----------------------------------------------------------------------------
\* The entries that are there, those of upscale runs, and what they point to.
Stored(live, ups, pair) ==
    [f \in Fps |-> IF f \in live
                   THEN [Gone(0) EXCEPT !.live = TRUE, !.up = f \in ups, !.pair = pair[f]]
                   ELSE Gone(0)]

\* The panel has been opened and its first Check is shown, over a directory with
\* any pairing that completed and half-completed dual runs can leave.
Init ==
    /\ \E live \in SUBSET Fps : \E ups \in SUBSET live : \E pair \in [live -> live \cup {NoFp}] :
         /\ \A f \in live : pair[f] # f /\ (f \in ups => pair[f] # NoFp)
         /\ server = Stored(live, ups, pair)
    /\ list = server /\ listed = TRUE /\ favoritesOnly = FALSE
    /\ open = NoFp /\ draft = NoDraft /\ box = FALSE
    /\ newest = 0
    /\ call = [c \in Calls |-> Idle]
    /\ trouble = "none"
    /\ clicksLeft = MaxClicks /\ upsetsLeft = MaxUpsets

-----------------------------------------------------------------------------
(* The user.                                                               *)

\* runCheck() up to its await: later answers of older checks are void.
RunCheck(c) ==
    /\ newest' = newest + 1
    /\ call' = [call EXCEPT ![c] = [Idle EXCEPT !.kind = "check", !.gen = newest + 1,
                                        !.todo = Fps]]

Click(c) ==
    /\ call[c] = Idle /\ clicksLeft > 0
    /\ clicksLeft' = clicksLeft - 1
    /\ UNCHANGED <<server, trouble, upsetsLeft>>

ClickCheck(c) == Click(c) /\ RunCheck(c) /\ UNCHANGED page

Post(c, kind, f, fav, fields) ==
    /\ Click(c)
    /\ call' = [call EXCEPT ![c] = [Idle EXCEPT !.kind = kind, !.step = "post", !.fp = f,
                                        !.fav = fav, !.draft = fields]]
    /\ UNCHANGED <<list, listed, favoritesOnly, open, draft, newest>>

\* The star of a row sends the opposite of what the row was drawn with.
ClickStar(c, f) ==
    f \in Shown /\ Post(c, "star", f, ~list[f].fav, NoDraft) /\ UNCHANGED box

\* The panel can be used as long as it hangs below its row.
PanelUsable == open # NoFp /\ listed

\* onDetailFavoriteChange(): the checkbox is saved as it is toggled.
ToggleBox(c) ==
    PanelUsable /\ Post(c, "box", open, ~box, NoDraft) /\ box' = ~box

\* saveDetail(): everything in the panel, the checkbox included.
ClickSave(c) ==
    PanelUsable /\ Post(c, "save", open, box, draft) /\ UNCHANGED box

\* deleteEntry(), confirmed.
ClickDelete(c, f) ==
    /\ f \in Shown \cup Strips
    /\ Post(c, "delete", f, FALSE, NoDraft)
    /\ UNCHANGED box

Local == UNCHANGED <<server, list, listed, newest, call, trouble, budget>>

OpenDetail(f) ==
    /\ f \in Shown
    /\ open' = f
    /\ Populate(list, f, FALSE)
    /\ UNCHANGED favoritesOnly /\ Local

CloseDetail == PanelUsable /\ Close /\ UNCHANGED favoritesOnly /\ Local

Type(text) ==
    /\ PanelUsable
    /\ draft' = [draft EXCEPT !.text = text]
    /\ UNCHANGED <<open, box, favoritesOnly>> /\ Local

\* A filter change renders the list, if there is one.
ToggleFilter ==
    /\ favoritesOnly' = ~favoritesOnly
    /\ IF listed THEN Reattach(list, ~favoritesOnly) ELSE UNCHANGED <<open, draft, box>>
    /\ Local

-----------------------------------------------------------------------------
(* The server.                                                             *)

\* Mutant of Obeyed: a deleted entry leaves its name behind.
ObeyedNamed(c) ==
    IF call[c].kind = "delete" THEN call[c].fp
    ELSE [server[call[c].fp] EXCEPT !.fav = call[c].fav]

\* What obeying call c makes of its entry.
Obeyed(c) ==
    LET e == server[call[c].fp] IN
    CASE call[c].kind = "delete" -> Gone(e.ver + 1)
      [] call[c].kind = "save" -> [e EXCEPT !.fav = call[c].fav, !.text = call[c].draft.text,
                                            !.ver = @ + 1]
      [] OTHER -> [e EXCEPT !.fav = call[c].fav, !.ver = @ + 1]

\* What was sent is of no further use once it is answered.
Answer(c, step) == call' = [call EXCEPT ![c].step = step, ![c].fav = FALSE, ![c].draft = NoDraft]
Upset == upsetsLeft > 0 /\ upsetsLeft' = upsetsLeft - 1 /\ UNCHANGED clicksLeft

Fails(c) ==
    /\ Answer(c, "failed")
    /\ trouble' = IF trouble = "lost" THEN trouble ELSE "failed"

\* An update of an entry that is gone is a 404; a Delete is idempotent.
Serve(c) ==
    /\ call[c].step = "post"
    /\ IF server[call[c].fp].live \/ call[c].kind = "delete"
       THEN /\ server' = [server EXCEPT ![call[c].fp] = Obeyed(c)]
            /\ Answer(c, "done")
            /\ UNCHANGED trouble
       ELSE Fails(c) /\ UNCHANGED server
    /\ UNCHANGED <<page, newest, budget>>

\* 409: the lock of the entry is held by a running generation.
Refuse(c) ==
    /\ call[c].step = "post" /\ Upset
    /\ Fails(c)
    /\ UNCHANGED <<server, page, newest>>

\* Obeyed, but the answer is an error or never arrives.
Lose(c) ==
    /\ call[c].step = "post" /\ server[call[c].fp].live /\ Upset
    /\ server' = [server EXCEPT ![call[c].fp] = Obeyed(c)]
    /\ Answer(c, "failed")
    /\ trouble' = "lost"
    /\ UNCHANGED <<page, newest>>

\* Mutant of Stale: answers are taken as they come.
StaleNever(c) == FALSE

\* A newer check is out.
Stale(c) == call[c].gen # newest

\* A Check reads one entry after the other (what a stale one reads is dropped with
\* its answer, and left out here).
Scan(c, f) ==
    /\ call[c].kind = "check" /\ f \in call[c].todo /\ ~Stale(c)
    /\ call' = [call EXCEPT ![c].todo = @ \ {f}, ![c].snap[f] = server[f]]
    /\ UNCHANGED <<server, page, newest, trouble, budget>>

\* Node runs: a new entry is described, or a pairing pointer is written.
NodeWrite(f) ==
    /\ Upset
    /\ LET e == server[f] IN
       \/ /\ ~e.live
          /\ server' = [server EXCEPT ![f] = [Gone(e.ver + 1) EXCEPT !.live = TRUE]]
       \/ /\ e.live
          /\ \E g \in Fps \ {f}, up \in BOOLEAN :
               server' = [server EXCEPT ![f] = [e EXCEPT !.pair = g, !.up = up, !.ver = @ + 1]]
    /\ UNCHANGED <<page, newest, call, trouble>>

-----------------------------------------------------------------------------
(* Answers.                                                                *)

\* Mutant of PostDone: the list is patched, not fetched again.
PostDonePatching(c) ==
    /\ call[c].step = "done"
    /\ IF call[c].kind = "delete" /\ open = call[c].fp THEN Close
       ELSE UNCHANGED <<open, draft, box>>
    /\ call' = [call EXCEPT ![c] = Idle]
    /\ UNCHANGED <<server, list, listed, favoritesOnly, newest, trouble, budget>>

\* The POST worked: a Delete closes the panel of its entry; all run a Check.
PostDone(c) ==
    /\ call[c].step = "done"
    /\ IF call[c].kind = "delete" /\ open = call[c].fp THEN Close
       ELSE UNCHANGED <<open, draft, box>>
    /\ RunCheck(c)
    /\ UNCHANGED <<server, list, listed, favoritesOnly, trouble, budget>>

\* It did not: nothing is rendered; a checkbox handler flips the checkbox, which
\* is that of whatever entry is open by now.
PostFailed(c) ==
    /\ call[c].step = "failed"
    /\ box' = IF call[c].kind = "box" /\ open # NoFp THEN ~box ELSE box
    /\ call' = [call EXCEPT ![c] = Idle]
    /\ UNCHANGED <<server, list, listed, favoritesOnly, open, draft, newest, trouble, budget>>

\* The list arrives: unless a newer check is out, it is shown.
CheckDone(c) ==
    /\ call[c].kind = "check" /\ (call[c].todo = {} \/ Stale(c))
    /\ IF Stale(c) THEN UNCHANGED <<list, listed, open, draft, box>>
       ELSE /\ list' = call[c].snap /\ listed' = TRUE
            /\ Reattach(call[c].snap, favoritesOnly)
    /\ call' = [call EXCEPT ![c] = Idle]
    /\ UNCHANGED <<server, favoritesOnly, newest, trouble, budget>>

\* A failed check empties the list, and takes the panel out of the page with it.
CheckFailed(c) ==
    /\ call[c].kind = "check" /\ Upset
    /\ listed' = IF Stale(c) THEN listed ELSE FALSE
    /\ call' = [call EXCEPT ![c] = Idle]
    /\ UNCHANGED <<server, list, favoritesOnly, open, draft, box, newest, trouble>>

-----------------------------------------------------------------------------
User ==
    \/ \E c \in Calls : ClickCheck(c) \/ ToggleBox(c) \/ ClickSave(c)
    \/ \E c \in Calls, f \in Fps : ClickStar(c, f) \/ ClickDelete(c, f)
    \/ \E f \in Fps : OpenDetail(f)
    \/ \E text \in Texts : Type(text)
    \/ CloseDetail \/ ToggleFilter
Network(c) ==
    \/ Serve(c) \/ Refuse(c) \/ Lose(c) \/ (\E f \in Fps : Scan(c, f))
Answered(c) == PostDone(c) \/ PostFailed(c) \/ CheckDone(c) \/ CheckFailed(c)

Next ==
    \/ User
    \/ \E c \in Calls : Network(c) \/ Answered(c)
    \/ \E f \in Fps : NodeWrite(f)

Spec == Init /\ [][Next]_vars

-----------------------------------------------------------------------------
(* Properties.                                                             *)

\* What the list shows of an entry is never replaced by something older,
\* whatever order the answers to overlapping checks arrive in
\* (checkGeneration, "only the newest overlapping /check may update UI state").
ListNeverStepsBack == [][\A f \in Fps : list'[f].ver >= list[f].ver]_vars

\* Once every handler has finished, a listed entry exists and has the favorite
\* flag and the texts the list shows, as long as no obeyed request was reported
\* as failed: each handler ends in a check that is newer than its own write.
Quiet == \A c \in Calls : call[c] = Idle
QuietListIsTrue ==
    (Quiet /\ listed /\ trouble # "lost") =>
        \A f \in Fps : list[f].live =>
            /\ server[f].live
            /\ server[f].fav = list[f].fav /\ server[f].text = list[f].text

\* A Save stores an entry's own texts: fields never travel to another entry.
SavesOwnTexts ==
    \A c \in Calls : (call[c].kind = "save" /\ call[c].step = "post") =>
        call[c].draft.of = call[c].fp

\* An answer never costs the user typed text: the panel stays as it is, unless
\* its entry was deleted here or has no row in the list that arrived.
AnswersKeepDraft ==
    [][\A c \in Calls :
          (Answered(c) /\ open # NoFp) =>
             \/ open' = open /\ draft' = draft
             \/ call[c].kind = "delete" /\ call[c].fp = open
             \/ listed' /\ open \notin Rows(list', favoritesOnly')]_vars

\* The open panel hangs below a row: an entry that a dual run has just folded
\* into its base closes its panel.
OpenPanelHasRow == PanelUsable => open \in Shown

\* Without a filter every listed entry is within reach, as a row or as the strip
\* of its partner's row: folding never hides both sides of a pair.
NothingFoldedAway ==
    (listed /\ ~favoritesOnly) => \A f \in Fps : list[f].live => f \in Shown \cup Strips

\* Without a failing request the checkbox of the open panel ends up as what the
\* server stores, whether star, checkbox or Save changed it last.
QuietBoxIsTrue ==
    (Quiet /\ PanelUsable /\ trouble = "none") => box = server[open].fav

\* Whatever order clicks, answers and node runs came in, the page comes to rest
\* on what the server stores, in the list and in the checkbox.
QuietPageIsTrue == QuietListIsTrue /\ QuietBoxIsTrue

\* No pairing, filter or late list puts an entry, or the panel of one, out of the
\* user's reach.
EntriesInReach == OpenPanelHasRow /\ NothingFoldedAway

\* main.js: "On a failed save the checkbox is reverted to match reality".
RevertMatchesReality ==
    (Quiet /\ PanelUsable /\ trouble # "lost") => box = server[open].fav
=============================================================================
