--------------------------- MODULE PanelUI_proofs ---------------------------
(***************************************************************************)
(* Theorems about PanelUI, for any entries, any number of overlapping      *)
(* handlers and any bounds.                                                *)
(*                                                                         *)
(* The page comes to rest on the truth because at every moment the list is *)
(* true, or a check that will be taken is reading the truth, or a handler  *)
(* is about to start one (ListComing); and the checkbox is true, or will   *)
(* be drawn anew by that check (BoxComing).                                *)
(***************************************************************************)
EXTENDS PanelUI, TLAPS

Drafts == [of : Fps \cup {NoFp}, text : Texts]
CallRecords ==
    [kind : {"idle", "check", "star", "box", "save", "delete"},
     step : {"none", "post", "done", "failed"},
     fp : Fps \cup {NoFp}, fav : BOOLEAN, draft : Drafts,
     gen : Nat, todo : SUBSET Fps, snap : [Fps -> Entries]]
Posting == {"star", "box", "save", "delete"}

\* The check whose answer will be taken.
Fresh(c) == call[c].kind = "check" /\ call[c].gen = newest

\* Only the newest check is fresh, and only a POST has steps to take.
Calling ==
    /\ \A c \in Calls : call[c].gen <= newest
    /\ \A c, d \in Calls : Fresh(c) /\ Fresh(d) => c = d
    /\ \A c \in Calls : call[c].kind = "check" => call[c].step = "none"
    /\ \A c \in Calls : call[c].step = "post" => call[c].kind \in Posting /\ call[c].fp \in Fps
    /\ \A c \in Calls : call[c].step = "failed" => trouble # "none"

OwnTexts == draft.of = open /\ SavesOwnTexts

\* What is read is no older than what is shown, and no newer than what is stored.
Versions ==
    /\ \A f \in Fps : list[f].ver <= server[f].ver
    /\ \A c \in Calls : Fresh(c) =>
          \A f \in Fps \ call[c].todo : /\ list[f].ver <= call[c].snap[f].ver
                                        /\ call[c].snap[f].ver <= server[f].ver

\* An entry as it was read, and as it is stored.
AgreeOn(e, s) == e.live => s.live /\ s.fav = e.fav /\ s.text = e.text

Pending == \E c \in Calls : call[c].step = "done"
Checking == \E c \in Calls : Fresh(c)
BoxPosted == \E c \in Calls : call[c].kind = "box" /\ call[c].step = "post"

ScansAgree ==
    \A c \in Calls : Fresh(c) =>
        \A f \in Fps \ call[c].todo : AgreeOn(call[c].snap[f], server[f])
ListAgrees == listed /\ ~Checking => \A f \in Fps : AgreeOn(list[f], server[f])
ListComing == trouble # "lost" /\ ~Pending => ScansAgree /\ ListAgrees

BoxComing ==
    trouble = "none" /\ PanelUsable =>
        Pending \/ Checking \/ BoxPosted \/ box = server[open].fav

PageInv ==
    TypeOK /\ Calling /\ OwnTexts /\ OpenPanelHasRow /\ Versions /\ ListComing /\ BoxComing

-----------------------------------------------------------------------------
(* Types.                                                                  *)

\* A call at rest is a call, an entry that is gone an entry.
LEMMA IdleType ==
    /\ Idle \in CallRecords /\ NoDraft \in Drafts
    /\ \A v \in Nat : Gone(v) \in Entries /\ Gone(v).ver = v
    /\ Idle.kind = "idle" /\ Idle.step = "none" /\ Idle.gen = 0
<1>1. \A v \in Nat : Gone(v) \in Entries /\ Gone(v).ver = v
  BY PanelAssumption DEF Gone, Entries
<1>2. NoDraft \in Drafts
  BY PanelAssumption DEF NoDraft, Drafts
<1>3. [f \in Fps |-> Gone(0)] \in [Fps -> Entries]
  BY <1>1
<1>4. Idle \in CallRecords
  BY <1>2, <1>3 DEF Idle, CallRecords
<1> QED
  BY <1>1, <1>2, <1>4 DEF Idle

\* What a handler does to its own call leaves the others alone.
LEMMA OneCall ==
    ASSUME TypeOK, NEW c \in Calls, NEW r \in CallRecords, call' = [call EXCEPT ![c] = r]
    PROVE  /\ call' \in [Calls -> CallRecords] /\ call'[c] = r
           /\ \A d \in Calls : d # c => call'[d] = call[d]
  BY DEF TypeOK, CallRecords, Drafts

\* The variables in their types, by name.
LEMMA Typed ==
    TypeOK <=>
        /\ server \in [Fps -> Entries] /\ list \in [Fps -> Entries]
        /\ listed \in BOOLEAN /\ favoritesOnly \in BOOLEAN
        /\ open \in Fps \cup {NoFp} /\ draft \in Drafts /\ box \in BOOLEAN
        /\ newest \in Nat /\ call \in [Calls -> CallRecords]
        /\ trouble \in {"none", "failed", "lost"}
        /\ clicksLeft \in Nat /\ upsetsLeft \in Nat
  BY DEF TypeOK, CallRecords, Drafts

\* A fresh page shows what is there.
LEMMA InitInv == Init => PageInv
<1> SUFFICES ASSUME Init PROVE PageInv
  OBVIOUS
<1>1. PICK live \in SUBSET Fps :
         \E ups \in SUBSET live : \E pair \in [live -> live \cup {NoFp}] :
             server = Stored(live, ups, pair)
  BY DEF Init
<1>2. PICK ups \in SUBSET live, pair \in [live -> live \cup {NoFp}] :
         server = Stored(live, ups, pair)
  BY <1>1
<1>3. ASSUME NEW f \in live
      PROVE  [Gone(0) EXCEPT !.live = TRUE, !.up = f \in ups, !.pair = pair[f]] \in Entries
  <2> DEFINE up == f \in ups
  <2>1. up \in BOOLEAN /\ pair[f] \in Fps \cup {NoFp} /\ NoText \in Texts
    BY PanelAssumption
  <2> HIDE DEF up
  <2>2. [Gone(0) EXCEPT !.live = TRUE, !.up = up, !.pair = pair[f]] \in Entries
    BY <2>1 DEF Gone, Entries
  <2> QED
    BY <2>2 DEF up
<1>4. server \in [Fps -> Entries]
  <2>1. \A f \in Fps : Gone(0) \in Entries
    BY IdleType
  <2> QED
    BY <1>2, <1>3, <2>1 DEF Stored
<1>5. /\ list = server /\ listed = TRUE /\ favoritesOnly = FALSE /\ open = NoFp
      /\ draft = NoDraft /\ box = FALSE /\ newest = 0 /\ call = [c \in Calls |-> Idle]
      /\ trouble = "none" /\ clicksLeft = MaxClicks /\ upsetsLeft = MaxUpsets
  BY DEF Init
<1>6. TypeOK
  BY <1>4, <1>5, IdleType, PanelAssumption, Typed
<1>7. \A c \in Calls : call[c].kind = "idle" /\ call[c].step = "none" /\ call[c].gen = 0
  BY <1>5, IdleType
<1>8. Calling /\ \A c \in Calls : ~Fresh(c)
  BY <1>5, <1>7 DEF Calling, Fresh
<1>9. OwnTexts
  BY <1>5, <1>7 DEF OwnTexts, SavesOwnTexts, NoDraft
<1>10. OpenPanelHasRow /\ BoxComing
  BY <1>5 DEF OpenPanelHasRow, PanelUsable, BoxComing
<1>11. Versions
  BY <1>4, <1>5, <1>8 DEF Versions, Entries
<1>12. ListComing
  BY <1>5, <1>8 DEF ListComing, ScansAgree, ListAgrees, AgreeOn
<1> QED
  BY <1>6, <1>8, <1>9, <1>10, <1>11, <1>12 DEF PageInv

-----------------------------------------------------------------------------
(* What the user does.                                                     *)

\* Only clicks and upsets are counted down.
LEMMA BudgetType ==
    ASSUME PageInv
    PROVE  /\ \A c \in Calls : Click(c) => clicksLeft' \in Nat /\ upsetsLeft' = upsetsLeft
           /\ Upset => upsetsLeft' \in Nat /\ clicksLeft' = clicksLeft
  BY Typed DEF PageInv, Click, Upset

\* A click that sends something changes nothing but the checkbox it may be on.
LEMMA PostKeeps ==
    ASSUME PageInv, NEW c \in Calls, NEW kind \in Posting, NEW f \in Fps, NEW fav \in BOOLEAN,
           NEW fields \in Drafts, kind = "save" => fields.of = f,
           Post(c, kind, f, fav, fields),
           box' \in BOOLEAN, kind # "box" => box' = box
    PROVE  PageInv'
<1> DEFINE r == [Idle EXCEPT !.kind = kind, !.step = "post", !.fp = f, !.fav = fav,
                             !.draft = fields]
<1>1. /\ Click(c) /\ call[c] = Idle /\ call' = [call EXCEPT ![c] = r]
      /\ UNCHANGED <<server, list, listed, favoritesOnly, open, draft, newest, trouble>>
  BY DEF Post, Click
<1>2. /\ r \in CallRecords /\ r.kind = kind /\ r.step = "post" /\ r.fp = f /\ r.gen = 0
      /\ r.draft = fields
  BY IdleType DEF CallRecords, Posting
<1> HIDE DEF r
<1>3. TypeOK /\ newest \in Nat
  BY Typed DEF PageInv
<1>4. /\ call' \in [Calls -> CallRecords] /\ call'[c] = r
      /\ \A d \in Calls : d # c => call'[d] = call[d]
  BY <1>1, <1>2, <1>3, OneCall
<1>5. TypeOK'
  BY <1>1, <1>3, <1>4, BudgetType DEF PageInv, TypeOK, CallRecords, Drafts
<1>6. /\ ~Fresh(c) /\ call[c].step = "none" /\ r.kind # "check"
      /\ \A d \in Calls : Fresh(d)' <=> Fresh(d)
      /\ \A d \in Calls : Fresh(d) => d # c
  BY <1>1, <1>2, <1>4, IdleType DEF Fresh, Posting
<1>7. Pending' <=> Pending
  BY <1>2, <1>4, <1>6 DEF Pending
<1>8. Checking' <=> Checking
  BY <1>6 DEF Checking
<1>9. Calling'
  BY <1>1, <1>2, <1>3, <1>4, <1>6 DEF PageInv, Calling, Posting
<1>10. OwnTexts'
  BY <1>1, <1>2, <1>4 DEF PageInv, OwnTexts, SavesOwnTexts
<1>11. OpenPanelHasRow'
  BY <1>1 DEF PageInv, OpenPanelHasRow, PanelUsable, Shown
<1>12. Versions'
  BY <1>1, <1>4, <1>6 DEF PageInv, Versions
<1>13. ListComing'
  <2>1. ScansAgree => ScansAgree'
    BY <1>1, <1>4, <1>6 DEF ScansAgree
  <2>2. ListAgrees => ListAgrees'
    BY <1>1, <1>8 DEF ListAgrees
  <2> QED
    BY <1>1, <1>7, <2>1, <2>2 DEF PageInv, ListComing
<1>14. BoxComing'
  <2>1. CASE kind = "box"
    BY <1>2, <1>4, <2>1 DEF BoxComing, BoxPosted
  <2>2. CASE kind # "box"
    <3>1. BoxPosted => BoxPosted'
      BY <1>4, <1>6 DEF BoxPosted
    <3> QED
      BY <1>1, <1>7, <1>8, <2>2, <3>1 DEF PageInv, BoxComing, PanelUsable
  <2> QED
    BY <2>1, <2>2
<1> QED
  BY <1>5, <1>9, <1>10, <1>11, <1>12, <1>13, <1>14 DEF PageInv

\* A new check is the only fresh one, and has everything still to read.
LEMMA RunCheckKeeps ==
    ASSUME PageInv, NEW c \in Calls, RunCheck(c),
           UNCHANGED <<server, list, listed, favoritesOnly, trouble>>,
           UNCHANGED <<open, draft, box>> \/ Close,
           clicksLeft' \in Nat, upsetsLeft' \in Nat
    PROVE  PageInv'
<1> DEFINE r == [Idle EXCEPT !.kind = "check", !.gen = newest + 1, !.todo = Fps]
<1>1. /\ call' = [call EXCEPT ![c] = r] /\ newest' = newest + 1
      /\ UNCHANGED <<server, list, listed, favoritesOnly, trouble>>
  BY DEF RunCheck
<1>2. TypeOK /\ newest \in Nat /\ newest + 1 \in Nat
  BY Typed DEF PageInv
<1>3. /\ r \in CallRecords /\ r.kind = "check" /\ r.step = "none" /\ r.gen = newest + 1
      /\ r.todo = Fps
  BY <1>2, IdleType DEF CallRecords
<1> HIDE DEF r
<1>4. /\ call' \in [Calls -> CallRecords] /\ call'[c] = r
      /\ \A d \in Calls : d # c => call'[d] = call[d]
  BY <1>1, <1>2, <1>3, OneCall
<1>5. (open' = open /\ draft' = draft /\ box' = box) \/ Close
  OBVIOUS
<1>6. /\ open' \in Fps \cup {NoFp} /\ draft' \in Drafts /\ box' \in BOOLEAN
      /\ draft'.of = open'
  <2>1. CASE Close
    BY <2>1, IdleType DEF Close, NoDraft
  <2>2. CASE open' = open /\ draft' = draft /\ box' = box
    BY <2>2, Typed DEF PageInv, OwnTexts
  <2> QED
    BY <1>5, <2>1, <2>2
<1>7. TypeOK'
  BY <1>1, <1>2, <1>4, <1>6 DEF TypeOK, CallRecords, Drafts
<1>8. \A d \in Calls : call[d].gen \in Nat /\ call[d].gen <= newest
  BY Typed DEF PageInv, Calling, CallRecords
<1>9. \A d \in Calls : call[d].gen # newest + 1 /\ call[d].gen <= newest + 1
  BY <1>2, <1>8
<1>10. \A d \in Calls : Fresh(d)' <=> d = c
  BY <1>1, <1>3, <1>4, <1>9 DEF Fresh
<1>11. Calling'
  BY <1>1, <1>2, <1>3, <1>4, <1>9, <1>10 DEF PageInv, Calling, Posting
<1>12. OwnTexts'
  BY <1>3, <1>4, <1>6 DEF PageInv, OwnTexts, SavesOwnTexts
<1>13. OpenPanelHasRow'
  BY <1>1, <1>5 DEF PageInv, OpenPanelHasRow, PanelUsable, Shown, Close
<1>14. Versions'
  BY <1>1, <1>3, <1>4, <1>10 DEF PageInv, Versions
<1>15. Checking'
  BY <1>10 DEF Checking
<1>16. ScansAgree'
  BY <1>3, <1>4, <1>10 DEF ScansAgree
<1>17. ListComing' /\ BoxComing'
  BY <1>15, <1>16 DEF ListComing, ListAgrees, BoxComing
<1> QED
  BY <1>7, <1>11, <1>12, <1>13, <1>14, <1>17 DEF PageInv

\* Unless something is under way, the checkbox of a row is what is stored.
LEMMA RowIsTrue ==
    ASSUME PageInv, trouble = "none", listed, NEW f \in Fps, list[f].live
    PROVE  Pending \/ Checking \/ (server[f].live /\ list[f].fav = server[f].fav)
  BY DEF PageInv, ListComing, ListAgrees, AgreeOn

\* What happens in the page alone is about the open panel.
LEMMA LocalKeeps ==
    ASSUME PageInv, Local, favoritesOnly' \in BOOLEAN,
           open' \in Fps \cup {NoFp}, draft' \in Drafts, box' \in BOOLEAN,
           draft'.of = open', OpenPanelHasRow',
           (trouble = "none" /\ PanelUsable') =>
               Pending \/ Checking \/ BoxPosted \/ box' = server[open'].fav
    PROVE  PageInv'
<1>1. UNCHANGED <<server, list, listed, newest, call, trouble, clicksLeft, upsetsLeft>>
  BY DEF Local, budget
<1>2. TypeOK'
  BY <1>1 DEF PageInv, TypeOK, Drafts
<1>3. Calling' /\ Versions'
  BY <1>1 DEF PageInv, Calling, Versions, Fresh
<1>4. OwnTexts'
  BY <1>1 DEF PageInv, OwnTexts, SavesOwnTexts
<1>5. (Pending' <=> Pending) /\ (Checking' <=> Checking) /\ (BoxPosted' <=> BoxPosted)
  BY <1>1 DEF Pending, Checking, BoxPosted, Fresh
<1>6. (ScansAgree => ScansAgree') /\ (ListAgrees => ListAgrees')
  BY <1>1, <1>5 DEF ScansAgree, ListAgrees, Fresh
<1>7. ListComing'
  BY <1>1, <1>5, <1>6 DEF PageInv, ListComing
<1>8. BoxComing'
  BY <1>1, <1>5 DEF BoxComing
<1> QED
  BY <1>2, <1>3, <1>4, <1>7, <1>8 DEF PageInv

\* The open panel is below the row it is drawn below.
LEMMA OpenKeeps == ASSUME PageInv, NEW f \in Fps, OpenDetail(f) PROVE PageInv'
<1>1. /\ f \in Shown /\ open' = f /\ draft' = [of |-> f, text |-> list[f].text]
      /\ box' = list[f].fav /\ favoritesOnly' = favoritesOnly /\ Local
  BY DEF OpenDetail, Populate
<1>2. listed /\ f \in Rows(list, favoritesOnly) /\ list[f].live
  BY <1>1 DEF Shown, Rows, Filtered
<1>3. list[f] \in Entries /\ f # NoFp /\ favoritesOnly \in BOOLEAN
  BY Typed, PanelAssumption DEF PageInv
<1>4. draft' \in Drafts /\ draft'.of = f /\ box' \in BOOLEAN
  BY <1>1, <1>3 DEF Drafts, Entries
<1>5. OpenPanelHasRow'
  BY <1>1 DEF OpenPanelHasRow, Shown, Local
<1>6. trouble = "none" => Pending \/ Checking \/ box' = server[open'].fav
  BY <1>1, <1>2, RowIsTrue
<1> QED
  BY <1>1, <1>3, <1>4, <1>5, <1>6, LocalKeeps

\* A closed panel claims nothing.
LEMMA CloseKeeps == ASSUME PageInv, CloseDetail PROVE PageInv'
<1>1. open' = NoFp /\ draft' = NoDraft /\ box' = FALSE /\ favoritesOnly' = favoritesOnly /\ Local
  BY DEF CloseDetail, Close
<1>2. draft' \in Drafts /\ draft'.of = NoFp /\ favoritesOnly \in BOOLEAN
  BY <1>1, IdleType, Typed DEF NoDraft, PageInv
<1>3. OpenPanelHasRow' /\ ~PanelUsable'
  BY <1>1 DEF OpenPanelHasRow, PanelUsable
<1> QED
  BY <1>1, <1>2, <1>3, LocalKeeps

\* Typing changes the text of the draft, not whose it is.
LEMMA TypeKeeps == ASSUME PageInv, NEW text \in Texts, Type(text) PROVE PageInv'
<1>1. /\ draft' = [draft EXCEPT !.text = text] /\ open' = open /\ box' = box
      /\ favoritesOnly' = favoritesOnly /\ Local
  BY DEF Type
<1>2. /\ draft' \in Drafts /\ draft'.of = open /\ favoritesOnly \in BOOLEAN /\ box \in BOOLEAN
      /\ open \in Fps \cup {NoFp}
  BY <1>1, Typed DEF PageInv, OwnTexts, Drafts
<1>3. OpenPanelHasRow' /\ (PanelUsable' <=> PanelUsable)
  BY <1>1 DEF PageInv, OpenPanelHasRow, PanelUsable, Shown, Local
<1>4. trouble = "none" /\ PanelUsable' =>
          Pending \/ Checking \/ BoxPosted \/ box' = server[open'].fav
  BY <1>1, <1>3 DEF PageInv, BoxComing
<1> QED
  BY <1>1, <1>2, <1>3, <1>4, LocalKeeps

\* A panel that stays open has a row, its own draft and the checkbox of the list.
LEMMA ReattachKeeps ==
    ASSUME PageInv, NEW l \in [Fps -> Entries], NEW favOnly, Reattach(l, favOnly)
    PROVE  /\ (open' # NoFp => /\ open' = open /\ open' \in Rows(l, favOnly)
                               /\ box' = l[open].fav)
           /\ open' \in Fps \cup {NoFp} /\ draft' \in Drafts /\ box' \in BOOLEAN
           /\ draft'.of = open'
<1>1. /\ open \in Fps \cup {NoFp} /\ draft \in Drafts /\ box \in BOOLEAN /\ draft.of = open
      /\ \A f \in Fps : l[f].fav \in BOOLEAN
  BY Typed DEF PageInv, OwnTexts, Entries
<1>2. CASE open = NoFp
  BY <1>1, <1>2 DEF Reattach
<1>3. CASE open # NoFp /\ open \in Rows(l, favOnly)
  BY <1>1, <1>3 DEF Reattach, Populate
<1>4. CASE open # NoFp /\ open \notin Rows(l, favOnly)
  <2>1. open' = NoFp /\ draft' = NoDraft /\ box' = FALSE
    BY <1>4 DEF Reattach, Close
  <2> QED
    BY <2>1, IdleType DEF NoDraft
<1> QED
  BY <1>2, <1>3, <1>4

\* The filter closes the panel of an entry it takes the row from.
LEMMA FilterKeeps == ASSUME PageInv, ToggleFilter PROVE PageInv'
<1>1. favoritesOnly' = ~favoritesOnly /\ favoritesOnly' \in BOOLEAN /\ Local
  BY Typed DEF ToggleFilter, PageInv
<1>2. list' = list /\ listed' = listed /\ list \in [Fps -> Entries]
  BY <1>1, Typed DEF Local, PageInv
<1>3. CASE ~listed
  <2>1. open' = open /\ draft' = draft /\ box' = box
    BY <1>3 DEF ToggleFilter
  <2>2. /\ open \in Fps \cup {NoFp} /\ draft \in Drafts /\ box \in BOOLEAN /\ draft.of = open
    BY Typed DEF PageInv, OwnTexts
  <2>3. OpenPanelHasRow' /\ ~PanelUsable'
    BY <1>2, <1>3 DEF OpenPanelHasRow, PanelUsable
  <2> QED
    BY <1>1, <2>1, <2>2, <2>3, LocalKeeps
<1>4. CASE listed
  <2>1. Reattach(list, ~favoritesOnly)
    BY <1>4 DEF ToggleFilter
  <2>2. /\ (open' # NoFp => /\ open' = open /\ open' \in Rows(list, ~favoritesOnly)
                            /\ box' = list[open].fav)
        /\ open' \in Fps \cup {NoFp} /\ draft' \in Drafts /\ box' \in BOOLEAN
        /\ draft'.of = open'
    BY <1>2, <2>1, ReattachKeeps
  <2>3. OpenPanelHasRow'
    BY <1>1, <1>2, <1>4, <2>2 DEF OpenPanelHasRow, PanelUsable, Shown
  <2>4. ASSUME trouble = "none", PanelUsable'
        PROVE  Pending \/ Checking \/ box' = server[open'].fav
    <3>1. open' \in Fps /\ list[open'].live /\ box' = list[open'].fav
      BY <2>2, <2>4 DEF PanelUsable, Rows, Filtered
    <3> QED
      BY <1>4, <2>4, <3>1, RowIsTrue
  <2> QED
    BY <1>1, <2>2, <2>3, <2>4, LocalKeeps
<1> QED
  BY <1>3, <1>4

\* Every click keeps the invariant.
LEMMA UserKeeps == ASSUME PageInv, User PROVE PageInv'
<1>1. /\ listed \in BOOLEAN /\ open \in Fps \cup {NoFp} /\ draft \in Drafts /\ box \in BOOLEAN
      /\ draft.of = open /\ NoDraft \in Drafts /\ list \in [Fps -> Entries]
  BY Typed, IdleType DEF PageInv, OwnTexts
<1>2. ASSUME NEW c \in Calls, ClickCheck(c) PROVE PageInv'
  <2>1. Click(c) /\ RunCheck(c) /\ UNCHANGED page
    BY <1>2 DEF ClickCheck
  <2>2. UNCHANGED <<server, list, listed, favoritesOnly, trouble>> /\ UNCHANGED <<open, draft, box>>
    BY <2>1 DEF Click, page
  <2>3. clicksLeft' \in Nat /\ upsetsLeft' \in Nat
    BY <2>1, BudgetType, Typed DEF PageInv
  <2> QED
    BY <2>1, <2>2, <2>3, RunCheckKeeps
<1>3. ASSUME NEW c \in Calls, ToggleBox(c) PROVE PageInv'
  <2>1. open \in Fps /\ Post(c, "box", open, ~box, NoDraft) /\ box' = ~box
    BY <1>1, <1>3 DEF ToggleBox, PanelUsable
  <2> QED
    BY <1>1, <2>1, PostKeeps DEF Posting
<1>4. ASSUME NEW c \in Calls, ClickSave(c) PROVE PageInv'
  <2>1. open \in Fps /\ Post(c, "save", open, box, draft) /\ box' = box
    BY <1>1, <1>4 DEF ClickSave, PanelUsable
  <2> QED
    BY <1>1, <2>1, PostKeeps DEF Posting
<1>5. ASSUME NEW c \in Calls, NEW f \in Fps, ClickStar(c, f) PROVE PageInv'
  <2>1. Post(c, "star", f, ~list[f].fav, NoDraft) /\ box' = box /\ (~list[f].fav) \in BOOLEAN
    BY <1>5 DEF ClickStar
  <2> QED
    BY <1>1, <2>1, PostKeeps DEF Posting
<1>6. ASSUME NEW c \in Calls, NEW f \in Fps, ClickDelete(c, f) PROVE PageInv'
  <2>1. Post(c, "delete", f, FALSE, NoDraft) /\ box' = box
    BY <1>6 DEF ClickDelete
  <2> QED
    BY <1>1, <2>1, PostKeeps DEF Posting
<1> QED
  BY <1>2, <1>3, <1>4, <1>5, <1>6, OpenKeeps, CloseKeeps, TypeKeeps, FilterKeeps DEF User

-----------------------------------------------------------------------------
(* What the server does.                                                   *)

\* What is stored anew is newer than all that was read.
LEMMA NewerStored ==
    ASSUME PageInv, NEW f \in Fps, NEW e \in Entries, e.ver = server[f].ver + 1,
           server' = [server EXCEPT ![f] = e], UNCHANGED <<list, newest>>,
           \A c \in Calls : /\ call'[c].gen = call[c].gen /\ call'[c].kind = call[c].kind
                            /\ call'[c].todo = call[c].todo /\ call'[c].snap = call[c].snap
    PROVE  server' \in [Fps -> Entries] /\ Versions'
<1> DEFINE s == [server EXCEPT ![f] = e]
<1>1. server \in [Fps -> Entries] /\ list \in [Fps -> Entries]
  BY Typed DEF PageInv
<1>2. s \in [Fps -> Entries] /\ s[f] = e /\ \A g \in Fps : g # f => s[g] = server[g]
  BY <1>1
<1>3. \A g \in Fps : server[g].ver \in Nat /\ list[g].ver \in Nat
  BY <1>1 DEF Entries
<1> HIDE DEF s
<1>4. ASSUME NEW g \in Fps, NEW v \in Nat, v <= server[g].ver PROVE v <= s[g].ver
  <2>1. CASE g = f
    BY <1>2, <1>3, <1>4, <2>1
  <2>2. CASE g # f
    BY <1>2, <1>4, <2>2
  <2> QED
    BY <2>1, <2>2
<1>5. \A g \in Fps : list[g].ver <= s[g].ver
  BY <1>3, <1>4 DEF PageInv, Versions
<1>6. \A c \in Calls : Fresh(c)' <=> Fresh(c)
  BY DEF Fresh
<1>7. ASSUME NEW c \in Calls, Fresh(c), NEW g \in Fps \ call[c].todo
      PROVE  list[g].ver <= call[c].snap[g].ver /\ call[c].snap[g].ver <= s[g].ver
  <2>1. /\ list[g].ver <= call[c].snap[g].ver /\ call[c].snap[g].ver <= server[g].ver
    BY <1>7 DEF PageInv, Versions
  <2>2. call[c].snap[g].ver \in Nat
    BY Typed DEF PageInv, CallRecords, Entries
  <2> QED
    BY <1>4, <2>1, <2>2
<1>8. s = server'
  BY DEF s
<1> QED
  BY <1>2, <1>5, <1>6, <1>7, <1>8 DEF Versions

\* What a Save, a star or a checkbox, and a pairing make of an entry.
Saved(e, fav, text) == [e EXCEPT !.fav = fav, !.text = text, !.ver = @ + 1]
Starred(e, fav) == [e EXCEPT !.fav = fav, !.ver = @ + 1]
Paired(e, pair, up) == [e EXCEPT !.pair = pair, !.up = up, !.ver = @ + 1]

\* What is written over an entry is an entry of the next version.
LEMMA EditedType ==
    ASSUME NEW e \in Entries, NEW fav \in BOOLEAN, NEW text \in Texts,
           NEW pair \in Fps \cup {NoFp}, NEW up \in BOOLEAN
    PROVE  /\ Saved(e, fav, text) \in Entries /\ Saved(e, fav, text).ver = e.ver + 1
           /\ Starred(e, fav) \in Entries /\ Starred(e, fav).ver = e.ver + 1
           /\ Paired(e, pair, up) \in Entries /\ Paired(e, pair, up).ver = e.ver + 1
           /\ AgreeOn(e, Paired(e, pair, up))
<1>1. e.ver + 1 \in Nat
  BY DEF Entries
<1>2. Saved(e, fav, text) \in Entries /\ Saved(e, fav, text).ver = e.ver + 1
  BY <1>1 DEF Entries, Saved
<1>3. Starred(e, fav) \in Entries /\ Starred(e, fav).ver = e.ver + 1
  BY <1>1 DEF Entries, Starred
<1>4. Paired(e, pair, up) \in Entries /\ Paired(e, pair, up).ver = e.ver + 1
  BY <1>1 DEF Entries, Paired
<1>5. AgreeOn(e, Paired(e, pair, up))
  BY DEF AgreeOn, Entries, Paired
<1> QED
  BY <1>2, <1>3, <1>4, <1>5

\* What obeying a request makes of an entry is a newer entry.
LEMMA ObeyedType ==
    ASSUME PageInv, NEW c \in Calls, call[c].step = "post"
    PROVE  /\ call[c].fp \in Fps /\ Obeyed(c) \in Entries
           /\ Obeyed(c).ver = server[call[c].fp].ver + 1
<1> DEFINE e == server[call[c].fp]
<1>1. call[c].fp \in Fps /\ call[c].kind \in Posting
  BY DEF PageInv, Calling
<1>2. e \in Entries /\ call[c].fav \in BOOLEAN /\ call[c].draft.text \in Texts
  BY <1>1, Typed DEF PageInv, CallRecords, Drafts
<1>3. e.ver \in Nat
  BY <1>2 DEF Entries
<1>4. Gone(e.ver + 1) \in Entries /\ Gone(e.ver + 1).ver = e.ver + 1
  BY <1>3, IdleType
<1> DEFINE fav == call[c].fav
           text == call[c].draft.text
<1> HIDE DEF e, fav, text
<1>5. CASE call[c].kind = "delete"
  BY <1>1, <1>4, <1>5 DEF Obeyed, e
<1>6. CASE call[c].kind = "save"
  <2>1. Obeyed(c) = Saved(e, fav, text)
    BY <1>6 DEF Obeyed, Saved, e, fav, text
  <2>2. fav \in BOOLEAN /\ text \in Texts /\ NoFp \in Fps \cup {NoFp} /\ FALSE \in BOOLEAN
    BY <1>2 DEF fav, text
  <2>3. Saved(e, fav, text) \in Entries /\ Saved(e, fav, text).ver = e.ver + 1
    BY <1>2, <2>2, EditedType
  <2> QED
    BY <1>1, <2>1, <2>3 DEF e
<1>7. CASE call[c].kind \notin {"delete", "save"}
  <2>1. Obeyed(c) = Starred(e, fav)
    BY <1>7 DEF Obeyed, Starred, e, fav
  <2>2. fav \in BOOLEAN /\ text \in Texts /\ NoFp \in Fps \cup {NoFp} /\ FALSE \in BOOLEAN
    BY <1>2 DEF fav, text
  <2>3. Starred(e, fav) \in Entries /\ Starred(e, fav).ver = e.ver + 1
    BY <1>2, <2>2, EditedType
  <2> QED
    BY <1>1, <2>1, <2>3 DEF e
<1> QED
  BY <1>5, <1>6, <1>7

\* An answer ends the step of its call, and leaves the checks alone.
LEMMA AnswerIs ==
    ASSUME PageInv, NEW c \in Calls, NEW step \in {"done", "failed"}, Answer(c, step)
    PROVE  /\ call' \in [Calls -> CallRecords] /\ call'[c].step = step
           /\ \A d \in Calls : d # c => call'[d] = call[d]
           /\ \A d \in Calls : /\ call'[d].gen = call[d].gen /\ call'[d].kind = call[d].kind
                              /\ call'[d].todo = call[d].todo /\ call'[d].snap = call[d].snap
                              /\ call'[d].fp = call[d].fp
<1> DEFINE r == [call[c] EXCEPT !.step = step, !.fav = FALSE, !.draft = NoDraft]
<1>1. call \in [Calls -> CallRecords] /\ TypeOK
  BY Typed DEF PageInv
<1>2. call' = [call EXCEPT ![c] = r]
  BY DEF Answer
<1>3. /\ r \in CallRecords /\ r.step = step /\ r.gen = call[c].gen /\ r.kind = call[c].kind
      /\ r.todo = call[c].todo /\ r.snap = call[c].snap /\ r.fp = call[c].fp
  BY <1>1, IdleType DEF CallRecords
<1> HIDE DEF r
<1>4. /\ call' \in [Calls -> CallRecords] /\ call'[c] = r
      /\ \A d \in Calls : d # c => call'[d] = call[d]
  BY <1>1, <1>2, <1>3, OneCall
<1> QED
  BY <1>3, <1>4

\* The parts of the invariant that an answer does not touch.
LEMMA AnsweredCalls ==
    ASSUME PageInv, NEW c \in Calls, NEW step \in {"done", "failed"}, Answer(c, step),
           call[c].step = "post", UNCHANGED <<page, newest>>,
           trouble' \in {"none", "failed", "lost"},
           step = "failed" \/ trouble # "none" => trouble' # "none"
    PROVE  /\ Calling' /\ OwnTexts' /\ OpenPanelHasRow'
           /\ \A d \in Calls : Fresh(d)' <=> Fresh(d)
<1>1. /\ call'[c].step = step /\ \A d \in Calls : d # c => call'[d] = call[d]
      /\ \A d \in Calls : /\ call'[d].gen = call[d].gen /\ call'[d].kind = call[d].kind
                         /\ call'[d].fp = call[d].fp
  BY AnswerIs
<1>2. \A d \in Calls : Fresh(d)' <=> Fresh(d)
  BY <1>1 DEF Fresh
<1>3. Calling'
  <2>1. /\ call[c].kind # "check" /\ newest' = newest
    BY DEF PageInv, Calling, Posting
  <2>2. \A d \in Calls : call'[d].gen <= newest'
    BY <1>1, <2>1 DEF PageInv, Calling
  <2>3. \A d, e \in Calls : Fresh(d)' /\ Fresh(e)' => d = e
    BY <1>2 DEF PageInv, Calling
  <2>4. \A d \in Calls : call'[d].kind = "check" => call'[d].step = "none"
    BY <1>1, <2>1 DEF PageInv, Calling
  <2>5. \A d \in Calls :
            call'[d].step = "post" => call'[d].kind \in Posting /\ call'[d].fp \in Fps
    BY <1>1 DEF PageInv, Calling
  <2>6. \A d \in Calls : call'[d].step = "failed" => trouble' # "none"
    BY <1>1 DEF PageInv, Calling
  <2> QED
    BY <2>2, <2>3, <2>4, <2>5, <2>6 DEF Calling
<1>4. OwnTexts'
  BY <1>1 DEF PageInv, OwnTexts, SavesOwnTexts, page
<1>5. OpenPanelHasRow'
  BY DEF PageInv, OpenPanelHasRow, PanelUsable, Shown, page
<1> QED
  BY <1>2, <1>3, <1>4, <1>5

\* A request that is obeyed is followed by a check, or lost.
LEMMA ObeyKeeps ==
    ASSUME PageInv, NEW c \in Calls, NEW step \in {"done", "failed"}, Answer(c, step),
           call[c].step = "post", UNCHANGED <<page, newest>>,
           server' = [server EXCEPT ![call[c].fp] = Obeyed(c)],
           (step = "done" /\ trouble' = trouble) \/ (step = "failed" /\ trouble' = "lost"),
           clicksLeft' \in Nat, upsetsLeft' \in Nat
    PROVE  PageInv'
<1>1. trouble \in {"none", "failed", "lost"} /\ trouble' \in {"none", "failed", "lost"}
  BY Typed DEF PageInv
<1>2. /\ call' \in [Calls -> CallRecords] /\ call'[c].step = step
      /\ \A d \in Calls : /\ call'[d].gen = call[d].gen /\ call'[d].kind = call[d].kind
                         /\ call'[d].todo = call[d].todo /\ call'[d].snap = call[d].snap
  BY AnswerIs
<1>3. Calling' /\ OwnTexts' /\ OpenPanelHasRow'
  BY <1>1, AnsweredCalls
<1>4. server' \in [Fps -> Entries] /\ Versions'
  BY <1>2, ObeyedType, NewerStored DEF page
<1>5. TypeOK'
  BY <1>1, <1>2, <1>4 DEF PageInv, TypeOK, CallRecords, Drafts, page
<1>6. trouble' = "lost" \/ Pending'
  BY <1>2 DEF Pending
<1>7. ListComing' /\ BoxComing'
  BY <1>6 DEF ListComing, BoxComing
<1> QED
  BY <1>3, <1>4, <1>5, <1>7 DEF PageInv

\* A request that is refused leaves everything true but the checkbox.
LEMMA FailKeeps ==
    ASSUME PageInv, NEW c \in Calls, Fails(c), call[c].step = "post",
           UNCHANGED <<server, page, newest>>, clicksLeft' \in Nat, upsetsLeft' \in Nat
    PROVE  PageInv'
<1>1. /\ Answer(c, "failed") /\ trouble' = IF trouble = "lost" THEN trouble ELSE "failed"
      /\ trouble \in {"none", "failed", "lost"}
  BY Typed DEF PageInv, Fails
<1>2. /\ call' \in [Calls -> CallRecords] /\ call'[c].step = "failed"
      /\ \A d \in Calls : d # c => call'[d] = call[d]
      /\ \A d \in Calls : /\ call'[d].gen = call[d].gen /\ call'[d].kind = call[d].kind
                         /\ call'[d].todo = call[d].todo /\ call'[d].snap = call[d].snap
  BY <1>1, AnswerIs
<1>3. /\ Calling' /\ OwnTexts' /\ OpenPanelHasRow'
      /\ \A d \in Calls : Fresh(d)' <=> Fresh(d)
  BY <1>1, AnsweredCalls
<1>4. TypeOK'
  BY <1>1, <1>2 DEF PageInv, TypeOK, CallRecords, Drafts, page
<1>5. Versions'
  BY <1>2, <1>3 DEF PageInv, Versions, page
<1>6. (Pending' <=> Pending) /\ (Checking' <=> Checking)
  BY <1>2, <1>3 DEF Pending, Checking
<1>7. (ScansAgree => ScansAgree') /\ (ListAgrees => ListAgrees')
  BY <1>2, <1>3, <1>6 DEF ScansAgree, ListAgrees, page
<1>8. ListComing' /\ BoxComing'
  BY <1>1, <1>6, <1>7 DEF PageInv, ListComing, BoxComing
<1> QED
  BY <1>3, <1>4, <1>5, <1>8 DEF PageInv

\* A node run changes nothing that a user has edited, nor deletes anything.
LEMMA NodeKeeps == ASSUME PageInv, NEW f \in Fps, NodeWrite(f) PROVE PageInv'
<1> DEFINE e == server[f]
<1>1. /\ UNCHANGED <<page, newest, call, trouble>> /\ clicksLeft' \in Nat /\ upsetsLeft' \in Nat
  BY BudgetType, Typed DEF PageInv, NodeWrite
<1>2. e \in Entries /\ e.ver \in Nat /\ server \in [Fps -> Entries]
  BY Typed DEF PageInv, Entries
<1>3. PICK n \in Entries : /\ server' = [server EXCEPT ![f] = n] /\ n.ver = e.ver + 1
                          /\ AgreeOn(e, n)
  <2>1. CASE ~e.live
    <3> DEFINE n == [Gone(e.ver + 1) EXCEPT !.live = TRUE]
    <3>1. Gone(e.ver + 1) \in Entries /\ Gone(e.ver + 1).ver = e.ver + 1
      BY <1>2, IdleType
    <3>2. n \in Entries /\ n.ver = e.ver + 1
      BY <3>1 DEF Entries
    <3>3. server' = [server EXCEPT ![f] = n] /\ AgreeOn(e, n)
      BY <2>1 DEF NodeWrite, AgreeOn
    <3> HIDE DEF n
    <3> QED
      BY <3>2, <3>3
  <2>2. CASE e.live
    <3>1. PICK g \in Fps \ {f}, up \in BOOLEAN :
             server' = [server EXCEPT ![f] = [e EXCEPT !.pair = g, !.up = up, !.ver = @ + 1]]
      BY <2>2 DEF NodeWrite
    <3>2. server' = [server EXCEPT ![f] = Paired(e, g, up)]
      BY <3>1 DEF Paired
    <3> HIDE DEF e
    <3>3. FALSE \in BOOLEAN /\ NoText \in Texts /\ g \in Fps \cup {NoFp}
      BY PanelAssumption
    <3>4. /\ Paired(e, g, up) \in Entries /\ Paired(e, g, up).ver = e.ver + 1
          /\ AgreeOn(e, Paired(e, g, up))
      BY <1>2, <3>3, EditedType
    <3> QED
      BY <3>2, <3>4
  <2> QED
    BY <2>1, <2>2
<1> HIDE DEF e
<1>4. server'[f] = n /\ \A g \in Fps : g # f => server'[g] = server[g]
  BY <1>2, <1>3
<1>5. server' \in [Fps -> Entries] /\ Versions'
  BY <1>1, <1>3, NewerStored DEF e, page
<1>6. TypeOK'
  BY <1>1, <1>5 DEF PageInv, TypeOK, page
<1>7. Calling' /\ OwnTexts' /\ OpenPanelHasRow'
  BY <1>1 DEF PageInv, Calling, OwnTexts, SavesOwnTexts, OpenPanelHasRow, PanelUsable, Shown,
     Fresh, page
<1>8. \A g \in Fps : AgreeOn(server[g], server'[g])
  <2>1. ASSUME NEW g \in Fps PROVE AgreeOn(server[g], server'[g])
    <3>1. CASE g = f
      BY <1>3, <1>4, <3>1 DEF e
    <3>2. CASE g # f
      BY <1>4, <3>2 DEF AgreeOn
    <3> QED
      BY <3>1, <3>2
  <2> QED
    BY <2>1
<1>9. \A c \in Calls : Fresh(c)' <=> Fresh(c)
  BY <1>1 DEF Fresh
<1>10. (Pending' <=> Pending) /\ (Checking' <=> Checking) /\ (BoxPosted' <=> BoxPosted)
  BY <1>1, <1>9 DEF Pending, Checking, BoxPosted
<1>11. ScansAgree => ScansAgree'
  BY <1>1, <1>8, <1>9 DEF ScansAgree, AgreeOn
<1>12. ListAgrees => ListAgrees'
  BY <1>1, <1>8, <1>10 DEF ListAgrees, AgreeOn, page
<1>13. ListComing'
  BY <1>1, <1>10, <1>11, <1>12 DEF PageInv, ListComing
<1>14. BoxComing'
  <2> SUFFICES ASSUME trouble = "none", PanelUsable, ~Pending, ~Checking, ~BoxPosted
               PROVE  box = server'[open].fav
    BY <1>1, <1>10 DEF BoxComing, PanelUsable, page
  <2>1. listed /\ open \in Fps /\ list[open].live
    BY DEF PageInv, OpenPanelHasRow, PanelUsable, Shown, Rows, Filtered
  <2>2. server[open].live
    BY <2>1, RowIsTrue
  <2>3. box = server[open].fav
    BY DEF PageInv, BoxComing
  <2> QED
    BY <1>8, <2>1, <2>2, <2>3 DEF AgreeOn
<1> QED
  BY <1>5, <1>6, <1>7, <1>13, <1>14 DEF PageInv

\* A check reads what is stored.
LEMMA ScanKeeps == ASSUME PageInv, NEW c \in Calls, NEW f \in Fps, Scan(c, f) PROVE PageInv'
<1> DEFINE r == [call[c] EXCEPT !.todo = @ \ {f}, !.snap = [@ EXCEPT ![f] = server[f]]]
           t == call[c].todo \ {f}
           s == [call[c].snap EXCEPT ![f] = server[f]]
<1>1. /\ Fresh(c) /\ f \in call[c].todo /\ call' = [call EXCEPT ![c] = r]
      /\ UNCHANGED <<server, page, newest, trouble, budget>>
  BY DEF Scan, Stale, Fresh
<1>2. TypeOK /\ call \in [Calls -> CallRecords] /\ server \in [Fps -> Entries]
  BY Typed DEF PageInv
<1>3. call[c] \in CallRecords /\ call[c].snap \in [Fps -> Entries] /\ call[c].todo \in SUBSET Fps
  BY <1>2 DEF CallRecords
<1>4. /\ t \in SUBSET Fps /\ s \in [Fps -> Entries] /\ s[f] = server[f]
      /\ \A g \in Fps : g # f => s[g] = call[c].snap[g]
  BY <1>2, <1>3
<1> HIDE DEF s, t
<1>5. r = [call[c] EXCEPT !.todo = t, !.snap = s]
  BY DEF s, t
<1> HIDE DEF r
<1>6. /\ r \in CallRecords /\ r.todo = t /\ r.snap = s /\ r.kind = call[c].kind
      /\ r.step = call[c].step /\ r.gen = call[c].gen
  BY <1>3, <1>4, <1>5 DEF CallRecords
<1>7. /\ call' \in [Calls -> CallRecords] /\ call'[c] = r
      /\ \A d \in Calls : d # c => call'[d] = call[d]
  BY <1>1, <1>2, <1>6, OneCall
<1>8. \A d \in Calls : Fresh(d)' <=> Fresh(d)
  BY <1>1, <1>6, <1>7 DEF Fresh
<1>9. call[c].kind = "check" /\ call[c].step = "none"
  BY <1>1 DEF PageInv, Calling, Fresh
<1>10. TypeOK'
  BY <1>1, <1>7 DEF PageInv, TypeOK, CallRecords, Drafts, page, budget
<1>11. Calling'
  BY <1>1, <1>6, <1>7, <1>8, <1>9 DEF PageInv, Calling
<1>12. OwnTexts' /\ OpenPanelHasRow'
  BY <1>1, <1>6, <1>7, <1>9 DEF PageInv, OwnTexts, SavesOwnTexts, OpenPanelHasRow, PanelUsable,
     Shown, page
<1>13. \A d \in Calls : Fresh(d) => d = c
  BY <1>1 DEF PageInv, Calling
<1>14. Versions'
  <2>1. ASSUME NEW g \in Fps \ t PROVE list[g].ver <= s[g].ver /\ s[g].ver <= server[g].ver
    <3>1. CASE g = f
      BY <1>2, <1>4, <3>1 DEF PageInv, Versions, Entries
    <3>2. CASE g # f
      BY <1>1, <1>4, <3>2 DEF PageInv, Versions, t
    <3> QED
      BY <3>1, <3>2
  <2> QED
    BY <1>1, <1>6, <1>7, <1>8, <1>13, <2>1 DEF PageInv, Versions, page
<1>15. (Pending' <=> Pending) /\ (Checking' <=> Checking) /\ (BoxPosted' <=> BoxPosted)
  BY <1>6, <1>7, <1>8, <1>9 DEF Pending, Checking, BoxPosted
<1>16. ScansAgree => ScansAgree'
  <2>1. ASSUME ScansAgree, NEW g \in Fps \ t PROVE AgreeOn(s[g], server[g])
    BY <1>1, <1>4, <2>1 DEF ScansAgree, AgreeOn, t
  <2> QED
    BY <1>1, <1>6, <1>7, <1>8, <1>13, <2>1 DEF ScansAgree
<1>17. ListComing' /\ BoxComing'
  BY <1>1, <1>15, <1>16 DEF PageInv, ListComing, ListAgrees, BoxComing, PanelUsable, page
<1> QED
  BY <1>10, <1>11, <1>12, <1>14, <1>17 DEF PageInv

\* What the server does with a request keeps the invariant.
LEMMA NetworkKeeps == ASSUME PageInv, NEW c \in Calls, Network(c) PROVE PageInv'
<1>1. clicksLeft \in Nat /\ upsetsLeft \in Nat
  BY Typed DEF PageInv
<1>2. CASE Serve(c)
  <2>1. call[c].step = "post" /\ UNCHANGED <<page, newest>> /\ UNCHANGED budget
    BY <1>2 DEF Serve
  <2>2. clicksLeft' \in Nat /\ upsetsLeft' \in Nat
    BY <1>1, <2>1 DEF budget
  <2>3. CASE server[call[c].fp].live \/ call[c].kind = "delete"
    <3>1. /\ server' = [server EXCEPT ![call[c].fp] = Obeyed(c)] /\ Answer(c, "done")
          /\ trouble' = trouble
      BY <1>2, <2>3 DEF Serve
    <3> QED
      BY <2>1, <2>2, <3>1, ObeyKeeps
  <2>4. CASE ~(server[call[c].fp].live \/ call[c].kind = "delete")
    <3>1. Fails(c) /\ UNCHANGED server
      BY <1>2, <2>4 DEF Serve
    <3> QED
      BY <2>1, <2>2, <3>1, FailKeeps
  <2> QED
    BY <2>3, <2>4
<1>3. CASE Refuse(c)
  <2>1. clicksLeft' \in Nat /\ upsetsLeft' \in Nat
    BY <1>1, <1>3, BudgetType DEF Refuse
  <2> QED
    BY <1>3, <2>1, FailKeeps DEF Refuse
<1>4. CASE Lose(c)
  <2>1. clicksLeft' \in Nat /\ upsetsLeft' \in Nat
    BY <1>1, <1>4, BudgetType DEF Lose
  <2> QED
    BY <1>4, <2>1, ObeyKeeps DEF Lose
<1> QED
  BY <1>2, <1>3, <1>4, ScanKeeps DEF Network

-----------------------------------------------------------------------------
(* Answers.                                                                *)

\* A handler that has run to its end promises nothing any more.
LEMMA CallEnds ==
    ASSUME PageInv, NEW c \in Calls, call' = [call EXCEPT ![c] = Idle], call[c].step # "done",
           UNCHANGED <<newest, trouble>>
    PROVE  /\ call' \in [Calls -> CallRecords] /\ \A d \in Calls : d # c => call'[d] = call[d]
           /\ Calling' /\ SavesOwnTexts'
           /\ \A d \in Calls : Fresh(d)' <=> (Fresh(d) /\ d # c)
           /\ Pending' <=> Pending
           /\ BoxPosted => BoxPosted' \/ (call[c].kind = "box" /\ call[c].step = "post")
<1>1. TypeOK /\ newest \in Nat
  BY Typed DEF PageInv
<1>2. /\ call' \in [Calls -> CallRecords] /\ call'[c] = Idle
      /\ \A d \in Calls : d # c => call'[d] = call[d]
      /\ Idle.kind = "idle" /\ Idle.step = "none" /\ Idle.gen = 0
  BY <1>1, IdleType, OneCall
<1>3. \A d \in Calls : Fresh(d)' <=> (Fresh(d) /\ d # c)
  BY <1>2 DEF Fresh
<1>4. Calling'
  BY <1>1, <1>2, <1>3 DEF PageInv, Calling
<1>5. SavesOwnTexts'
  BY <1>2 DEF PageInv, OwnTexts, SavesOwnTexts
<1>6. Pending' <=> Pending
  BY <1>2 DEF Pending
<1>7. BoxPosted => BoxPosted' \/ (call[c].kind = "box" /\ call[c].step = "post")
  BY <1>2 DEF BoxPosted
<1> QED
  BY <1>2, <1>3, <1>4, <1>5, <1>6, <1>7

\* A POST that worked starts the check that shows what it did.
LEMMA DoneKeeps == ASSUME PageInv, NEW c \in Calls, PostDone(c) PROVE PageInv'
<1>1. /\ RunCheck(c) /\ UNCHANGED <<server, list, listed, favoritesOnly, trouble>>
      /\ UNCHANGED <<open, draft, box>> \/ Close
      /\ clicksLeft' = clicksLeft /\ upsetsLeft' = upsetsLeft
  BY DEF PostDone, budget
<1> QED
  BY <1>1, RunCheckKeeps, Typed DEF PageInv

\* A POST that failed has made the trouble that excuses the checkbox.
LEMMA FailedKeeps == ASSUME PageInv, NEW c \in Calls, PostFailed(c) PROVE PageInv'
<1>1. /\ call[c].step = "failed" /\ call' = [call EXCEPT ![c] = Idle]
      /\ box' = (IF call[c].kind = "box" /\ open # NoFp THEN ~box ELSE box)
      /\ UNCHANGED <<server, list, listed, favoritesOnly, open, draft, newest, trouble, budget>>
  BY DEF PostFailed
<1>2. trouble # "none" /\ call[c].kind # "check" /\ box' \in BOOLEAN
  <2>1. trouble # "none" /\ call[c].kind # "check"
    BY <1>1 DEF PageInv, Calling
  <2>2. box \in BOOLEAN
    BY Typed DEF PageInv
  <2>3. box' \in BOOLEAN
    BY <1>1, <2>2
  <2> QED
    BY <2>1, <2>3
<1>3. /\ call' \in [Calls -> CallRecords] /\ \A d \in Calls : d # c => call'[d] = call[d]
      /\ Calling' /\ SavesOwnTexts' /\ (Pending' <=> Pending)
      /\ \A d \in Calls : Fresh(d)' <=> (Fresh(d) /\ d # c)
  BY <1>1, CallEnds
<1>4. ~Fresh(c) /\ \A d \in Calls : Fresh(d)' <=> Fresh(d)
  BY <1>2, <1>3 DEF Fresh
<1>5. TypeOK'
  BY <1>1, <1>2, <1>3 DEF PageInv, TypeOK, CallRecords, Drafts, budget
<1>6. OwnTexts' /\ OpenPanelHasRow'
  BY <1>1, <1>3 DEF PageInv, OwnTexts, OpenPanelHasRow, PanelUsable, Shown
<1>7. Versions'
  BY <1>1, <1>3, <1>4 DEF PageInv, Versions
<1>8. (Checking' <=> Checking) /\ (ScansAgree => ScansAgree')
  BY <1>1, <1>3, <1>4 DEF Checking, ScansAgree
<1>9. ListComing' /\ BoxComing'
  BY <1>1, <1>2, <1>3, <1>8 DEF PageInv, ListComing, ListAgrees, BoxComing
<1> QED
  BY <1>3, <1>5, <1>6, <1>7, <1>9 DEF PageInv

\* An answer that is dropped, or that empties the list, leaves the rest as it is.
LEMMA DroppedKeeps ==
    ASSUME PageInv, NEW c \in Calls, call[c].kind = "check", call' = [call EXCEPT ![c] = Idle],
           UNCHANGED <<server, list, favoritesOnly, open, draft, box, newest, trouble>>,
           (Stale(c) /\ listed' = listed) \/ listed' = FALSE,
           clicksLeft' \in Nat, upsetsLeft' \in Nat
    PROVE  PageInv'
<1>1. call[c].step = "none"
  BY DEF PageInv, Calling
<1>2. /\ call' \in [Calls -> CallRecords] /\ \A d \in Calls : d # c => call'[d] = call[d]
      /\ Calling' /\ SavesOwnTexts' /\ (Pending' <=> Pending)
      /\ \A d \in Calls : Fresh(d)' <=> (Fresh(d) /\ d # c)
      /\ BoxPosted => BoxPosted'
  BY <1>1, CallEnds
<1>3. listed' \in BOOLEAN /\ (listed' => listed)
  <2>1. listed \in BOOLEAN
    BY Typed DEF PageInv
  <2>2. CASE listed' = FALSE
    BY <2>2
  <2>3. CASE listed' = listed
    BY <2>1, <2>3
  <2> QED
    BY <2>2, <2>3
<1>4. TypeOK'
  BY <1>2, <1>3 DEF PageInv, TypeOK, CallRecords, Drafts
<1>5. OwnTexts' /\ OpenPanelHasRow'
  BY <1>2, <1>3 DEF PageInv, OwnTexts, OpenPanelHasRow, PanelUsable, Shown
<1>6. Versions'
  BY <1>2 DEF PageInv, Versions
<1>7. ScansAgree => ScansAgree'
  BY <1>2 DEF ScansAgree
<1>8. CASE listed' = FALSE
  BY <1>2, <1>4, <1>5, <1>6, <1>7, <1>8
     DEF PageInv, ListComing, ListAgrees, BoxComing, PanelUsable
<1>9. CASE Stale(c) /\ listed' = listed
  <2>1. Checking' <=> Checking
    BY <1>2, <1>9 DEF Checking, Stale, Fresh
  <2>2. ListComing' /\ BoxComing'
    BY <1>2, <1>7, <1>9, <2>1 DEF PageInv, ListComing, ListAgrees, BoxComing, PanelUsable
  <2> QED
    BY <1>2, <1>4, <1>5, <1>6, <2>2 DEF PageInv
<1> QED
  BY <1>8, <1>9

\* The newest answer shows what was read, below which the panel is drawn anew.
LEMMA ShownKeeps ==
    ASSUME PageInv, NEW c \in Calls, CheckDone(c), ~Stale(c)
    PROVE  PageInv' /\ \A f \in Fps : list'[f].ver >= list[f].ver
<1> DEFINE snap == call[c].snap
<1>1. /\ Fresh(c) /\ call[c].todo = {} /\ list' = snap /\ listed' = TRUE
      /\ Reattach(snap, favoritesOnly) /\ call' = [call EXCEPT ![c] = Idle]
      /\ UNCHANGED <<server, favoritesOnly, newest, trouble, budget>>
  BY DEF CheckDone, Stale, Fresh
<1>2. call[c].step = "none"
  BY <1>1 DEF PageInv, Calling, Fresh
<1>3. /\ call' \in [Calls -> CallRecords] /\ \A d \in Calls : d # c => call'[d] = call[d]
      /\ Calling' /\ SavesOwnTexts' /\ (Pending' <=> Pending)
      /\ \A d \in Calls : Fresh(d)' <=> (Fresh(d) /\ d # c)
      /\ BoxPosted => BoxPosted'
  BY <1>1, <1>2, CallEnds
<1>4. \A d \in Calls : ~Fresh(d)'
  BY <1>1, <1>3 DEF PageInv, Calling
<1>5. snap \in [Fps -> Entries]
  BY Typed DEF PageInv, CallRecords
<1>6. /\ open' # NoFp => /\ open' = open /\ open' \in Rows(snap, favoritesOnly)
                         /\ box' = snap[open].fav
      /\ open' \in Fps \cup {NoFp} /\ draft' \in Drafts /\ box' \in BOOLEAN
      /\ draft'.of = open'
  BY <1>1, <1>5, ReattachKeeps
<1>7. TypeOK'
  BY <1>1, <1>3, <1>5, <1>6 DEF PageInv, TypeOK, CallRecords, Drafts, budget
<1>8. \A f \in Fps : /\ list[f].ver <= snap[f].ver /\ snap[f].ver <= server[f].ver
                    /\ list[f].ver \in Nat /\ snap[f].ver \in Nat
  BY <1>1, <1>5, Typed DEF PageInv, Versions, Entries
<1>9. Versions'
  BY <1>1, <1>4, <1>8 DEF Versions
<1>10. OwnTexts'
  BY <1>3, <1>6 DEF OwnTexts
<1>11. OpenPanelHasRow'
  BY <1>1, <1>6 DEF OpenPanelHasRow, PanelUsable, Shown
<1>12. ~Checking' /\ ScansAgree'
  BY <1>4 DEF Checking, ScansAgree
<1>13. trouble # "lost" /\ ~Pending => \A f \in Fps : AgreeOn(snap[f], server[f])
  BY <1>1 DEF PageInv, ListComing, ScansAgree
<1>14. ListComing'
  BY <1>1, <1>3, <1>12, <1>13 DEF ListComing, ListAgrees
<1>15. BoxComing'
  <2> SUFFICES ASSUME trouble = "none", open' # NoFp, ~Pending PROVE box' = server[open'].fav
    BY <1>1, <1>3 DEF BoxComing, PanelUsable
  <2>1. open' = open /\ open \in Fps /\ snap[open].live /\ box' = snap[open].fav
    BY <1>6 DEF Rows, Filtered
  <2> QED
    BY <1>13, <2>1 DEF AgreeOn
<1>16. \A f \in Fps : snap[f].ver >= list[f].ver
  BY <1>8
<1> QED
  BY <1>1, <1>3, <1>7, <1>9, <1>10, <1>11, <1>14, <1>15, <1>16 DEF PageInv

\* What the page does with an answer keeps the invariant.
LEMMA AnsweredKeeps == ASSUME PageInv, NEW c \in Calls, Answered(c) PROVE PageInv'
<1>1. clicksLeft \in Nat /\ upsetsLeft \in Nat
  BY Typed DEF PageInv
<1>2. CASE CheckDone(c)
  <2>1. CASE Stale(c)
    BY <1>1, <1>2, <2>1, DroppedKeeps DEF CheckDone, budget
  <2>2. CASE ~Stale(c)
    BY <1>2, <2>2, ShownKeeps
  <2> QED
    BY <2>1, <2>2
<1>3. CASE CheckFailed(c)
  <2>1. clicksLeft' \in Nat /\ upsetsLeft' \in Nat
    BY <1>1, <1>3, BudgetType DEF CheckFailed
  <2>2. (Stale(c) /\ listed' = listed) \/ listed' = FALSE
    BY <1>3 DEF CheckFailed
  <2> QED
    BY <1>3, <2>1, <2>2, DroppedKeeps DEF CheckFailed
<1> QED
  BY <1>2, <1>3, DoneKeeps, FailedKeeps DEF Answered

\* Every step keeps the invariant.
LEMMA StepKeeps == PageInv /\ [Next]_vars => PageInv'
<1> SUFFICES ASSUME PageInv, [Next]_vars PROVE PageInv'
  OBVIOUS
<1>1. CASE UNCHANGED vars
  <2> USE <1>1 DEF vars, page, budget, PageInv
  <2>1. TypeOK' /\ Calling' /\ OwnTexts'
    BY DEF TypeOK, Calling, Fresh, OwnTexts, SavesOwnTexts
  <2>2. OpenPanelHasRow' /\ Versions'
    BY DEF OpenPanelHasRow, PanelUsable, Shown, Versions, Fresh
  <2>3. ListComing' /\ BoxComing'
    BY DEF ListComing, ScansAgree, ListAgrees, BoxComing, PanelUsable, Pending, Checking,
       BoxPosted, Fresh
  <2> QED
    BY <2>1, <2>2, <2>3
<1>2. CASE Next
  BY <1>2, UserKeeps, NetworkKeeps, AnsweredKeeps, NodeKeeps DEF Next
<1> QED
  BY <1>1, <1>2

-----------------------------------------------------------------------------
(* Theorems.                                                               *)

\* The inductive invariant.
THEOREM Invariance == Spec => []PageInv
  BY InitInv, StepKeeps, PTL DEF Spec

\* Every variable stays in its type.
THEOREM TypeCorrect == Spec => []TypeOK
<1>1. PageInv => TypeOK
  BY DEF PageInv
<1> QED
  BY <1>1, Invariance, PTL

\* Whatever is opened, typed and rendered meanwhile, a Save carries the texts of
\* the entry it is for.
THEOREM SavesAreOwn == Spec => []SavesOwnTexts
<1>1. PageInv => SavesOwnTexts
  BY DEF PageInv, OwnTexts
<1> QED
  BY <1>1, Invariance, PTL

\* For any number of overlapping handlers, answers in any order, refusals and node
\* runs, the page comes to rest on what the server stores.
THEOREM PageComesToRest == Spec => []QuietPageIsTrue
<1>1. ASSUME PageInv PROVE QuietPageIsTrue
  <2>1. ASSUME Quiet PROVE ~Pending /\ ~Checking /\ ~BoxPosted
    BY <2>1, IdleType DEF Quiet, Pending, Checking, Fresh, BoxPosted
  <2>2. QuietListIsTrue
    BY <1>1, <2>1 DEF PageInv, ListComing, ListAgrees, AgreeOn, QuietListIsTrue
  <2>3. QuietBoxIsTrue
    BY <1>1, <2>1 DEF PageInv, BoxComing, QuietBoxIsTrue
  <2> QED
    BY <2>2, <2>3 DEF QuietPageIsTrue
<1> QED
  BY <1>1, Invariance, PTL

\* Whatever the pairings are, no live entry and no open panel is out of reach.
THEOREM NothingOutOfReach == Spec => []EntriesInReach
<1>1. ASSUME PageInv PROVE EntriesInReach
  <2>1. ASSUME listed, ~favoritesOnly, NEW f \in Fps, list[f].live PROVE f \in Shown \cup Strips
    <3>1. Shown = {g \in Fps : list[g].live /\ ~Folded(list, g)}
      BY <2>1 DEF Shown, Rows, Filtered
    <3>2. CASE ~Folded(list, f)
      BY <2>1, <3>1, <3>2
    <3>3. CASE Folded(list, f)
      <4>1. PICK g \in Fps : list[f].pair = g /\ list[g].live /\ ~list[g].up
        BY <3>3 DEF Folded
      <4>2. ~Folded(list, g)
        BY <4>1 DEF Folded
      <4> QED
        BY <3>1, <3>3, <4>1, <4>2 DEF Strips
    <3> QED
      BY <3>2, <3>3
  <2> QED
    BY <1>1, <2>1 DEF PageInv, EntriesInReach, NothingFoldedAway
<1> QED
  BY <1>1, Invariance, PTL

\* Whatever order the answers to overlapping checks arrive in, no entry of the list
\* is replaced by an older one.
THEOREM ListIsNeverOlder == Spec => ListNeverStepsBack
<1>1. ASSUME PageInv, [Next]_vars PROVE \A f \in Fps : list'[f].ver >= list[f].ver
  <2>1. CASE list' = list
    BY <1>1, <2>1, Typed DEF PageInv, Entries
  <2>2. ASSUME NEW c \in Calls, CheckDone(c), ~Stale(c)
        PROVE  \A f \in Fps : list'[f].ver >= list[f].ver
    BY <1>1, <2>2, ShownKeeps
  <2>3. list' = list \/ \E c \in Calls : CheckDone(c) /\ ~Stale(c)
    <3>1. CASE UNCHANGED vars
      BY <3>1 DEF vars, page
    <3>2. CASE User
      BY <3>2 DEF User, ClickCheck, ToggleBox, ClickSave, ClickStar, ClickDelete, OpenDetail,
         Type, CloseDetail, ToggleFilter, Post, Local, page
    <3>3. ASSUME NEW c \in Calls, Network(c) \/ Answered(c)
          PROVE  list' = list \/ (CheckDone(c) /\ ~Stale(c))
      BY <3>3 DEF Network, Serve, Refuse, Lose, Scan, Answered, PostDone, PostFailed, CheckDone,
         CheckFailed, page
    <3>4. ASSUME NEW f \in Fps, NodeWrite(f) PROVE list' = list
      BY <3>4 DEF NodeWrite, page
    <3> QED
      BY <1>1, <3>1, <3>2, <3>3, <3>4 DEF Next
  <2> QED
    BY <2>1, <2>2, <2>3
<1>2. PageInv /\ [Next]_vars => [\A f \in Fps : list'[f].ver >= list[f].ver]_vars
  BY <1>1
<1> QED
  BY <1>2, Invariance, PTL DEF Spec, ListNeverStepsBack

\* No answer, of whichever handler, costs the user what is typed in the open panel.
THEOREM DraftsAreKept == Spec => AnswersKeepDraft
<1> DEFINE Kept(c) ==
        (Answered(c) /\ open # NoFp) =>
            \/ open' = open /\ draft' = draft
            \/ call[c].kind = "delete" /\ call[c].fp = open
            \/ listed' /\ open \notin Rows(list', favoritesOnly')
<1>1. ASSUME NEW c \in Calls, Answered(c), open # NoFp PROVE Kept(c)
  <2>1. CASE PostDone(c)
    BY <2>1 DEF PostDone
  <2>2. CASE PostFailed(c)
    BY <2>2 DEF PostFailed
  <2>3. CASE CheckDone(c) /\ Stale(c)
    BY <2>3 DEF CheckDone
  <2>4. CASE CheckDone(c) /\ ~Stale(c)
    BY <1>1, <2>4 DEF CheckDone, Reattach, Populate
  <2>5. CASE CheckFailed(c)
    BY <2>5 DEF CheckFailed
  <2> QED
    BY <1>1, <2>1, <2>2, <2>3, <2>4, <2>5 DEF Answered
<1>2. [Next]_vars => [\A c \in Calls : Kept(c)]_vars
  BY <1>1
<1> QED
  BY <1>2, PTL DEF Spec, AnswersKeepDraft
=============================================================================
