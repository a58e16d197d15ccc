--------------------------- MODULE OverviewProofs ---------------------------
(***************************************************************************)
(* Proofs about the overlay, for every set of windows and every number of  *)
(* displays and spaces.  Each call the overlay makes into the daemon, and  *)
(* each change the daemon makes on its own, leaves the overlay as the       *)
(* gesture left it, or redrawn with nothing pressed (Answered); every       *)
(* action is one of those, a press, or a state in which nothing is pressed. *)
(***************************************************************************)
EXTENDS OverviewProperties, TLAPS

\* The overlay's record, and a space manager's: its displays are a sequence.
IsOverlay(o) ==
  o = [visible |-> o.visible, mon |-> o.mon, space |-> o.space, spaces |-> o.spaces,
       plus |-> o.plus, cards |-> o.cards, close |-> o.close, pin |-> o.pin,
       win |-> o.win, winLive |-> o.winLive,
       spc |-> o.spc, spcLive |-> o.spcLive, slot |-> o.slot]

IsManager(g) ==
  /\ g = [mons |-> g.mons, pinned |-> g.pinned]
  /\ Len(g.mons) \in Nat
  /\ g.mons = [i \in 1..Len(g.mons) |-> g.mons[i]]

\* The cards are those of the display's current space.
Shows(o, g, alive) ==
  /\ o.space = g.mons[o.mon].current
  /\ o.spaces = Len(g.mons[o.mon].spaces)
  /\ o.plus = HasRoom(g, o.mon)
  /\ o.cards = CardsOf(g, o.mon, alive)

\* What is drawn, unless the spaces have changed behind the overlay.
Drawn(o, g, alive, late) ==
  o.visible /\ ~late => o.mon <= Len(g.mons) /\ Shows(o, g, alive)

Unpressed(o) == o.close = 0 /\ o.win = 0 /\ o.spc = 0

\* What a press remembers is the window it was made on.
PressedIsMeant ==
  /\ ov.close # 0 => meant = [what |-> "close", on |-> ov.cards[ov.close]]
  /\ ov.win # 0   => meant = [what |-> "card", on |-> ov.cards[ov.win]]

OverviewInv ==
  /\ IsOverlay(ov)
  /\ IsManager(mgr)
  /\ Drawn(ov, mgr, live, stale)
  /\ PressesHoldCapture
  /\ PressesInRange
  /\ PressedIsMeant
  /\ ReleaseActsOnPressed

-----------------------------------------------------------------------------
\* The overlay's record.

LEMMA RebuildFields ==
  ASSUME NEW o, IsOverlay(o), NEW g, NEW m
  PROVE  /\ IsOverlay(RebuildCards(o, g, m))
         /\ RebuildCards(o, g, m).visible = o.visible
         /\ RebuildCards(o, g, m).mon = m
         /\ Shows(RebuildCards(o, g, m), g, live)
<1> DEFINE room == HasRoom(g, m)
           cards == CardsOf(g, m, live)
           d == g.mons[m]
           r == RebuildCards(o, g, m)
<1>1. r = [o EXCEPT !.mon = m, !.space = d.current, !.spaces = Len(d.spaces),
                    !.plus = room, !.cards = cards]
  BY DEF RebuildCards
<1> HIDE DEF room, cards, d, r
<1>2. r = [visible |-> o.visible, mon |-> m, space |-> d.current, spaces |-> Len(d.spaces),
           plus |-> room, cards |-> cards, close |-> o.close, pin |-> o.pin,
           win |-> o.win, winLive |-> o.winLive,
           spc |-> o.spc, spcLive |-> o.spcLive, slot |-> o.slot]
  BY <1>1 DEF IsOverlay
<1>3. IsOverlay(r) /\ r.visible = o.visible /\ r.mon = m
  BY <1>2 DEF IsOverlay
<1>4. r.space = d.current /\ r.spaces = Len(d.spaces) /\ r.plus = room /\ r.cards = cards
  BY <1>2
<1>5. Shows(r, g, live)
  BY <1>3, <1>4 DEF Shows, room, cards, d
<1> QED
  BY <1>3, <1>5 DEF r

\* A rebuild changes nothing where the cards are up to date.
LEMMA ShownIsRebuilt ==
  ASSUME NEW o, IsOverlay(o), NEW g, Shows(o, g, live)
  PROVE  o = RebuildCards(o, g, o.mon)
  BY DEF IsOverlay, RebuildCards, Shows

LEMMA RefreshFields ==
  ASSUME NEW o, IsOverlay(o), NEW g, Refreshes(o, g)
  PROVE  /\ IsOverlay(Refresh(o, g))
         /\ Refresh(o, g).visible = o.visible
         /\ Refresh(o, g).mon = o.mon
         /\ Shows(Refresh(o, g), g, live)
         /\ Unpressed(Refresh(o, g))
<1> DEFINE r == RebuildCards(o, g, o.mon)
<1>1. IsOverlay(r) /\ r.visible = o.visible /\ r.mon = o.mon /\ Shows(r, g, live)
  BY RebuildFields
<1>2. Refresh(o, g) = NoDrags([r EXCEPT !.close = 0])
  BY DEF Refresh
<1> HIDE DEF r
<1>3. Refresh(o, g) = [r EXCEPT !.close = 0, !.win = 0, !.winLive = FALSE,
                                !.spc = 0, !.spcLive = FALSE, !.slot = 0]
  BY <1>1, <1>2 DEF NoDrags, NoWindowDrag, NoSpaceDrag, IsOverlay
<1> QED
  BY <1>1, <1>3 DEF IsOverlay, Shows, Unpressed

LEMMA ShowFields ==
  ASSUME NEW o, IsOverlay(o), NEW g, NEW m
  PROVE  /\ IsOverlay(ShowOverview(o, g, m))
         /\ ShowOverview(o, g, m).mon = m
         /\ Shows(ShowOverview(o, g, m), g, live)
         /\ Unpressed(ShowOverview(o, g, m))
<1> DEFINE r == RebuildCards(o, g, m)
<1>1. IsOverlay(r) /\ r.mon = m /\ Shows(r, g, live)
  BY RebuildFields
<1>2. ShowOverview(o, g, m) = [NoDrags([r EXCEPT !.close = 0]) EXCEPT !.visible = TRUE]
  BY DEF ShowOverview
<1> HIDE DEF r
<1>3. ShowOverview(o, g, m) =
        [r EXCEPT !.close = 0, !.win = 0, !.winLive = FALSE,
                  !.spc = 0, !.spcLive = FALSE, !.slot = 0, !.visible = TRUE]
  BY <1>1, <1>2 DEF NoDrags, NoWindowDrag, NoSpaceDrag, IsOverlay
<1> QED
  BY <1>1, <1>3 DEF IsOverlay, Shows, Unpressed

LEMMA HideFields ==
  ASSUME NEW o
  PROVE  /\ IsOverlay(HideOverview(o))
         /\ HideOverview(o).visible = FALSE
         /\ Unpressed(HideOverview(o))
<1> DEFINE no == FALSE
           c == [visible |-> no, mon |-> 1, space |-> 1, spaces |-> 0, plus |-> no,
                 cards |-> <<>>, close |-> 0, pin |-> 0, win |-> 0, winLive |-> no,
                 spc |-> 0, spcLive |-> no, slot |-> 0]
           r == [c EXCEPT !.pin = o.pin]
<1>1. HideOverview(o) = r
  BY DEF HideOverview, Closed
<1>2. no = FALSE
  OBVIOUS
<1> HIDE DEF no
<1>3. IsOverlay(r) /\ r.visible = no /\ Unpressed(r)
  BY DEF IsOverlay, Unpressed
<1> HIDE DEF r
<1> QED
  BY <1>1, <1>2, <1>3

LEMMA CaptureChangedFields ==
  ASSUME NEW o, IsOverlay(o)
  PROVE  /\ IsOverlay(CaptureChanged(o))
         /\ CaptureChanged(o).visible = o.visible
         /\ CaptureChanged(o).mon = o.mon
         /\ \A g, alive : Shows(o, g, alive) <=> Shows(CaptureChanged(o), g, alive)
         /\ Unpressed(CaptureChanged(o))
<1>1. CaptureChanged(o) = [o EXCEPT !.close = 0, !.pin = 0, !.win = 0, !.winLive = FALSE,
                                    !.spc = 0, !.spcLive = FALSE, !.slot = 0]
  BY DEF CaptureChanged, NoDrags, NoWindowDrag, NoSpaceDrag, IsOverlay
<1> QED
  BY <1>1 DEF IsOverlay, Shows, Unpressed

-----------------------------------------------------------------------------
\* The space manager.  SameDisplays: a change of one that keeps the displays.

SameDisplays(g, h) == IsManager(h) /\ Len(h.mons) = Len(g.mons)

LEMMA SeqByDomain ==
  ASSUME NEW n \in Nat, NEW h, h = [i \in 1..n |-> h[i]]
  PROVE  Len(h) = n
  OBVIOUS

LEMMA OneDisplayChanged ==
  ASSUME NEW g, IsManager(g), NEW m, NEW e
  PROVE  /\ SameDisplays(g, [g EXCEPT !.mons[m] = e])
         /\ [g EXCEPT !.mons[m] = e].pinned = g.pinned
<1> DEFINE f == [g.mons EXCEPT ![m] = e]
           h == [g EXCEPT !.mons[m] = e]
<1>1. h = [mons |-> f, pinned |-> g.pinned]
  BY DEF IsManager
<1>2. f = [i \in 1..Len(g.mons) |-> f[i]] /\ Len(g.mons) \in Nat
  BY DEF IsManager
<1>3. Len(f) = Len(g.mons)
  BY <1>2, SeqByDomain
<1>4. h.mons = f /\ h.pinned = g.pinned
  BY <1>1
<1> HIDE DEF f, h
<1>5. SameDisplays(g, h)
  BY <1>1, <1>2, <1>3, <1>4 DEF SameDisplays, IsManager
<1> QED
  BY <1>4, <1>5 DEF h

LEMMA PinnedChanged ==
  ASSUME NEW g, IsManager(g), NEW p
  PROVE  SameDisplays(g, [g EXCEPT !.pinned = p])
  BY DEF IsManager, SameDisplays

LEMMA WithoutKeeps ==
  ASSUME NEW g, IsManager(g), NEW W
  PROVE  SameDisplays(g, Without(g, W))
<1> DEFINE one(m) == [g.mons[m] EXCEPT !.spaces = [s \in DOMAIN g.mons[m].spaces |->
                         SelectSeq(WinsOn(g, m, s), LAMBDA w : w \notin W)]]
           f == [m \in DOMAIN g.mons |-> one(m)]
<1>1. Without(g, W) = [g EXCEPT !.mons = f]
  BY DEF Without
<1> HIDE DEF one
<1>2. f = [i \in 1..Len(g.mons) |-> f[i]] /\ Len(g.mons) \in Nat
  BY DEF IsManager
<1> HIDE DEF f
<1>3. Len(f) = Len(g.mons)
  BY <1>2, SeqByDomain
<1>4. Without(g, W) = [mons |-> f, pinned |-> g.pinned]
  BY <1>1 DEF IsManager
<1> QED
  BY <1>2, <1>3, <1>4 DEF SameDisplays, IsManager

LEMMA UntrackedKeeps ==
  ASSUME NEW g, IsManager(g), NEW W
  PROVE  SameDisplays(g, Untracked(g, W))
<1> DEFINE h == Without(g, W)
<1>1. SameDisplays(g, h)
  BY WithoutKeeps
<1>2. Untracked(g, W) = [h EXCEPT !.pinned = h.pinned \ W]
  BY DEF Untracked
<1> HIDE DEF h
<1>3. SameDisplays(h, [h EXCEPT !.pinned = h.pinned \ W])
  BY <1>1, PinnedChanged DEF SameDisplays
<1> QED
  BY <1>1, <1>2, <1>3 DEF SameDisplays

LEMMA TrackKeeps ==
  ASSUME NEW g, IsManager(g), NEW w, NEW m, NEW s
  PROVE  SameDisplays(g, TrackWindow(g, w, m, s))
<1>1. CASE w \in live
  <2> DEFINE h == Without(g, {w})
             e == [h.mons[m] EXCEPT !.spaces[s] = Append(h.mons[m].spaces[s], w)]
  <2>1. SameDisplays(g, h)
    BY WithoutKeeps
  <2>2. TrackWindow(g, w, m, s) = [h EXCEPT !.mons[m] = e]
    BY <1>1 DEF TrackWindow
  <2> HIDE DEF h, e
  <2>3. SameDisplays(h, [h EXCEPT !.mons[m] = e])
    BY <2>1, OneDisplayChanged DEF SameDisplays
  <2> QED
    BY <2>1, <2>2, <2>3 DEF SameDisplays
<1>2. CASE w \notin live
  BY <1>2, UntrackedKeeps DEF TrackWindow
<1> QED
  BY <1>1, <1>2

LEMMA ScannedKeeps ==
  ASSUME NEW g, IsManager(g), NEW m
  PROVE  SameDisplays(g, Scanned(g, m))
<1> DEFINE h == Untracked(g, Windows \ live)
           c == g.mons[m].current
           new == SetToSeq(live \ Tracked(g))
           e == [h.mons[m] EXCEPT !.spaces[c] = h.mons[m].spaces[c] \o new]
<1>1. SameDisplays(g, h)
  BY UntrackedKeeps
<1>2. Scanned(g, m) = [h EXCEPT !.mons[m] = e]
  BY DEF Scanned
<1> HIDE DEF h, e
<1>3. SameDisplays(h, [h EXCEPT !.mons[m] = e])
  BY <1>1, OneDisplayChanged DEF SameDisplays
<1> QED
  BY <1>1, <1>2, <1>3 DEF SameDisplays

LEMMA AddKeeps ==
  ASSUME IsManager(mgr), NEW m
  PROVE  SameDisplays(mgr, AddSpace(m))
<1> DEFINE e == [mgr.mons[m] EXCEPT !.spaces = Append(mgr.mons[m].spaces, <<>>)]
<1>1. AddSpace(m) = [mgr EXCEPT !.mons[m] = e]
  BY DEF AddSpace
<1> HIDE DEF e
<1> QED
  BY <1>1, OneDisplayChanged

LEMMA SwitchKeeps ==
  ASSUME IsManager(mgr), NEW m, NEW s
  PROVE  SameDisplays(mgr, SwitchSpace(m, s))
<1> DEFINE e == [mgr.mons[m] EXCEPT !.current = s]
<1>1. SwitchSpace(m, s) = [mgr EXCEPT !.mons[m] = e]
  BY DEF SwitchSpace
<1> HIDE DEF e
<1> QED
  BY <1>1, OneDisplayChanged

LEMMA ReorderKeeps ==
  ASSUME IsManager(mgr), NEW m, NEW from, NEW to
  PROVE  SameDisplays(mgr, ReorderSpace(m, from, to))
<1> DEFINE d == mgr.mons[m]
           e == [spaces  |-> InsertAt(RemoveAt(d.spaces, from), to, d.spaces[from]),
                 current |-> RemapAfterReorder(d.current, from, to)]
<1>1. ReorderSpace(m, from, to) = [mgr EXCEPT !.mons[m] = e]
  BY DEF ReorderSpace
<1> HIDE DEF e
<1> QED
  BY <1>1, OneDisplayChanged

LEMMA RemoveKeeps ==
  ASSUME IsManager(mgr), NEW m, NEW s
  PROVE  SameDisplays(mgr, RemoveSpace(m, s))
<1> DEFINE heir == IF s = 1 THEN 2 ELSE s - 1
           wins == WinsOn(mgr, m, s)
           kept == SelectSeq(wins, LAMBDA w : w \in live)
           h == Untracked(mgr, ToSet(wins) \ live)
           e == [h.mons[m] EXCEPT !.spaces[heir] = h.mons[m].spaces[heir] \o kept]
           k == [h EXCEPT !.mons[m] = e]
           d == [spaces  |-> RemoveAt(k.mons[m].spaces, s),
                 current |-> RemapAfterRemoval(k.mons[m].current, s)]
<1>1. SameDisplays(mgr, h)
  BY UntrackedKeeps
<1>2. RemoveSpace(m, s) = [k EXCEPT !.mons[m] = d]
  BY DEF RemoveSpace
<1> HIDE DEF h, e, d
<1>3. SameDisplays(h, k)
  BY <1>1, OneDisplayChanged DEF SameDisplays
<1> HIDE DEF k
<1>4. SameDisplays(k, [k EXCEPT !.mons[m] = d])
  BY <1>3, OneDisplayChanged DEF SameDisplays
<1> QED
  BY <1>1, <1>2, <1>3, <1>4 DEF SameDisplays

LEMMA ToggleKeeps ==
  ASSUME IsManager(mgr), NEW w
  PROVE  SameDisplays(mgr, ToggleSticky(w))
<1>1. CASE w \notin live \cap Tracked(mgr)
  BY <1>1 DEF ToggleSticky, SameDisplays
<1>2. CASE w \in live \cap Tracked(mgr) /\ w \notin mgr.pinned
  <2>1. ToggleSticky(w) = [mgr EXCEPT !.pinned = mgr.pinned \cup {w}]
    BY <1>2 DEF ToggleSticky
  <2> QED
    BY <2>1, PinnedChanged
<1>3. CASE w \in live \cap Tracked(mgr) /\ w \in mgr.pinned
  <2> DEFINE g == [mgr EXCEPT !.pinned = mgr.pinned \ {w}]
             m == (CHOOSE p \in Homes(mgr, w) : TRUE)[1]
             s == mgr.mons[m].current
  <2>1. SameDisplays(mgr, g)
    BY PinnedChanged
  <2>2. ToggleSticky(w) = IF Contains(WinsOn(mgr, m, s), w) THEN g
                          ELSE TrackWindow(g, w, m, s)
    BY <1>3 DEF ToggleSticky
  <2> HIDE DEF g, m, s
  <2>3. SameDisplays(g, TrackWindow(g, w, m, s))
    BY <2>1, TrackKeeps DEF SameDisplays
  <2> QED
    BY <2>1, <2>2, <2>3 DEF SameDisplays
<1> QED
  BY <1>1, <1>2, <1>3

-----------------------------------------------------------------------------
\* What a call into the daemon leaves, when it is made with the overlay o.

Ready(o) == IsOverlay(o) /\ IsManager(mgr) /\ Drawn(o, mgr, live, stale)

Answered(o) ==
  /\ IsOverlay(ov') /\ IsManager(mgr') /\ Drawn(ov', mgr', live, stale')
  /\ ov' = o \/ (ov'.visible = o.visible /\ Unpressed(ov'))

LEMMA ToldOverview ==
  ASSUME NEW o, Ready(o), NEW g, SameDisplays(mgr, g), TellOverview(o, g)
  PROVE  Answered(o)
<1>1. IsManager(mgr') /\ Len(mgr'.mons) = Len(mgr.mons)
  BY DEF TellOverview, SameDisplays
<1>2. CASE Refreshes(o, g)
  <2>1. /\ IsOverlay(ov') /\ ov'.visible = o.visible /\ ov'.mon = o.mon
        /\ Shows(ov', mgr', live) /\ Unpressed(ov')
    BY <1>2, RefreshFields DEF TellOverview, Ready
  <2>2. ov'.mon <= Len(mgr'.mons)
    BY <1>2, <2>1 DEF Refreshes, TellOverview
  <2> QED
    BY <1>1, <2>1, <2>2 DEF Answered, Drawn
<1>3. CASE ~Refreshes(o, g)
  <2>1. ov' = o
    BY <1>3 DEF TellOverview, Refresh
  <2>2. ~stale' => ~stale
    BY <1>3 DEF TellOverview
  <2>3. o.visible => stale
    BY <1>3, SameDisplays(mgr, g) DEF Refreshes, Ready, Drawn, SameDisplays
  <2> QED
    BY <1>1, <2>1, <2>2, <2>3 DEF Answered, Drawn, Ready
<1> QED
  BY <1>2, <1>3

LEMMA ToldNobody ==
  ASSUME NEW o, Ready(o), TellNobody(o)
  PROVE  Answered(o) /\ ov' = o
  BY DEF Ready, TellNobody, Answered

LEMMA HostAdds ==
  ASSUME NEW o, Ready(o), NEW m, HostAddSpace(o, m)
  PROVE  Answered(o)
<1>1. CASE CanAdd(m)
  BY <1>1, AddKeeps, ToldOverview DEF HostAddSpace, Ready
<1>2. CASE ~CanAdd(m)
  BY <1>2, ToldNobody DEF HostAddSpace
<1> QED
  BY <1>1, <1>2

LEMMA HostRemoves ==
  ASSUME NEW o, Ready(o), NEW m, NEW s, HostRemoveSpace(o, m, s)
  PROVE  Answered(o)
<1>1. CASE CanRemove(m) /\ s \in DOMAIN mgr.mons[m].spaces
  BY <1>1, RemoveKeeps, ToldOverview DEF HostRemoveSpace, Ready
<1>2. CASE ~(CanRemove(m) /\ s \in DOMAIN mgr.mons[m].spaces)
  BY <1>2, ToldNobody DEF HostRemoveSpace
<1> QED
  BY <1>1, <1>2

LEMMA HostReorders ==
  ASSUME NEW o, Ready(o), NEW m, NEW from, NEW to, HostReorderSpace(o, m, from, to)
  PROVE  Answered(o)
<1>1. CASE CanReorder(m, from, to)
  BY <1>1, ReorderKeeps, ToldOverview DEF HostReorderSpace, Ready
<1>2. CASE ~CanReorder(m, from, to)
  BY <1>2, ToldNobody DEF HostReorderSpace
<1> QED
  BY <1>1, <1>2

LEMMA HostSwitches ==
  ASSUME NEW o, Ready(o), NEW m, NEW s, HostSwitchSpace(o, m, s)
  PROVE  Answered(o)
<1> DEFINE acts_on == Attached(m) /\ s \in DOMAIN mgr.mons[m].spaces /\ s # mgr.mons[m].current
<1>1. CASE acts_on
  BY <1>1, SwitchKeeps, ToldOverview DEF HostSwitchSpace, Ready
<1>2. CASE ~acts_on
  BY <1>2, ToldNobody DEF HostSwitchSpace
<1> QED
  BY <1>1, <1>2

LEMMA HostMoves ==
  ASSUME NEW o, Ready(o), NEW w, NEW m, NEW s, HostMoveWindow(o, w, m, s)
  PROVE  Answered(o)
<1>1. PICK n \in DOMAIN mgr.mons :
        LET last == Len(mgr.mons[n].spaces)
        IN  TellOverview(o, TrackWindow(mgr, w, n, IF s <= last THEN s ELSE last))
  BY DEF HostMoveWindow
<1> DEFINE t == IF s <= Len(mgr.mons[n].spaces) THEN s ELSE Len(mgr.mons[n].spaces)
<1>2. TellOverview(o, TrackWindow(mgr, w, n, t))
  BY <1>1
<1> HIDE DEF t
<1>3. SameDisplays(mgr, TrackWindow(mgr, w, n, t))
  BY TrackKeeps DEF Ready
<1> QED
  BY <1>2, <1>3, ToldOverview

LEMMA HostMakesSpace ==
  ASSUME NEW o, Ready(o), NEW w, NEW m, HostNewSpaceWith(o, w, m)
  PROVE  Answered(o)
<1>1. CASE CanAdd(m)
  <2> DEFINE g == AddSpace(m)
             s == Len(g.mons[m].spaces)
  <2>1. TellOverview(o, TrackWindow(g, w, m, s))
    BY <1>1 DEF HostNewSpaceWith
  <2>2. SameDisplays(mgr, g)
    BY AddKeeps DEF Ready
  <2> HIDE DEF g, s
  <2>3. SameDisplays(g, TrackWindow(g, w, m, s))
    BY <2>2, TrackKeeps DEF SameDisplays
  <2>4. SameDisplays(mgr, TrackWindow(g, w, m, s))
    BY <2>2, <2>3 DEF SameDisplays
  <2> QED
    BY <2>1, <2>4, ToldOverview
<1>2. CASE ~CanAdd(m)
  <2>1. TellOverview(o, mgr) /\ SameDisplays(mgr, mgr)
    BY <1>2 DEF HostNewSpaceWith, Ready, SameDisplays
  <2> QED
    BY <2>1, ToldOverview
<1> QED
  BY <1>1, <1>2

LEMMA HostToggles ==
  ASSUME NEW o, Ready(o), NEW w, HostToggleSticky(o, w)
  PROVE  Answered(o)
<1>1. SameDisplays(mgr, ToggleSticky(w))
  BY ToggleKeeps DEF Ready
<1> QED
  BY <1>1, ToldOverview DEF HostToggleSticky

-----------------------------------------------------------------------------
\* The steps.

\* Nothing is pressed once the button is up.
LEMMA ButtonUp ==
  ASSUME OverviewInv, ~button
  PROVE  Unpressed(ov)
  BY DEF OverviewInv, PressesHoldCapture, Unpressed

LEMMA ReadyNow ==
  ASSUME OverviewInv
  PROVE  Ready(ov)
  BY DEF OverviewInv, Ready

LEMMA ReadyDisarmed ==
  ASSUME OverviewInv
  PROVE  Ready(Disarmed) /\ Unpressed(Disarmed)
<1>1. IsOverlay(ov) /\ IsManager(mgr) /\ Drawn(ov, mgr, live, stale)
  BY DEF OverviewInv
<1> DEFINE o == Disarmed
<1>2. /\ IsOverlay(o) /\ o.visible = ov.visible /\ o.mon = ov.mon /\ Unpressed(o)
      /\ Shows(ov, mgr, live) => Shows(o, mgr, live)
  BY <1>1, CaptureChangedFields DEF Disarmed
<1> HIDE DEF o
<1>3. Ready(o)
  BY <1>1, <1>2 DEF Ready, Drawn
<1> QED
  BY <1>2, <1>3 DEF o

\* A step that leaves the drawing sound and nothing pressed.
LEMMA NothingPressed ==
  ASSUME IsOverlay(ov'), IsManager(mgr'), Drawn(ov', mgr', live', stale'), Unpressed(ov'),
         ReleaseActsOnPressed'
  PROVE  OverviewInv'
  BY DEF OverviewInv, Unpressed, PressesHoldCapture, PressesInRange, PressedIsMeant

\* A step that leaves the press alone, or ends it.
LEMMA PressKept ==
  ASSUME OverviewInv, Answered(ov), ReleaseActsOnPressed',
         live' = live, capture' = capture, button' = button, meant' = meant
  PROVE  OverviewInv'
<1>1. IsOverlay(ov') /\ IsManager(mgr') /\ Drawn(ov', mgr', live', stale')
  BY DEF Answered
<1>2. CASE Unpressed(ov')
  BY <1>1, <1>2, NothingPressed
<1>3. CASE ov' = ov
  BY <1>1, <1>3 DEF OverviewInv, PressesHoldCapture, PressesInRange, PressedIsMeant
<1> QED
  BY <1>2, <1>3 DEF Answered

LEMMA NoDeed ==
  ASSUME deed' = None
  PROVE  ReleaseActsOnPressed'
  BY DEF ReleaseActsOnPressed

LEMMA PressSteps ==
  ASSUME OverviewInv, PressNext
  PROVE  OverviewInv'
<1> USE DEF Pressing, Quiet
<1>1. ~button /\ ov.visible /\ button' = TRUE /\ deed' = None /\ live' = live
  BY DEF PressNext, PressPlus, PressBackdrop, PressSpaceClose, PressSpace, PressPin,
         PressClose, PressCard
<1>2. Unpressed(ov) /\ ReleaseActsOnPressed' /\ Ready(ov)
  BY <1>1, ButtonUp, NoDeed, ReadyNow
<1>3. ASSUME Answered(ov) PROVE OverviewInv'
  BY <1>1, <1>2, <1>3, NothingPressed DEF Answered, Unpressed
<1>4. CASE PressPlus
  BY <1>2, <1>3, <1>4, HostAdds DEF PressPlus
<1>5. CASE PressBackdrop
  <2>1. IsOverlay(ov') /\ ~ov'.visible /\ Unpressed(ov') /\ mgr' = mgr
    BY <1>5, HideFields DEF PressBackdrop
  <2> QED
    BY <1>2, <2>1, NothingPressed DEF Drawn, Ready
<1> DEFINE Armed == /\ IsOverlay(ov') /\ ov'.visible = ov.visible /\ ov'.mon = ov.mon
                    /\ ov'.space = ov.space /\ ov'.spaces = ov.spaces
                    /\ ov'.plus = ov.plus /\ ov'.cards = ov.cards
<1>6. ASSUME Armed, mgr' = mgr, stale' = stale, capture' = TRUE,
             PressesInRange', PressedIsMeant'
      PROVE  OverviewInv'
  <2>1. Drawn(ov', mgr', live', stale')
    BY <1>1, <1>2, <1>6 DEF Ready, Drawn, Shows
  <2>2. PressesHoldCapture'
    BY <1>1, <1>6 DEF PressesHoldCapture
  <2> QED
    BY <1>2, <1>6, <2>1, <2>2 DEF OverviewInv, Ready
<1>7. ASSUME NEW i \in 1..MaxSpaces, PressSpaceClose(i) PROVE OverviewInv'
  BY <1>2, <1>3, <1>7, HostRemoves DEF PressSpaceClose
<1>8. ASSUME NEW i \in 1..MaxSpaces, PressSpace(i) PROVE OverviewInv'
  <2>1. /\ ov' = [ov EXCEPT !.spc = i, !.spcLive = FALSE, !.slot = i] /\ i <= ov.spaces
        /\ capture' = TRUE /\ mgr' = mgr /\ stale' = stale
    BY <1>8 DEF PressSpace, Arm
  <2>2. Armed /\ ov'.spc = i /\ ov'.slot = i /\ ov'.close = ov.close /\ ov'.win = ov.win
    BY <1>2, <2>1 DEF IsOverlay, Ready
  <2>3. PressesInRange' /\ PressedIsMeant'
    BY <1>2, <2>1, <2>2 DEF PressesInRange, PressedIsMeant, Unpressed
  <2> QED
    BY <1>6, <2>1, <2>2, <2>3
<1>9. ASSUME NEW i \in DOMAIN ov.cards, PressPin(i) PROVE OverviewInv'
  <2>1. /\ ov' = [ov EXCEPT !.pin = i]
        /\ capture' = TRUE /\ mgr' = mgr /\ stale' = stale
    BY <1>9 DEF PressPin, Arm
  <2>2. Armed /\ Unpressed(ov')
    BY <1>2, <2>1 DEF IsOverlay, Ready, Unpressed
  <2>3. PressesInRange' /\ PressedIsMeant'
    BY <2>2 DEF PressesInRange, PressedIsMeant, Unpressed
  <2> QED
    BY <1>6, <2>1, <2>2, <2>3
<1>10. ASSUME NEW i \in DOMAIN ov.cards, PressClose(i) PROVE OverviewInv'
  <2>1. /\ ov' = [ov EXCEPT !.close = i] /\ meant' = [what |-> "close", on |-> ov.cards[i]]
        /\ capture' = TRUE /\ mgr' = mgr /\ stale' = stale
    BY <1>10 DEF PressClose, Arm, MeantWindow
  <2>2. Armed /\ ov'.close = i /\ ov'.win = 0 /\ ov'.spc = 0
    BY <1>2, <2>1 DEF IsOverlay, Ready, Unpressed
  <2>3. PressesInRange' /\ PressedIsMeant'
    BY <2>1, <2>2 DEF PressesInRange, PressedIsMeant
  <2> QED
    BY <1>6, <2>1, <2>2, <2>3
<1>11. ASSUME NEW i \in DOMAIN ov.cards, PressCard(i) PROVE OverviewInv'
  <2>1. /\ ov' = [ov EXCEPT !.win = i, !.winLive = FALSE]
        /\ meant' = [what |-> "card", on |-> ov.cards[i]]
        /\ capture' = TRUE /\ mgr' = mgr /\ stale' = stale
    BY <1>11 DEF PressCard, Arm, MeantWindow
  <2>2. Armed /\ ov'.win = i /\ ov'.close = 0 /\ ov'.spc = 0
    BY <1>2, <2>1 DEF IsOverlay, Ready, Unpressed
  <2>3. PressesInRange' /\ PressedIsMeant'
    BY <2>1, <2>2 DEF PressesInRange, PressedIsMeant
  <2> QED
    BY <1>6, <2>1, <2>2, <2>3
<1> QED
  BY <1>4, <1>5, <1>7, <1>8, <1>9, <1>10, <1>11 DEF PressNext

\* A release disarms everything before it acts, so that only its deed is left
\* to look at: what it acts on was pressed.
LEMMA ReleaseSteps ==
  ASSUME OverviewInv, ReleaseNext
  PROVE  OverviewInv'
<1>1. Ready(Disarmed) /\ Unpressed(Disarmed)
  BY ReadyDisarmed
<1>2. ASSUME Releasing, Answered(Disarmed), ReleaseActsOnPressed' PROVE OverviewInv'
  BY <1>1, <1>2, NothingPressed DEF Answered, Releasing
<1>3. ASSUME Releasing, NothingElse PROVE OverviewInv'
  <2>1. ReleaseActsOnPressed'
    BY <1>3, NoDeed DEF NothingElse
  <2> QED
    BY <1>1, <1>2, <1>3, <2>1, ToldNobody DEF NothingElse
<1>4. ASSUME NEW what, NEW on, Did(what, on), meant = [what |-> what, on |-> on]
      PROVE  ReleaseActsOnPressed'
  <2>1. deed'.what = what /\ deed'.on = on /\ deed'.meant = [what |-> what, on |-> on]
    BY <1>4 DEF Did
  <2> QED
    BY <2>1 DEF ReleaseActsOnPressed
<1>5. CASE ReleasePin
  <2>1. Releasing
    BY <1>5 DEF ReleasePin
  <2>2. CASE HostToggleSticky(Disarmed, ov.cards[ov.pin]) /\ Did("pin", ov.cards[ov.pin])
    <3>1. deed'.what = "pin"
      BY <2>2 DEF Did
    <3> QED
      BY <1>1, <1>2, <2>1, <2>2, <3>1, HostToggles DEF ReleaseActsOnPressed
  <2> QED
    BY <1>3, <1>5, <2>1, <2>2 DEF ReleasePin
<1>6. CASE ReleaseClose
  <2>1. Releasing /\ ov.close # 0
    BY <1>6 DEF ReleaseClose
  <2>2. CASE HostCloseWindow(Disarmed) /\ Did("close", ov.cards[ov.close])
    <3>1. meant = [what |-> "close", on |-> ov.cards[ov.close]]
      BY <2>1 DEF OverviewInv, PressedIsMeant
    <3>2. ReleaseActsOnPressed'
      BY <1>4, <2>2, <3>1
    <3> QED
      BY <1>1, <1>2, <2>1, <2>2, <3>2, ToldNobody DEF HostCloseWindow
  <2> QED
    BY <1>3, <1>6, <2>1, <2>2 DEF ReleaseClose
<1>7. CASE ReleaseSpace
  <2>1. Releasing
    BY <1>7 DEF ReleaseSpace
  <2>2. \/ HostReorderSpace(Disarmed, ov.mon, ov.spc, ov.slot) /\ Quiet
        \/ HostSwitchSpace(Disarmed, ov.mon, ov.spc) /\ Quiet
        \/ NothingElse
    BY <1>7 DEF ReleaseSpace
  <2>3. CASE HostReorderSpace(Disarmed, ov.mon, ov.spc, ov.slot) /\ Quiet
    BY <1>1, <1>2, <2>1, <2>3, HostReorders, NoDeed DEF Quiet
  <2>4. CASE HostSwitchSpace(Disarmed, ov.mon, ov.spc) /\ Quiet
    BY <1>1, <1>2, <2>1, <2>4, HostSwitches, NoDeed DEF Quiet
  <2> QED
    BY <1>3, <2>1, <2>2, <2>3, <2>4
<1>8. CASE ReleaseCard
  <2> DEFINE w == ov.cards[ov.win]
  <2>1. Releasing /\ ov.win # 0
    BY <1>8 DEF ReleaseCard
  <2>2. meant = [what |-> "card", on |-> w]
    BY <2>1 DEF OverviewInv, PressedIsMeant
  <2>3. \/ HostNewSpaceWith(Disarmed, w, ov.mon) /\ Did("card", w)
        \/ \E s \in 1 .. ov.spaces : HostMoveWindow(Disarmed, w, ov.mon, s) /\ Did("card", w)
        \/ TellNobody(HideOverview(Disarmed)) /\ Did("card", w)
        \/ NothingElse
    BY <1>8 DEF ReleaseCard
  <2> HIDE DEF w
  <2>4. ASSUME Did("card", w) PROVE ReleaseActsOnPressed'
    BY <1>4, <2>2, <2>4
  <2>5. CASE HostNewSpaceWith(Disarmed, w, ov.mon) /\ Did("card", w)
    BY <1>1, <1>2, <2>1, <2>4, <2>5, HostMakesSpace
  <2>6. ASSUME NEW s \in 1 .. ov.spaces,
               HostMoveWindow(Disarmed, w, ov.mon, s), Did("card", w)
        PROVE  OverviewInv'
    BY <1>1, <1>2, <2>1, <2>4, <2>6, HostMoves
  <2>7. CASE TellNobody(HideOverview(Disarmed)) /\ Did("card", w)
    <3>1. IsOverlay(ov') /\ ~ov'.visible /\ Unpressed(ov') /\ mgr' = mgr
      BY <2>7, HideFields DEF TellNobody
    <3> QED
      BY <1>1, <2>4, <2>7, <3>1, NothingPressed DEF Drawn, Ready
  <2> QED
    BY <1>3, <2>1, <2>3, <2>5, <2>6, <2>7
<1>9. CASE ReleaseNothing
  BY <1>3, <1>9 DEF ReleaseNothing
<1>10. CASE ReleaseElsewhere
  <2>1. Unpressed(ov)
    BY <1>10 DEF OverviewInv, PressesHoldCapture, Unpressed, ReleaseElsewhere
  <2>2. ReleaseActsOnPressed'
    BY <1>10, NoDeed DEF ReleaseElsewhere, Quiet
  <2> QED
    BY <1>10, <2>1, <2>2, NothingPressed DEF ReleaseElsewhere, OverviewInv
<1> QED
  BY <1>5, <1>6, <1>7, <1>8, <1>9, <1>10 DEF ReleaseNext

\* A drag, a key or a theft of the capture.
LEMMA KeySteps ==
  ASSUME OverviewInv, KeyNext
  PROVE  OverviewInv'
<1>1. Gesture
  BY DEF KeyNext, Escape, DragWindow, CaptureStolen, DragSpace, KeyReorder, KeyDigit, KeyPin
<1>2. /\ deed' = None /\ live' = live /\ button' = button /\ meant' = meant
      /\ ReleaseActsOnPressed' /\ Ready(ov)
  BY <1>1, NoDeed, ReadyNow DEF Gesture, Quiet
<1>3. ASSUME Answered(ov), capture' = capture PROVE OverviewInv'
  BY <1>2, <1>3, PressKept
<1>4. ASSUME ov' = CaptureChanged(ov), mgr' = mgr, stale' = stale PROVE OverviewInv'
  <2>1. Ready(Disarmed) /\ Unpressed(Disarmed) /\ ov' = Disarmed
    BY <1>4, ReadyDisarmed DEF Disarmed
  <2> QED
    BY <1>2, <1>4, <2>1, NothingPressed DEF Ready
<1>5. ASSUME ov' = HideOverview(ov), mgr' = mgr PROVE OverviewInv'
  <2>1. IsOverlay(ov') /\ ~ov'.visible /\ Unpressed(ov')
    BY <1>5, HideFields
  <2> QED
    BY <1>2, <1>5, <2>1, NothingPressed DEF Drawn, Ready
<1> DEFINE Dragged == /\ IsOverlay(ov') /\ ov'.visible = ov.visible /\ ov'.mon = ov.mon
                      /\ ov'.space = ov.space /\ ov'.spaces = ov.spaces
                      /\ ov'.plus = ov.plus /\ ov'.cards = ov.cards
                      /\ ov'.close = ov.close /\ ov'.win = ov.win /\ ov'.spc = ov.spc
<1>6. ASSUME Dragged, mgr' = mgr, stale' = stale, capture' = capture,
             ov'.spc # 0 => ov'.slot \in 1 .. ov'.spaces
      PROVE  OverviewInv'
  <2>1. Drawn(ov', mgr', live', stale')
    BY <1>2, <1>6 DEF Ready, Drawn, Shows
  <2>2. PressesHoldCapture' /\ PressesInRange' /\ PressedIsMeant'
    BY <1>2, <1>6 DEF OverviewInv, PressesHoldCapture, PressesInRange, PressedIsMeant
  <2> QED
    BY <1>2, <1>6, <2>1, <2>2 DEF OverviewInv, Ready
<1>7. CASE Escape
  <2>1. mgr' = mgr /\ stale' = stale /\ (ov' = CaptureChanged(ov) \/ ov' = HideOverview(ov))
    BY <1>7 DEF Escape
  <2> QED
    BY <1>4, <1>5, <2>1
<1>8. CASE DragWindow
  <2>1. ov' = [ov EXCEPT !.winLive = TRUE] /\ mgr' = mgr /\ stale' = stale /\ capture' = capture
    BY <1>8 DEF DragWindow
  <2>2. Dragged /\ ov'.slot = ov.slot
    BY <1>2, <2>1 DEF IsOverlay, Ready
  <2>3. ov'.spc # 0 => ov'.slot \in 1 .. ov'.spaces
    BY <2>2 DEF OverviewInv, PressesInRange
  <2> QED
    BY <1>6, <2>1, <2>2, <2>3
<1>9. CASE CaptureStolen
  BY <1>4, <1>9 DEF CaptureStolen
<1>10. ASSUME NEW s \in 1 .. MaxSpaces, DragSpace(s) PROVE OverviewInv'
  <2>1. /\ ov' = [ov EXCEPT !.spcLive = TRUE, !.slot = s] /\ s <= ov.spaces
        /\ mgr' = mgr /\ stale' = stale /\ capture' = capture
    BY <1>10 DEF DragSpace
  <2>2. Dragged /\ ov'.slot = s
    BY <1>2, <2>1 DEF IsOverlay, Ready
  <2>3. ov'.spc # 0 => ov'.slot \in 1 .. ov'.spaces
    <3>1. ov.spc # 0 => ov.slot \in 1 .. ov.spaces /\ ov.spc \in 1 .. ov.spaces
      BY DEF OverviewInv, PressesInRange
    <3> QED
      BY <2>1, <2>2, <3>1
  <2> QED
    BY <1>6, <2>1, <2>2, <2>3
<1>11. ASSUME NEW s \in 1 .. MaxSpaces, KeyReorder(s) PROVE OverviewInv'
  BY <1>2, <1>3, <1>11, HostReorders DEF KeyReorder
<1>12. ASSUME NEW s \in 1 .. MaxSpaces, KeyDigit(s) PROVE OverviewInv'
  BY <1>2, <1>3, <1>12, HostSwitches DEF KeyDigit
<1>13. ASSUME NEW i \in DOMAIN ov.cards, KeyPin(i) PROVE OverviewInv'
  BY <1>2, <1>3, <1>13, HostToggles DEF KeyPin
<1> QED
  BY <1>7, <1>8, <1>9, <1>10, <1>11, <1>12, <1>13 DEF KeyNext

\* A toggle, a hotkey, the tray, the shell or a timer.
LEMMA DaemonSteps ==
  ASSUME OverviewInv, DaemonNext
  PROVE  OverviewInv'
<1>1. Ready(ov) /\ IsOverlay(ov) /\ IsManager(mgr)
  BY ReadyNow DEF Ready
<1>2. ASSUME Answered(ov), deed' = None, live' = live, capture' = capture,
             button' = button, meant' = meant
      PROVE  OverviewInv'
  BY <1>2, NoDeed, PressKept
<1>3. CASE CloseVerify
  <2>1. SameDisplays(mgr, Untracked(mgr, Windows \ live))
    BY <1>1, UntrackedKeeps
  <2> QED
    BY <1>1, <1>2, <1>3, <2>1, ToldOverview DEF CloseVerify, Quiet
<1>4. ASSUME NEW w \in Windows, WindowDestroyed(w) PROVE OverviewInv'
  <2>1. SameDisplays(mgr, Untracked(mgr, {w}))
    BY <1>1, UntrackedKeeps
  <2> QED
    BY <1>1, <1>2, <1>4, <2>1, ToldOverview DEF WindowDestroyed, Quiet
<1>5. ASSUME NEW m \in 1 .. MaxDisplays, Toggle(m) PROVE OverviewInv'
  <2>1. ReleaseActsOnPressed' /\ live' = live
    BY <1>5, NoDeed DEF Toggle, Gesture, Quiet
  <2>2. CASE ov.visible
    <3>1. ov' = HideOverview(ov) /\ mgr' = mgr
      BY <1>5, <2>2 DEF Toggle
    <3>2. IsOverlay(ov') /\ ~ov'.visible /\ Unpressed(ov')
      BY <3>1, HideFields
    <3> QED
      BY <1>1, <2>1, <3>1, <3>2, NothingPressed DEF Drawn
  <2>3. ~ov.visible => /\ mgr' = Scanned(mgr, m) /\ m <= Len(mgr.mons)
                       /\ \/ ov' = ShowOverview(ov, mgr', m)
                          \/ ov' = ov /\ stale' = stale /\ capture' = capture
    BY <1>5 DEF Toggle, Scan, Attached
  <2>4. CASE ~ov.visible /\ ov' = ShowOverview(ov, mgr', m)
    <3>1. ov' = ShowOverview(ov, mgr', m) /\ mgr' = Scanned(mgr, m) /\ m <= Len(mgr.mons)
      BY <2>3, <2>4
    <3>2. SameDisplays(mgr, mgr')
      BY <1>1, <3>1, ScannedKeeps
    <3>3. IsOverlay(ov') /\ ov'.mon = m /\ Shows(ov', mgr', live) /\ Unpressed(ov')
      <4> DEFINE g == Scanned(mgr, m)
      <4>1. /\ IsOverlay(ShowOverview(ov, g, m)) /\ ShowOverview(ov, g, m).mon = m
            /\ Shows(ShowOverview(ov, g, m), g, live) /\ Unpressed(ShowOverview(ov, g, m))
        BY <1>1, ShowFields
      <4> QED
        BY <3>1, <4>1
    <3>4. Drawn(ov', mgr', live', stale')
      BY <2>1, <3>1, <3>2, <3>3 DEF Drawn, SameDisplays
    <3> QED
      BY <2>1, <3>2, <3>3, <3>4, NothingPressed DEF SameDisplays
  <2>5. CASE ~ov.visible /\ ov' = ov /\ stale' = stale /\ capture' = capture
    <3>1. IsManager(mgr')
      BY <1>1, <2>3, <2>5, ScannedKeeps DEF SameDisplays
    <3>2. Answered(ov)
      BY <1>1, <2>5, <3>1 DEF Answered, Drawn
    <3> QED
      BY <1>2, <1>5, <2>5, <3>2 DEF Toggle, Gesture, Quiet
  <2> QED
    BY <2>2, <2>3, <2>4, <2>5
<1>6. ASSUME NEW m \in 1 .. MaxDisplays, TrayAddSpace(m) PROVE OverviewInv'
  BY <1>1, <1>2, <1>6, HostAdds DEF TrayAddSpace, Gesture, Quiet
<1>7. ASSUME NEW m \in 1 .. MaxDisplays, NEW s \in 1 .. MaxSpaces, TrayRemoveSpace(m, s)
      PROVE  OverviewInv'
  BY <1>1, <1>2, <1>7, HostRemoves DEF TrayRemoveSpace, Gesture, Quiet
<1>8. ASSUME NEW m \in 1 .. MaxDisplays, NEW s \in 1 .. MaxSpaces, SwitchHotkey(m, s)
      PROVE  OverviewInv'
  <2>1. SameDisplays(mgr, SwitchSpace(m, s))
    BY <1>1, SwitchKeeps
  <2> QED
    BY <1>1, <1>2, <1>8, <2>1, ToldOverview DEF SwitchHotkey, Gesture, Quiet
<1>9. ASSUME Behind, IsManager(mgr') PROVE OverviewInv'
  <2>1. ReleaseActsOnPressed'
    BY <1>9, NoDeed DEF Behind, Quiet
  <2> QED
    BY <1>1, <1>9, <2>1 DEF Behind, OverviewInv, Drawn, PressesHoldCapture, PressesInRange,
                            PressedIsMeant
<1>10. ASSUME NEW m \in 1 .. MaxDisplays, WindowCreated(m) PROVE OverviewInv'
  <2>1. mgr' = Scanned(mgr, m) /\ Behind
    BY <1>10 DEF WindowCreated, Scan
  <2>2. IsManager(mgr')
    BY <1>1, <2>1, ScannedKeeps DEF SameDisplays
  <2> QED
    BY <1>9, <2>1, <2>2
<1>11. ASSUME NEW m \in 1 .. MaxDisplays, NEW s \in 1 .. MaxSpaces, Activated(m, s)
       PROVE  OverviewInv'
  <2>1. mgr' = SwitchSpace(m, s) /\ Behind
    BY <1>11 DEF Activated
  <2>2. IsManager(mgr')
    BY <1>1, <2>1, SwitchKeeps DEF SameDisplays
  <2> QED
    BY <1>9, <2>1, <2>2
<1> QED
  BY <1>3, <1>4, <1>5, <1>6, <1>7, <1>8, <1>10, <1>11 DEF DaemonNext

\* What changes behind the overlay leaves the press, and makes the drawing late.
LEMMA OutsideSteps ==
  ASSUME OverviewInv, Outside
  PROVE  OverviewInv'
<1>1. IsManager(mgr)
  BY DEF OverviewInv
<1>2. Behind
  BY DEF Outside, DisplayLost, DisplayAttached, OpenWindow, WindowDies
<1>3. ASSUME IsManager(mgr') PROVE OverviewInv'
  <2>1. ReleaseActsOnPressed'
    BY <1>2, NoDeed DEF Behind, Quiet
  <2> QED
    BY <1>2, <1>3, <2>1 DEF Behind, OverviewInv, Drawn, PressesHoldCapture, PressesInRange,
                            PressedIsMeant
<1>4. CASE DisplayLost
  <2>1. PICK m \in 1 .. Len(mgr.mons) - 1 : mgr' = Scanned([mgr EXCEPT !.mons = Front(@)], m)
    BY <1>4 DEF DisplayLost
  <2> DEFINE n == Len(mgr.mons) - 1
             f == [i \in 1..n |-> mgr.mons[i]]
             left == [mons |-> f, pinned |-> mgr.pinned]
  <2>2. n \in Nat
    BY <1>1, <1>4 DEF DisplayLost, IsManager
  <2>3. Front(mgr.mons) = f
    BY <1>1, <2>2 DEF Front, IsManager
  <2>4. [mgr EXCEPT !.mons = Front(@)] = left
    BY <1>1, <2>3 DEF IsManager
  <2>5. IsManager(left)
    BY <2>2, SeqByDomain DEF IsManager
  <2> HIDE DEF left
  <2>6. SameDisplays(left, Scanned(left, m))
    BY <2>5, ScannedKeeps
  <2> QED
    BY <1>3, <2>1, <2>4, <2>6 DEF SameDisplays
<1>5. CASE DisplayAttached
  <2> DEFINE e == OneSpace(<<>>)
             f == Append(mgr.mons, e)
  <2>1. mgr' = [mgr EXCEPT !.mons = f]
    BY <1>5 DEF DisplayAttached
  <2> HIDE DEF e
  <2>2. mgr' = [mons |-> f, pinned |-> mgr.pinned]
    BY <1>1, <2>1 DEF IsManager
  <2>3. /\ Len(mgr.mons) + 1 \in Nat
        /\ f = [i \in 1..(Len(mgr.mons) + 1) |-> f[i]]
    BY <1>1 DEF IsManager
  <2> HIDE DEF f
  <2>4. Len(f) = Len(mgr.mons) + 1
    BY <2>3, SeqByDomain
  <2>5. IsManager(mgr')
    BY <2>2, <2>3, <2>4 DEF IsManager
  <2> QED
    BY <1>3, <2>5
<1>6. ASSUME NEW w \in Windows, OpenWindow(w) \/ WindowDies(w) PROVE OverviewInv'
  BY <1>1, <1>3, <1>6 DEF OpenWindow, WindowDies
<1> QED
  BY <1>4, <1>5, <1>6 DEF Outside

LEMMA InitSound == Init => OverviewInv
<1> SUFFICES ASSUME Init PROVE OverviewInv
  OBVIOUS
<1>1. PICK others \in 0 .. MaxDisplays - 1 :
        mgr = [mons |-> <<OneSpace(SetToSeq(live))>> \o [m \in 1 .. others |-> OneSpace(<<>>)],
               pinned |-> {}]
  BY DEF Init
<1>2. IsManager(mgr)
  <2> DEFINE first == OneSpace(SetToSeq(live))
             rest == [m \in 1 .. others |-> OneSpace(<<>>)]
             f == <<first>> \o rest
  <2>1. others \in Nat
    BY <1>1, OverviewAssumption
  <2>2. rest = [i \in 1 .. others |-> rest[i]]
    OBVIOUS
  <2>3. mgr = [mons |-> f, pinned |-> {}]
    BY <1>1
  <2> HIDE DEF first, rest
  <2>4. Len(rest) = others
    BY <2>1, <2>2, SeqByDomain
  <2>5. f = [i \in 1 .. others + 1 |-> f[i]] /\ others + 1 \in Nat
    BY <2>1, <2>2, <2>4
  <2> HIDE DEF f
  <2>6. Len(f) = others + 1
    BY <2>5, SeqByDomain
  <2> QED
    BY <2>3, <2>5, <2>6 DEF IsManager
<1>3. IsOverlay(Closed) /\ ~Closed.visible /\ Unpressed(Closed)
  <2>1. HideOverview(Closed) = Closed
    <3> DEFINE no == FALSE
    <3>1. no = FALSE
      OBVIOUS
    <3> HIDE DEF no
    <3>2. Closed = [visible |-> no, mon |-> 1, space |-> 1, spaces |-> 0, plus |-> no,
                    cards |-> <<>>, close |-> 0, pin |-> 0, win |-> 0, winLive |-> no,
                    spc |-> 0, spcLive |-> no, slot |-> 0]
      BY <3>1, Zenon DEF Closed
    <3> QED
      BY <3>2 DEF HideOverview
  <2> QED
    BY <2>1, HideFields
<1>4. ov = Closed /\ deed = None
  BY DEF Init
<1>5. Drawn(ov, mgr, live, stale)
  BY <1>3, <1>4 DEF Drawn
<1>6. PressesHoldCapture /\ PressesInRange /\ PressedIsMeant /\ ReleaseActsOnPressed
  BY <1>3, <1>4 DEF Unpressed, PressesHoldCapture, PressesInRange, PressedIsMeant,
                    ReleaseActsOnPressed
<1> QED
  BY <1>2, <1>3, <1>4, <1>5, <1>6 DEF OverviewInv

LEMMA StepSound == OverviewInv /\ [Next]_vars => OverviewInv'
<1> SUFFICES ASSUME OverviewInv, [Next]_vars PROVE OverviewInv'
  OBVIOUS
<1>1. CASE Next
  BY <1>1, PressSteps, ReleaseSteps, KeySteps, DaemonSteps, OutsideSteps DEF Next
<1>2. CASE UNCHANGED vars
  BY <1>2 DEF vars, OverviewInv, Drawn, PressesHoldCapture, PressesInRange,
              PressedIsMeant, ReleaseActsOnPressed
<1> QED
  BY <1>1, <1>2

-----------------------------------------------------------------------------
\* What is drawn is what the spaces are, or they changed behind the overlay;
\* what is pressed is what the button went down on.
THEOREM OverviewAlwaysSound == Spec => []OverviewInv
<1> QED
  BY InitSound, StepSound, PTL DEF Spec

\* A release closes, moves or shows the window the button went down on,
\* whatever rebuilt the cards in between (on_lbuttonup).
THEOREM ReleaseActsOnPressedCorrect == Spec => []ReleaseActsOnPressed
<1>1. OverviewInv => ReleaseActsOnPressed
  BY DEF OverviewInv
<1> QED
  BY <1>1, OverviewAlwaysSound, PTL

\* A press in hand holds the mouse of a visible overlay, whatever hides,
\* refreshes or steals in between (on_lbuttondown, WM_CAPTURECHANGED).
THEOREM PressesHoldCaptureCorrect == Spec => []PressesHoldCapture
<1>1. OverviewInv => PressesHoldCapture
  BY DEF OverviewInv
<1> QED
  BY <1>1, OverviewAlwaysSound, PTL

\* The card a press is about exists: on_lbuttonup indexes window_cards by the
\* press, unchecked, after any number of rebuilds.
THEOREM PressesInRangeCorrect == Spec => []PressesInRange
<1>1. OverviewInv => PressesInRange
  BY DEF OverviewInv
<1> QED
  BY <1>1, OverviewAlwaysSound, PTL

\* The cards are those of the current space unless a window came, went or was
\* activated behind the overlay, or a display changed (refresh_overview).
THEOREM CardsFollowSpacesCorrect == Spec => []CardsFollowSpaces
<1>1. OverviewInv => CardsFollowSpaces
  BY ShownIsRebuilt DEF OverviewInv, CardsFollowSpaces, Drawn
<1> QED
  BY <1>1, OverviewAlwaysSound, PTL
=============================================================================
