------------------------------ MODULE Overview ------------------------------
(***************************************************************************)
(* The overlay (winspaces-ui, overview): its cards, the press, drag and    *)
(* release machine of its window procedure, and the calls it makes into    *)
(* the daemon, on a space manager cut down to what those calls change.     *)
(* The cards are rebuilt whenever the daemon refreshes the overlay, which  *)
(* hotkeys, timers and shell events do in the middle of a press.           *)
(*                                                                         *)
(* A card's place on the screen is its position in the list.  Positions    *)
(* count from 1, and 0 is None.                                            *)
(***************************************************************************)
EXTENDS Naturals, Sequences, SequencesExt

CONSTANTS
    Windows,      \* application windows
    None,         \* no value
    MaxSpaces,    \* MAX_SPACES
    MaxDisplays,  \* bound: displays that are ever attached
    Budget        \* bound: acts of other applications, displays attached or lost

ASSUME OverviewAssumption == /\ MaxSpaces \in Nat \ {0} /\ MaxDisplays \in Nat \ {0}
                             /\ Budget \in Nat

VARIABLES
    mgr,      \* the space manager
    live,     \* windows that exist
    ov,       \* OVERVIEW_STATE
    capture,  \* the overlay has the mouse capture
    button,   \* the mouse button is down
    acts,     \* what is left of Budget
    meant,    \* the window the button went down on, and where on its card
    deed,     \* what the last release did to a window, and what was meant
    stale     \* the spaces changed without a refresh of the cards

vars == <<mgr, live, ov, capture, button, acts, meant, deed, stale>>

\* close, pin: the armed buttons.  win, spc: the card being dragged, which is
\* a drag (winLive, spcLive) once the pointer has travelled.  slot: where the
\* dragged space would land.
Closed == [visible |-> FALSE, mon |-> 1, space |-> 1, spaces |-> 0, plus |-> FALSE,
           cards |-> <<>>, close |-> 0, pin |-> 0, win |-> 0, winLive |-> FALSE,
           spc |-> 0, spcLive |-> FALSE, slot |-> 0]

-----------------------------------------------------------------------------
\* The space manager.

OneSpace(wins) == [spaces |-> <<wins>>, current |-> 1]

Attached(m)   == m <= Len(mgr.mons)
WinsOn(g, m, s) == g.mons[m].spaces[s]

Homes(g, w) == {p \in (1 .. Len(g.mons)) \X (1 .. MaxSpaces) :
                  /\ p[2] <= Len(g.mons[p[1]].spaces)
                  /\ Contains(WinsOn(g, p[1], p[2]), w)}

Tracked(g) == {w \in Windows : Homes(g, w) # {}}

Without(g, W) ==
    [g EXCEPT !.mons = [m \in DOMAIN g.mons |->
        [g.mons[m] EXCEPT !.spaces = [s \in DOMAIN g.mons[m].spaces |->
            SelectSeq(WinsOn(g, m, s), LAMBDA w : w \notin W)]]]]

Untracked(g, W) == [Without(g, W) EXCEPT !.pinned = @ \ W]

\* A move goes to the end of the list; a window that is gone is untracked.
TrackWindow(g, w, m, s) ==
    IF w \in live
    THEN [Without(g, {w}) EXCEPT !.mons[m].spaces[s] = Append(@, w)]
    ELSE Untracked(g, {w})

HasRoom(g, m) == Len(g.mons[m].spaces) < MaxSpaces

CanAdd(m) == Attached(m) /\ HasRoom(mgr, m)

AddSpace(m) == [mgr EXCEPT !.mons[m].spaces = Append(@, <<>>)]

RemapAfterRemoval(idx, removed) ==
    IF idx > removed \/ (idx = removed /\ idx > 1) THEN idx - 1 ELSE idx

CanRemove(m) == Attached(m) /\ Len(mgr.mons[m].spaces) > 1

\* The windows of a removed space go to its left, those of the first to the
\* right, in their order; those that are gone are untracked.
RemoveSpace(m, s) ==
    LET heir  == IF s = 1 THEN 2 ELSE s - 1
        wins  == WinsOn(mgr, m, s)
        moved == [Untracked(mgr, ToSet(wins) \ live) EXCEPT
                      !.mons[m].spaces[heir] = @ \o SelectSeq(wins, LAMBDA w : w \in live)]
    IN  [moved EXCEPT !.mons[m] = [spaces  |-> RemoveAt(@.spaces, s),
                                   current |-> RemapAfterRemoval(@.current, s)]]

RemapAfterReorder(idx, from, to) ==
    IF idx = from THEN to
    ELSE IF from < idx /\ idx <= to THEN idx - 1
    ELSE IF to <= idx /\ idx < from THEN idx + 1
    ELSE idx

ReorderSpace(m, from, to) ==
    [mgr EXCEPT !.mons[m] =
        [spaces  |-> InsertAt(RemoveAt(@.spaces, from), to, @.spaces[from]),
         current |-> RemapAfterReorder(@.current, from, to)]]

SwitchSpace(m, s) == [mgr EXCEPT !.mons[m].current = s]

\* A window that is dead or untracked is left alone; an unpinned one lands
\* where it is seen.
ToggleSticky(w) ==
    IF w \notin live \cap Tracked(mgr) THEN mgr
    ELSE IF w \notin mgr.pinned THEN [mgr EXCEPT !.pinned = @ \cup {w}]
    ELSE LET g == [mgr EXCEPT !.pinned = @ \ {w}]
             m == (CHOOSE p \in Homes(mgr, w) : TRUE)[1]
             s == mgr.mons[m].current
         IN  IF Contains(WinsOn(mgr, m, s), w) THEN g ELSE TrackWindow(g, w, m, s)

\* scan_untracked_windows: the dead are pruned, and windows nobody tracks land
\* on the current space of the display m they are on.
Scanned(g, m) ==
    [Untracked(g, Windows \ live) EXCEPT
        !.mons[m].spaces[g.mons[m].current] = @ \o SetToSeq(live \ Tracked(g))]

Scan(m) == Scanned(mgr, m)

\* windows_for_space: the space's own windows, then the display's other pinned.
WindowsForSpace(g, m, s) ==
    FoldLeft(LAMBDA sofar, t :
                 IF t = s THEN sofar
                 ELSE sofar \o SelectSeq(WinsOn(g, m, t), LAMBDA w : w \in g.pinned),
             WinsOn(g, m, s), [t \in DOMAIN g.mons[m].spaces |-> t])

\* The windows that get a card: those shown on the display that are alive.
CardsOf(g, m, alive) ==
    SelectSeq(WindowsForSpace(g, m, g.mons[m].current), LAMBDA w : w \in alive)

-----------------------------------------------------------------------------
\* The overlay's state.

RebuildCards(o, g, m) ==
    [o EXCEPT !.mon    = m,
              !.space  = g.mons[m].current,
              !.spaces = Len(g.mons[m].spaces),
              !.plus   = HasRoom(g, m),
              !.cards  = CardsOf(g, m, live)]

NoWindowDrag(o) == [o EXCEPT !.win = 0, !.winLive = FALSE]
NoSpaceDrag(o)  == [o EXCEPT !.spc = 0, !.spcLive = FALSE, !.slot = 0]
NoDrags(o)      == NoWindowDrag(NoSpaceDrag(o))

Refreshes(o, g) == o.visible /\ o.mon <= Len(g.mons)

\* Faulty variant: the armed close button is kept.
RefreshKeepingClose(o, g) ==
    IF Refreshes(o, g) THEN NoDrags(RebuildCards(o, g, o.mon)) ELSE o

\* refresh_overview clears every press but the armed pin button.
Refresh(o, g) ==
    IF Refreshes(o, g)
    THEN NoDrags([RebuildCards(o, g, o.mon) EXCEPT !.close = 0]) ELSE o

ShowOverview(o, g, m) ==
    [NoDrags([RebuildCards(o, g, m) EXCEPT !.close = 0]) EXCEPT !.visible = TRUE]

\* Faulty variant: what was pressed is kept.
HideKeepingDrags(o) == [o EXCEPT !.visible = FALSE, !.cards = <<>>, !.spaces = 0, !.close = 0]

\* hide_overview clears every press but the armed pin button.  What the next
\* show overwrites is left at its initial value.
HideOverview(o) == [Closed EXCEPT !.pin = o.pin]

\* WM_CAPTURECHANGED, when no handler holds the state.
CaptureChanged(o) == NoDrags([o EXCEPT !.close = 0, !.pin = 0])

-----------------------------------------------------------------------------
\* What the daemon does for the overlay (hostfns.rs).  o is the overlay as the
\* gesture leaves it; the cards follow the spaces g before the call returns.

TellOverview(o, g) == /\ mgr' = g
                      /\ ov' = Refresh(o, g)
                      /\ stale' = (stale /\ ~Refreshes(o, g))

TellNobody(o) == ov' = o /\ UNCHANGED <<mgr, stale>>

HostAddSpace(o, m) == IF CanAdd(m) THEN TellOverview(o, AddSpace(m)) ELSE TellNobody(o)

HostRemoveSpace(o, m, s) ==
    IF CanRemove(m) /\ s \in DOMAIN mgr.mons[m].spaces
    THEN TellOverview(o, RemoveSpace(m, s)) ELSE TellNobody(o)

CanReorder(m, from, to) == /\ Attached(m) /\ from # to
                           /\ {from, to} \subseteq DOMAIN mgr.mons[m].spaces

\* Faulty variant: the cards are not rebuilt.
HostReorderQuietly(o, m, from, to) ==
    IF CanReorder(m, from, to)
    THEN mgr' = ReorderSpace(m, from, to) /\ ov' = o /\ UNCHANGED stale
    ELSE TellNobody(o)

HostReorderSpace(o, m, from, to) ==
    IF CanReorder(m, from, to) THEN TellOverview(o, ReorderSpace(m, from, to))
    ELSE TellNobody(o)

HostSwitchSpace(o, m, s) ==
    IF Attached(m) /\ s \in DOMAIN mgr.mons[m].spaces /\ s # mgr.mons[m].current
    THEN TellOverview(o, SwitchSpace(m, s)) ELSE TellNobody(o)

\* A display that has gone is replaced by the one the window is on, and a
\* space past the last by the last.
HostMoveWindow(o, w, m, s) ==
    \E n \in DOMAIN mgr.mons :
        /\ Attached(m) => n = m
        /\ LET last == Len(mgr.mons[n].spaces)
           IN  TellOverview(o, TrackWindow(mgr, w, n, IF s <= last THEN s ELSE last))

\* The window is placed between the new space and its announcement.
HostNewSpaceWith(o, w, m) ==
    IF CanAdd(m)
    THEN LET g == AddSpace(m)
         IN  TellOverview(o, TrackWindow(g, w, m, Len(g.mons[m].spaces)))
    ELSE TellOverview(o, mgr)

HostToggleSticky(o, w) == TellOverview(o, ToggleSticky(w))

\* WM_CLOSE is only a request; a timer looks at the grid a moment later.
HostCloseWindow(o) == TellNobody(o)

-----------------------------------------------------------------------------
\* The gestures.  The pointer can be over anything the overlay draws: the plus
\* tile, the space cards and their close buttons while there are two, the window
\* cards with a pin and a close button each, and the backdrop.

Nothing == [what |-> "nothing", on |-> None]
MeantWindow(what, i) == [what |-> what, on |-> ov.cards[i]]

Quiet == deed' = None

\* WM_LBUTTONDOWN.  Plus, the close button of a space and the backdrop act at
\* once; everything else waits for the release, with the mouse captured.
Pressing == /\ ov.visible /\ ~button
            /\ button' = TRUE /\ Quiet
            /\ UNCHANGED <<live, acts>>

PressPlus ==
    /\ Pressing /\ ov.plus
    /\ HostAddSpace(ov, ov.mon)
    /\ meant' = Nothing /\ UNCHANGED capture

PressSpaceClose(i) ==
    /\ Pressing /\ ov.spaces > 1 /\ i <= ov.spaces
    /\ HostRemoveSpace(ov, ov.mon, i)
    /\ meant' = Nothing /\ UNCHANGED capture

PressBackdrop ==
    /\ Pressing
    /\ ov' = HideOverview(ov) /\ capture' = FALSE
    /\ meant' = Nothing /\ UNCHANGED <<mgr, stale>>

Arm(o) == ov' = o /\ capture' = TRUE /\ UNCHANGED <<mgr, stale>>

PressPin(i) == /\ Pressing /\ i \in DOMAIN ov.cards
               /\ Arm([ov EXCEPT !.pin = i]) /\ meant' = MeantWindow("pin", i)

PressClose(i) == /\ Pressing /\ i \in DOMAIN ov.cards
                 /\ Arm([ov EXCEPT !.close = i]) /\ meant' = MeantWindow("close", i)

PressSpace(i) == /\ Pressing /\ i <= ov.spaces
                 /\ Arm([ov EXCEPT !.spc = i, !.spcLive = FALSE, !.slot = i])
                 /\ meant' = Nothing

PressCard(i) == /\ Pressing /\ i \in DOMAIN ov.cards
                /\ Arm([ov EXCEPT !.win = i, !.winLive = FALSE])
                /\ meant' = MeantWindow("card", i)

\* WM_MOUSEMOVE, once the pointer has travelled.
Gesture == Quiet /\ UNCHANGED <<live, button, acts, meant>>

DragSpace(slot) ==
    /\ ov.spc # 0 /\ (ov.spcLive \/ ov.spaces > 1) /\ slot <= ov.spaces
    /\ ov' = [ov EXCEPT !.spcLive = TRUE, !.slot = slot]
    /\ Gesture /\ UNCHANGED <<mgr, capture, stale>>

DragWindow ==
    /\ ov.win # 0 /\ ~ov.winLive /\ ~ov.spcLive
    /\ ov' = [ov EXCEPT !.winLive = TRUE]
    /\ Gesture /\ UNCHANGED <<mgr, capture, stale>>

\* WM_LBUTTONUP.  What was armed is taken, then the capture is released, whose
\* message disarms the rest, and only then is the daemon called.
Releasing == /\ button /\ (capture \/ ov.visible)
             /\ button' = FALSE /\ capture' = FALSE
             /\ meant' = Nothing /\ UNCHANGED <<live, acts>>

Did(what, on) == deed' = [what |-> what, on |-> on, meant |-> meant]

Disarmed == CaptureChanged(ov)

NothingElse == deed' = None /\ TellNobody(Disarmed)

\* Over the button of the card that has the armed position now, or elsewhere.
ReleasePin ==
    /\ Releasing /\ ov.pin # 0
    /\ \/ /\ ov.pin \in DOMAIN ov.cards
          /\ HostToggleSticky(Disarmed, ov.cards[ov.pin]) /\ Did("pin", ov.cards[ov.pin])
       \/ NothingElse

ReleaseClose ==
    /\ Releasing /\ ov.pin = 0 /\ ov.close # 0
    /\ \/ /\ ov.close \in DOMAIN ov.cards
          /\ HostCloseWindow(Disarmed) /\ Did("close", ov.cards[ov.close])
       \/ NothingElse

\* A dragged space lands in the slot; a clicked one is switched to.
ReleaseSpace ==
    /\ Releasing /\ ov.pin = 0 /\ ov.close = 0 /\ ov.spc # 0
    /\ IF ov.spcLive /\ ov.slot # ov.spc
       THEN HostReorderSpace(Disarmed, ov.mon, ov.spc, ov.slot) /\ Quiet
       ELSE IF ~ov.spcLive /\ ov.spc # ov.space
       THEN HostSwitchSpace(Disarmed, ov.mon, ov.spc) /\ Quiet
       ELSE NothingElse

\* A window card is dropped on plus or on a space, clicked where it is, or
\* neither.
ReleaseCard ==
    /\ Releasing /\ ov.pin = 0 /\ ov.close = 0 /\ ov.spc = 0 /\ ov.win # 0
    /\ LET w == ov.cards[ov.win] IN
       \/ /\ ov.plus
          /\ HostNewSpaceWith(Disarmed, w, ov.mon) /\ Did("card", w)
       \/ \E s \in 1 .. ov.spaces :
             HostMoveWindow(Disarmed, w, ov.mon, s) /\ Did("card", w)
       \/ /\ ~ov.winLive
          /\ TellNobody(HideOverview(Disarmed)) /\ Did("card", w)
       \/ NothingElse

ReleaseNothing == /\ Releasing /\ ov.pin = 0 /\ ov.close = 0 /\ ov.spc = 0 /\ ov.win = 0
                  /\ NothingElse

\* The button comes up over another window.
ReleaseElsewhere == /\ button /\ ~capture
                    /\ button' = FALSE /\ meant' = Nothing /\ Quiet
                    /\ UNCHANGED <<mgr, live, ov, capture, acts, stale>>

\* The system gives the capture to another window.
CaptureStolen == /\ capture /\ capture' = FALSE
                 /\ ov' = CaptureChanged(ov)
                 /\ Gesture /\ UNCHANGED <<mgr, stale>>

\* WM_KEYDOWN.  Escape cancels a live drag, and otherwise hides the overlay.
Escape ==
    /\ ov.visible
    /\ capture' = FALSE
    /\ ov' = IF ov.spcLive \/ ov.winLive
             THEN CaptureChanged(ov)
             ELSE HideOverview(ov)
    /\ Gesture /\ UNCHANGED <<mgr, stale>>

\* Ctrl+Shift and an arrow move the current space, unless one is being dragged.
KeyReorder(to) ==
    /\ ov.visible /\ ov.spc = 0 /\ Attached(ov.mon)
    /\ LET from == mgr.mons[ov.mon].current IN
       /\ to \in {from - 1, from + 1}
       /\ HostReorderSpace(ov, ov.mon, from, to)
    /\ Gesture /\ UNCHANGED capture

KeyDigit(s) == /\ ov.visible
               /\ HostSwitchSpace(ov, ov.mon, s)
               /\ Gesture /\ UNCHANGED capture

\* P pins the card that was under the pointer at its last move.  The drag of a
\* window leaves none there; that of a space keeps the one it was lifted over.
KeyPin(i) == /\ ov.visible /\ i \in DOMAIN ov.cards /\ ~ov.winLive
             /\ HostToggleSticky(ov, ov.cards[i])
             /\ Gesture /\ UNCHANGED capture

-----------------------------------------------------------------------------
\* The daemon on its own.

\* toggle_overview, from a hotkey, the tray or another process.  Showing scans
\* first; a display without a rectangle or a window that cannot be created then
\* leaves the overlay hidden.
Toggle(m) ==
    /\ Attached(m)
    /\ \/ /\ ov.visible /\ ov' = HideOverview(ov) /\ capture' = FALSE
          /\ UNCHANGED <<mgr, stale>>
       \/ /\ ~ov.visible /\ mgr' = Scan(m) /\ UNCHANGED capture
          /\ \/ ov' = ShowOverview(ov, Scan(m), m) /\ stale' = FALSE
             \/ UNCHANGED <<ov, stale>>
    /\ Gesture

\* A space hotkey acts on the display under the cursor; the overlay is
\* refreshed even when nothing changed.
SwitchHotkey(m, s) ==
    /\ Attached(m) /\ s \in DOMAIN mgr.mons[m].spaces
    /\ TellOverview(ov, SwitchSpace(m, s))
    /\ Gesture /\ UNCHANGED capture

TrayAddSpace(m)       == HostAddSpace(ov, m) /\ CanAdd(m) /\ Gesture /\ UNCHANGED capture
TrayRemoveSpace(m, s) == /\ CanRemove(m) /\ s \in DOMAIN mgr.mons[m].spaces
                         /\ HostRemoveSpace(ov, m, s) /\ Gesture /\ UNCHANGED capture

\* The rest reaches the spaces without a refresh of the cards, except where a
\* window is known to have gone.
Behind == stale' = TRUE /\ Quiet /\ UNCHANGED <<ov, capture, button, meant>>

Spend == acts > 0 /\ acts' = acts - 1

OpenWindow(w) == /\ w \notin live /\ Spend
                 /\ live' = live \cup {w}
                 /\ Behind /\ UNCHANGED mgr

WindowCreated(m) == /\ Attached(m) /\ Scan(m) # mgr
                    /\ mgr' = Scan(m)
                    /\ Behind /\ UNCHANGED <<live, acts>>

WindowDies(w) == /\ w \in live /\ Spend
                 /\ live' = live \ {w}
                 /\ Behind /\ UNCHANGED mgr

\* The shell's event for a window that is dead; for a live one, which cloaking
\* can send at any time, it arms the timer.
WindowDestroyed(w) ==
    /\ w \in Tracked(mgr) \ live
    /\ TellOverview(ov, Untracked(mgr, {w}))
    /\ Quiet /\ UNCHANGED <<live, capture, button, acts, meant>>

CloseVerify == /\ TellOverview(ov, Untracked(mgr, Windows \ live))
               /\ Quiet /\ UNCHANGED <<live, capture, button, acts, meant>>

\* An application activates its own window: the display follows it.
Activated(m, s) == /\ Attached(m) /\ s \in DOMAIN mgr.mons[m].spaces
                   /\ s # mgr.mons[m].current
                   /\ \E w \in live \ mgr.pinned : Contains(WinsOn(mgr, m, s), w)
                   /\ Spend
                   /\ mgr' = SwitchSpace(m, s)
                   /\ Behind /\ UNCHANGED live

\* The last display goes, and its windows are scanned onto another; or one is
\* attached.
DisplayLost ==
    /\ Len(mgr.mons) > 1 /\ Spend
    /\ \E m \in 1 .. Len(mgr.mons) - 1 :
          mgr' = Scanned([mgr EXCEPT !.mons = Front(@)], m)
    /\ Behind /\ UNCHANGED live

DisplayAttached ==
    /\ Len(mgr.mons) < MaxDisplays /\ Spend
    /\ mgr' = [mgr EXCEPT !.mons = Append(@, OneSpace(<<>>))]
    /\ Behind /\ UNCHANGED live

-----------------------------------------------------------------------------
\* The daemon has scanned the windows there are.
Init == /\ live \in SUBSET Windows
        /\ \E others \in 0 .. MaxDisplays - 1 :
              mgr = [mons |-> <<OneSpace(SetToSeq(live))>> \o [m \in 1 .. others |-> OneSpace(<<>>)],
                     pinned |-> {}]
        /\ ov = Closed /\ acts = Budget
        /\ capture = FALSE /\ button = FALSE
        /\ meant = Nothing /\ deed = None /\ stale = FALSE

PressNext == \/ PressPlus \/ PressBackdrop
             \/ \E i \in 1 .. MaxSpaces : PressSpaceClose(i) \/ PressSpace(i)
             \/ \E i \in DOMAIN ov.cards : PressPin(i) \/ PressClose(i) \/ PressCard(i)

ReleaseNext == \/ ReleasePin \/ ReleaseClose \/ ReleaseSpace \/ ReleaseCard
               \/ ReleaseNothing \/ ReleaseElsewhere

KeyNext == \/ Escape \/ DragWindow \/ CaptureStolen
           \/ \E s \in 1 .. MaxSpaces : DragSpace(s) \/ KeyReorder(s) \/ KeyDigit(s)
           \/ \E i \in DOMAIN ov.cards : KeyPin(i)

DaemonNext == \/ CloseVerify
              \/ \E w \in Windows : WindowDestroyed(w)
              \/ \E m \in 1 .. MaxDisplays :
                    \/ Toggle(m) \/ TrayAddSpace(m) \/ WindowCreated(m)
                    \/ \E s \in 1 .. MaxSpaces :
                          SwitchHotkey(m, s) \/ TrayRemoveSpace(m, s) \/ Activated(m, s)

Outside == \/ DisplayLost \/ DisplayAttached
           \/ \E w \in Windows : OpenWindow(w) \/ WindowDies(w)

Next == PressNext \/ ReleaseNext \/ KeyNext \/ DaemonNext \/ Outside

Spec == Init /\ [][Next]_vars
=============================================================================
