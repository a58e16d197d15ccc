------------------------ MODULE OverviewProperties ------------------------
(***************************************************************************)
(* What the overlay owes the user who presses, drags and releases in it.   *)
(***************************************************************************)
EXTENDS Overview

\* The card a press is about exists for as long as the press is remembered:
\* on_lbuttonup and the escape handler index window_cards by it unchecked.
PressesInRange ==
    /\ ov.win # 0 => ov.win \in DOMAIN ov.cards
    /\ ov.close # 0 => ov.close \in DOMAIN ov.cards
    /\ ov.spc # 0 => ov.spc \in 1 .. ov.spaces /\ ov.slot \in 1 .. ov.spaces

TypeOK ==
    /\ ov.cards \in Seq(Windows) /\ live \subseteq Windows
    /\ PressesInRange
    /\ \A m \in DOMAIN mgr.mons : mgr.mons[m].current \in DOMAIN mgr.mons[m].spaces

\* A release over a window's close button or card acts on the window that the
\* button went down on, and as that part of its card says, whatever rebuilt the
\* cards in between.  The pin button is left out: refresh_overview does not
\* disarm it, so its release pins the window that took the card's place.
ReleaseActsOnPressed ==
    deed # None /\ deed.what # "pin" =>
        deed.what = deed.meant.what /\ deed.on = deed.meant.on

\* A press in hand, of a close button, a window card or a space card, holds the
\* mouse, so that its release, or the loss of the capture, always ends it and the
\* overlay never stays frozen in a drag.  The pin button, which a refresh leaves
\* armed, is left out.
PressesHoldCapture ==
    ov.close # 0 \/ ov.win # 0 \/ ov.spc # 0 => ov.visible /\ capture /\ button

\* Whatever a gesture, a hotkey or the tray does to the spaces is on the
\* overlay when the handler returns.
CardsFollowSpaces ==
    ov.visible /\ ~stale => ov = RebuildCards(ov, mgr, ov.mon)
=============================================================================
