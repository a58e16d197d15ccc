----------------------------- MODULE WindowState -----------------------------
(***************************************************************************)
(* One top-level window as the daemon sees it: what the OS shows of it, and *)
(* the "WinSpacesWindowState" property the daemon writes on it.  The        *)
(* property is the only record that a window is hidden by the daemon, and   *)
(* it outlives the daemon's process (spaces/state.rs).  This module is the  *)
(* pure part: the bits, the eligibility probe (spaces/eligibility.rs) and   *)
(* the show/hide state machine (spaces/visibility.rs).                      *)
(***************************************************************************)
EXTENDS Naturals

CONSTANT Monitors    \* the displays that can ever be attached

Bits == {"TRACKED", "WAS_ICONIC", "FORCED_MINIMIZED", "CLOAKED",
         "SYSTEM_HIDDEN", "SHELL_CLOAKED", "SW_HIDDEN"}

\* Every bit that means "we hid this window".
HIDDEN_MASK == {"CLOAKED", "FORCED_MINIMIZED", "SHELL_CLOAKED", "SW_HIDDEN"}

\* The two cloak layers; the compositor shows a window when both are off.
Layers == {"dwm", "shell"}

(***************************************************************************)
(* visible  - "yes" when WS_VISIBLE is set; otherwise who cleared it: the   *)
(*            application ("app") or the SW_HIDE fallback ("us").           *)
(* titled   - the structural facts of the eligibility probe (class, style,  *)
(*            title): a window that loses its title fails them.             *)
(* elevated - the window refuses DWMWA_CLOAK.                               *)
(* mon      - the display the window is physically on.                      *)
(***************************************************************************)
Window == [live : BOOLEAN, titled : BOOLEAN, elevated : BOOLEAN,
           visible : {"yes", "app", "us"}, iconic : BOOLEAN,
           cloak : SUBSET Layers, prop : SUBSET Bits, mon : Monitors]

\* What the services that cloak answer: all works; the cached ImmersiveShell
\* proxy answers S_OK and does nothing (a stale proxy), or it fails; the proxy
\* works and DWM refuses to lift a cloak.
Proxies == {"works", "noop", "fails", "stuck"}

ShellActs(proxy) == proxy \in {"works", "stuck"}

HasHiddenBit(x) == x.prop \cap HIDDEN_MASK # {}

\* A user looking at the display sees the window.
OnScreen(x) == x.live /\ x.visible = "yes" /\ x.cloak = {} /\ ~x.iconic

\* Cloaked with no cloak bit: read as somebody else's cloak.
ExternallyCloaked(x) ==
  x.cloak # {} /\ x.prop \cap {"CLOAKED", "SHELL_CLOAKED"} = {}

IsValid(x) ==
  /\ x.live
  /\ x.titled
  /\ ~ExternallyCloaked(x)
  /\ x.visible = "yes" \/ HasHiddenBit(x)

MustRestoreBeforeUntrack(x) == x.live /\ HasHiddenBit(x)

SystemWindowIsShowing(x) == x.visible = "yes" /\ x.cloak = {}

-----------------------------------------------------------------------------
(* set_window_visibility(hwnd, true, _) *)

\* Faulty variant: the return codes are trusted.
SurvivingBitIgnored(layers) == {}

\* The layer the verify step finds still on, as the bit it re-asserts.
SurvivingBit(layers) ==
  IF layers = {} THEN {}
  ELSE IF layers = {"shell"} THEN {"SHELL_CLOAKED"} ELSE {"CLOAKED"}

\* The layers that stay on: each call lifts its own, if it acts.
ShownLayers(x, proxy) ==
  x.cloak \ ((IF "SHELL_CLOAKED" \in x.prop /\ ShellActs(proxy) THEN {"shell"} ELSE {})
               \cup (IF "CLOAKED" \in x.prop /\ proxy # "stuck" THEN {"dwm"} ELSE {}))

\* Minimized by the daemon alone, so that it is restored.
Unforced(x) == "FORCED_MINIMIZED" \in x.prop /\ "WAS_ICONIC" \notin x.prop

\* Minimized before it was hidden, so that it is minimized again.
Reminimized(x) == "WAS_ICONIC" \in x.prop /\ "SHELL_CLOAKED" \notin x.prop

\* One of the calls makes it visible.
ComesBack(x) ==
  \/ Reminimized(x) \/ Unforced(x)
  \/ "CLOAKED" \in x.prop /\ "WAS_ICONIC" \notin x.prop
  \/ x.prop \cap {"WAS_ICONIC", "CLOAKED", "SHELL_CLOAKED"} = {}

\* The bits that stay: those of the calls that failed, and the one of the layer
\* that is still on.
ShownProp(x, proxy) ==
  (x.prop \ ((IF proxy # "fails" THEN {"SHELL_CLOAKED"} ELSE {})
               \cup (IF proxy # "stuck" THEN {"CLOAKED"} ELSE {}) \cup {"SW_HIDDEN"}
               \cup (IF Unforced(x) THEN {"FORCED_MINIMIZED"} ELSE {})))
    \cup (IF x.prop \cap {"CLOAKED", "SHELL_CLOAKED"} # {}
          THEN SurvivingBit(ShownLayers(x, proxy)) ELSE {})

Show(x, proxy) ==
  IF x.prop = {} THEN x
  ELSE [x EXCEPT !.cloak   = ShownLayers(x, proxy),
                 !.visible = IF ComesBack(x) THEN "yes" ELSE @,
                 !.iconic  = (@ \/ Reminimized(x)) /\ ~Unforced(x),
                 !.prop    = ShownProp(x, proxy)]

-----------------------------------------------------------------------------
(* set_window_visibility(hwnd, false, showAll) *)

Hide(x, showAll, proxy) ==
  LET noted   == IF x.iconic THEN x.prop \cup {"WAS_ICONIC"}
                             ELSE x.prop \ {"WAS_ICONIC"}
      shell   == [x EXCEPT !.prop  = noted \cup {"SHELL_CLOAKED"},
                           !.cloak = IF ShellActs(proxy) THEN @ \cup {"shell"}
                                                         ELSE @]
      forced  == [x EXCEPT !.prop   = IF x.iconic THEN noted
                                      ELSE noted \cup {"FORCED_MINIMIZED"},
                           !.iconic = TRUE]
      dwm     == [x EXCEPT !.prop  = noted \cup {"CLOAKED"},
                           !.cloak = @ \cup {"dwm"}]
      swHide  == [x EXCEPT !.prop    = noted \cup {"SW_HIDDEN"},
                           !.visible = IF @ = "yes" THEN "us" ELSE @]
  IN  IF x.prop = {} \/ HasHiddenBit(x) THEN x
      ELSE IF showAll THEN (IF proxy = "fails" THEN forced ELSE shell)
      ELSE (IF x.elevated THEN swHide ELSE dwm)

-----------------------------------------------------------------------------
(* The property's other writers *)

\* Faulty variants: the hidden bits are dropped; the TRACKED bit is.
TrackedPropForgetsHidden(x) ==
  {"TRACKED"} \cup (IF x.iconic THEN {"WAS_ICONIC"} ELSE {})
TrackedPropUnmarked(x) == x.prop \cap HIDDEN_MASK

\* What track_window writes: a hidden window keeps its hidden bits and the
\* iconic flag its next show replays; any other has the flag sampled afresh.
TrackedProp(x) ==
  LET hidden == x.prop \cap HIDDEN_MASK
      iconic == IF hidden # {} THEN "WAS_ICONIC" \in x.prop ELSE x.iconic
  IN  {"TRACKED"} \cup hidden \cup (IF iconic THEN {"WAS_ICONIC"} ELSE {})

Forgotten(x) == [x EXCEPT !.prop = {}]

\* The scan's treatment of an exact-title system window that is showing.
HideSystem(x) ==
  [x EXCEPT !.cloak   = IF x.elevated THEN @ ELSE @ \cup {"dwm"},
            !.visible = "app",
            !.prop    = @ \cup {"SYSTEM_HIDDEN"}]

\* Faulty variant: nothing is restored.
ReclaimForgetful(x, proxy) == Forgotten(x)

\* reclaim_orphaned_windows, for one window.
Reclaim(x, proxy) ==
  IF "SYSTEM_HIDDEN" \in x.prop
  THEN Forgotten([x EXCEPT !.cloak = IF proxy = "stuck" THEN @ ELSE @ \ {"dwm"}])
  ELSE IF HasHiddenBit(x) THEN Forgotten(Show(x, proxy)) ELSE Forgotten(x)
=============================================================================
