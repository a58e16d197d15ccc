-------------------------- MODULE SpacesProperties --------------------------
(***************************************************************************)
(* What the space manager promises, about the specification of Spaces.      *)
(***************************************************************************)
EXTENDS Spaces

-----------------------------------------------------------------------------
(* Bookkeeping *)

\* A window is in at most one list of one display, whatever moved it there:
\* find_window and every pass over monitors[..].spaces rely on it.
TrackedOnce == \A w \in Windows : Cardinality(Places(desk, w)) <= 1

\* Every display in the table has a current space that exists and no more
\* than MAX_SPACES of them, so no handler indexes out of bounds (track_window's
\* debug_assert, remove_space, reorder_space, handle_display_change).
SpacesInBounds ==
  \A m \in Table(desk) :
    /\ desk.current[m] \in DOMAIN desk.spaces[m]
    /\ Len(desk.spaces[m]) <= MaxSpaces

\* The property and the lists agree: a live window carries the TRACKED bit
\* exactly when some space lists it.  Each is written by different code and
\* hiding does nothing to a window whose property is empty.
MarkedIffTracked ==
  Running => \A w \in Windows :
    desk.win[w].live => (Tracked(desk, w) <=> "TRACKED" \in desk.win[w].prop)

\* What the daemon did to make x disappear is on record in its property, in
\* the bit of the layer that is on.
Recorded(x) ==
  /\ x.visible = "us" => "SW_HIDDEN" \in x.prop
  /\ "dwm" \in x.cloak => x.prop \cap {"CLOAKED", "SYSTEM_HIDDEN"} # {}
  /\ "shell" \in x.cloak => "SHELL_CLOAKED" \in x.prop

\* No window is hidden without a record of it, and none is under both cloak
\* layers: the property is the only thing any code path can bring it back by.
HidingRecorded ==
  \A w \in Windows : LET x == desk.win[w] IN
    x.live => Recorded(x) /\ x.cloak # Layers

\* A pinned window that is alive is tracked on some space and is never one
\* the daemon has hidden (sticky.rs).
PinnedIsUp ==
  \A w \in desk.pinned : desk.win[w].live =>
    /\ Table(desk) # {} => Tracked(desk, w)
    /\ ~HasHiddenBit(desk.win[w])

-----------------------------------------------------------------------------
(* What a step may never do *)

\* Tracking a manageable window is never lost on the way: a window that is
\* tracked and passes the eligibility probe is still tracked after any step
\* that leaves the daemon running, the window alive and a display attached.
NeverSilentlyUntracked ==
  [][Running /\ Running' /\ plugged' # {} =>
       \A w \in Windows : Tracked(desk, w) /\ Valid(desk, w) /\ desk'.win[w].live
                            => Tracked(desk', w)]_vars

\* As long as the daemon runs no step loses the record of a hidden window, also
\* when the shell cloak fails or answers that it worked and did nothing, or DWM
\* refuses to lift its cloak: the bit stays for the next show to retry (the
\* failure branches and the verify step of set_window_visibility).  A window
\* without a title is excepted: it is shown and forgotten whether or not the
\* show worked (track_window).
RecordKept ==
  [][Running /\ Running' =>
       \A w \in Windows : desk.win[w].titled /\ Recorded(desk.win[w])
                            => Recorded(desk'.win[w])]_vars

\* Only the user unpins: whatever moves, re-homes or re-tracks a manageable
\* pinned window keeps the pin (detach_window versus remove_window).
PinSurvives ==
  [][Running /\ Running' =>
       \A w \in desk.pinned \ desk'.pinned :
         ~Valid(desk, w) \/ ~desk'.win[w].live \/ TogglePin(w)]_vars

\* Of the windows tracked on m that the probe accepts, the daemon hides none
\* that is on the current space or pinned, and no other is on screen.
Settled(d, m) ==
  \A w \in On(d, m) : Valid(d, w) =>
    IF w \in Up(d, m)
    THEN d.win[w].cloak = {} /\ d.win[w].visible = "yes" /\ ~HasHiddenBit(d.win[w])
    ELSE ~OnScreen(d.win[w])

\* A command of the user that switches m or shortens its row of spaces; every
\* GoToSpace is a TraySwitch.
SwitchOf(m) ==
  TraySwitch(m, desk'.current[m]) \/ \E i \in Indices : RemoveSpace(m, i)

\* Whatever was on screen before, a switch of m leaves m settled: a step that
\* does not is none.  It matters when a window was moved to a background
\* space, dragged, minimized or shown again since the last switch.
SwitchSettles ==
  [][\A m \in Monitors : ~Settled(desk', m) =>
       ~SwitchOf(m) /\ ~MoveToSpace(m, desk'.current[m])]_vars

\* When there is a window to land on, a switch gives the foreground to one
\* that is up on the display it switched: focusing any other would come back
\* as an activation that switches away again.
SwitchLandsUp ==
  [][\A m \in Table(desk') :
       Focusable(desk', Up(desk', m)) # {} /\ desk'.fg \notin Up(desk', m)
         => ~SwitchOf(m)]_vars

\* The windows of S of which the current space of m has lost sight, except
\* those that died or have moved to another display.
LostFrom(m, S) ==
  {w \in S : /\ w \notin desk'.spaces[m][desk'.current[m]]
             /\ desk.win[w].live /\ desk.win[w].mon = m}

\* Renumbering spaces never changes what the user is looking at: reordering
\* them, or removing one that is not showing, takes no window off the space
\* that is.
RenumberingKeepsView ==
  [][\A m \in Table(desk) \cap Table(desk') :
       LostFrom(m, desk.spaces[m][desk.current[m]]) # {} =>
         /\ ~(\E i, j \in Indices : ReorderSpace(m, i, j))
         /\ ~(\E i \in Indices \ {desk.current[m]} : RemoveSpace(m, i))]_vars

\* A daemon that ends in order leaves nothing hidden and no property behind
\* (windows_show_all); the exact-title system windows stay hidden.
ExitReleases ==
  phase = "exited" => \A w \in Windows : desk.win[w].live =>
    /\ desk.win[w].prop = {}
    /\ desk.win[w].cloak = {}
    /\ desk.win[w].visible # "us"

\* A daemon that starts after a crash brings back every window the last one
\* had hidden: each is on screen or minimized, and tracked on the space its
\* display shows, unless the scan has hidden it as a system window
\* (reclaim_orphaned_windows, SpaceManager::new).
StartRecovers ==
  [][~Running /\ Running' => \A w \in Windows :
       LET x == desk'.win[w] IN
           /\ x.live /\ x.titled /\ "SYSTEM_HIDDEN" \notin x.prop =>
                x.cloak = {} /\ x.visible # "us"
           /\ Valid(desk', w) /\ x.mon \in plugged =>
                w \in desk'.spaces[x.mon][desk'.current[x.mon]]]_vars
=============================================================================
