---------------------------- MODULE SpacesProofs ----------------------------
(***************************************************************************)
(* Proofs about Spaces, for every set of windows and displays.  First the   *)
(* types, the bounds of the monitor table, that a window is on one space    *)
(* only, and what follows: renumbering spaces takes no window out of view,  *)
(* and a switch that finds a window up puts the focus on one that is up.    *)
(*                                                                          *)
(* Then that no window is ever stranded: what the daemon did to make it     *)
(* disappear is on record in its property, the property and the lists agree *)
(* about who is tracked, a daemon that ends in order gives every window     *)
(* back and one that starts finds what the last one had hidden; that only   *)
(* the user unpins; that a pinned window is never hidden, nor one that      *)
(* passes the probe ever lost from the lists; and that the record of a      *)
(* hidden window outlives a shell cloak that lies.                          *)
(***************************************************************************)
EXTENDS SpacesProperties, SequenceTheorems, FiniteSetTheorems, TLAPS

-----------------------------------------------------------------------------
(* Windows *)

\* The two halves of set_window_visibility, and the other writers of the
\* property, leave a window a window.
LEMMA ShownFields ==
  ASSUME NEW x \in Window, NEW c \in SUBSET Layers, NEW v \in {"yes", "app", "us"},
         NEW i \in BOOLEAN, NEW b \in SUBSET Bits
  PROVE  [x EXCEPT !.cloak = c, !.visible = v, !.iconic = i, !.prop = b] \in Window
  BY DEF Window

LEMMA ShowType ==
  ASSUME NEW x \in Window, NEW p \in Proxies PROVE Show(x, p) \in Window
  <1>1. CASE x.prop = {}
    BY <1>1 DEF Show
  <1>2. CASE x.prop # {}
    <2> DEFINE layers  == ShownLayers(x, p)
               visible == IF ComesBack(x) THEN "yes" ELSE x.visible
               iconic  == (x.iconic \/ Reminimized(x)) /\ ~Unforced(x)
               kept    == ShownProp(x, p)
    <2>1. layers \in SUBSET Layers
      BY DEF Window, ShownLayers
    <2>2. visible \in {"yes", "app", "us"}
      BY DEF Window
    <2>3. iconic \in BOOLEAN
      OBVIOUS
    <2>4. SurvivingBit(ShownLayers(x, p)) \in SUBSET Bits
      BY DEF SurvivingBit, Bits
    <2>5. kept \in SUBSET Bits
      BY <2>4 DEF Window, ShownProp
    <2>6. Show(x, p) = [x EXCEPT !.cloak = layers, !.visible = visible,
                                 !.iconic = iconic, !.prop = kept]
      BY <1>2 DEF Show
    <2> HIDE DEF layers, visible, iconic, kept
    <2>7. [x EXCEPT !.cloak = layers, !.visible = visible,
                    !.iconic = iconic, !.prop = kept] \in Window
      BY <2>1, <2>2, <2>3, <2>5, ShownFields
    <2>8. QED
      BY <2>6, <2>7, Zenon
  <1>3. QED
    BY <1>1, <1>2

LEMMA HideType ==
  ASSUME NEW x \in Window, NEW a \in BOOLEAN, NEW p \in Proxies
  PROVE  Hide(x, a, p) \in Window
  BY DEF Hide, Window, Proxies, Bits, Layers, ShellActs

LEMMA TrackedPropType ==
  ASSUME NEW x \in Window PROVE TrackedProp(x) \in SUBSET Bits
  BY DEF TrackedProp, Window, Bits, HIDDEN_MASK

LEMMA ForgottenType ==
  ASSUME NEW x \in Window PROVE Forgotten(x) \in Window
  BY DEF Forgotten, Window

LEMMA HideSystemType ==
  ASSUME NEW x \in Window PROVE HideSystem(x) \in Window
  BY DEF HideSystem, Window, Bits, Layers

LEMMA ReclaimType ==
  ASSUME NEW x \in Window, NEW p \in Proxies PROVE Reclaim(x, p) \in Window
  <1>1. [x EXCEPT !.cloak = IF p = "stuck" THEN @ ELSE @ \ {"dwm"}] \in Window
    BY DEF Window, Layers
  <1>2. QED
    BY <1>1, ShowType, ForgottenType DEF Reclaim

-----------------------------------------------------------------------------
(* Desks.  Most methods of the manager keep the shape of the monitor table:  *)
(* how many spaces each display has, and which one it shows.                 *)

SameShape(d, e) ==
  \A m \in Monitors : /\ Len(e.spaces[m]) = Len(d.spaces[m])
                      /\ e.current[m] = d.current[m]

Keeps(d, e) == e \in Desk /\ SameShape(d, e)

Bounded(d) ==
  \A m \in Monitors :
    /\ Len(d.spaces[m]) <= MaxSpaces
    /\ Len(d.spaces[m]) > 0 => d.current[m] \in DOMAIN d.spaces[m]

Sound(d) == d \in Desk /\ Bounded(d)

LEMMA KeepsTransitive ==
  ASSUME NEW d, NEW e, NEW f, Keeps(d, e), Keeps(e, f) PROVE Keeps(d, f)
  BY DEF Keeps, SameShape

LEMMA KeepsSelf ==
  ASSUME NEW d \in Desk PROVE Keeps(d, d)
  BY DEF Keeps, SameShape

LEMMA DomainIsLen ==
  ASSUME NEW d \in Desk, NEW m \in Monitors
  PROVE  /\ Len(d.spaces[m]) \in Nat
         /\ DOMAIN d.spaces[m] = 1..Len(d.spaces[m])
         /\ \A i \in DOMAIN d.spaces[m] : d.spaces[m][i] \in SUBSET Windows
  BY DEF Desk

LEMMA KeepsSound ==
  ASSUME NEW d, NEW e, Sound(d), Keeps(d, e) PROVE Sound(e)
  <1>1. d \in Desk /\ e \in Desk
    BY DEF Sound, Keeps
  <1>2. \A m \in Monitors : DOMAIN e.spaces[m] = DOMAIN d.spaces[m]
    BY <1>1, DomainIsLen DEF Keeps, SameShape
  <1>3. QED
    BY <1>1, <1>2 DEF Sound, Keeps, Bounded, SameShape

\* The desks that differ in the windows, or in the pins and memories, only.
LEMMA WinKeeps ==
  ASSUME NEW d \in Desk, NEW f \in [Windows -> Window]
  PROVE  Keeps(d, [d EXCEPT !.win = f])
  BY DEF Keeps, SameShape, Desk

LEMMA WinAtKeeps ==
  ASSUME NEW d \in Desk, NEW w \in Windows, NEW x \in Window
  PROVE  Keeps(d, [d EXCEPT !.win[w] = x])
  BY DEF Keeps, SameShape, Desk

LEMMA DroppedType ==
  ASSUME NEW s \in [Monitors -> Seq(SUBSET Windows)], NEW S
  PROVE  /\ Dropped(s, S) \in [Monitors -> Seq(SUBSET Windows)]
         /\ \A m \in Monitors : Len(Dropped(s, S)[m]) = Len(s[m])
  <1> DEFINE t(m) == [i \in DOMAIN s[m] |-> s[m][i] \ S]
  <1>1. ASSUME NEW m \in Monitors
        PROVE  t(m) \in Seq(SUBSET Windows) /\ Len(t(m)) = Len(s[m])
    <2>1. s[m] \in Seq(SUBSET Windows) /\ DOMAIN s[m] = 1..Len(s[m]) /\ Len(s[m]) \in Nat
      OBVIOUS
    <2>2. t(m) \in [1..Len(s[m]) -> SUBSET Windows]
      BY <2>1
    <2>3. QED
      BY <2>1, <2>2
  <1>2. QED
    BY <1>1 DEF Dropped

LEMMA PlaceKeeps ==
  ASSUME NEW d \in Desk, NEW to, DOMAIN to \subseteq Windows
  PROVE  Keeps(d, Place(d, to))
  <1> DEFINE win == [w \in Windows |->
                       IF w \in DOMAIN to
                       THEN [d.win[w] EXCEPT !.prop = TrackedProp(d.win[w])]
                       ELSE d.win[w]]
             row(m) == [i \in DOMAIN d.spaces[m] |->
                          (d.spaces[m][i] \ DOMAIN to)
                            \cup {w \in DOMAIN to : to[w] = <<m, i>>}]
  <1>1. win \in [Windows -> Window]
    <2>1. ASSUME NEW w \in Windows
          PROVE  [d.win[w] EXCEPT !.prop = TrackedProp(d.win[w])] \in Window
      <3>1. d.win[w] \in Window
        BY DEF Desk
      <3>2. TrackedProp(d.win[w]) \in SUBSET Bits
        BY <3>1, TrackedPropType
      <3>3. QED
        BY <3>1, <3>2 DEF Window
    <2>2. QED
      BY <2>1 DEF Desk
  <1>2. ASSUME NEW m \in Monitors
        PROVE  row(m) \in Seq(SUBSET Windows) /\ Len(row(m)) = Len(d.spaces[m])
    <2>1. row(m) \in [1..Len(d.spaces[m]) -> SUBSET Windows]
      BY DomainIsLen
    <2>2. QED
      BY <2>1, DomainIsLen
  <1> DEFINE rows == [m \in Monitors |-> row(m)]
  <1>3. Place(d, to) = [d EXCEPT !.win = win, !.spaces = rows]
    BY DEF Place
  <1>4. /\ rows \in [Monitors -> Seq(SUBSET Windows)]
        /\ \A m \in Monitors : Len(rows[m]) = Len(d.spaces[m])
    BY <1>2
  <1> HIDE DEF win, rows
  <1>5. QED
    BY <1>1, <1>3, <1>4 DEF Keeps, SameShape, Desk

LEMMA DetachKeeps ==
  ASSUME NEW d \in Desk, NEW w \in Windows PROVE Keeps(d, Detach(d, w))
  <1>1. Forgotten(d.win[w]) \in Window
    BY ForgottenType DEF Desk
  <1>2. d.spaces \in [Monitors -> Seq(SUBSET Windows)]
    BY DEF Desk
  <1>3. /\ Dropped(d.spaces, {w}) \in [Monitors -> Seq(SUBSET Windows)]
        /\ \A m \in Monitors : Len(Dropped(d.spaces, {w})[m]) = Len(d.spaces[m])
    BY <1>2, DroppedType
  <1>4. Keeps(d, [d EXCEPT !.spaces = Dropped(d.spaces, {w}),
                           !.win[w] = Forgotten(d.win[w])])
    BY <1>1, <1>3 DEF Keeps, SameShape, Desk
  <1>5. QED
    BY <1>4, KeepsSelf DEF Detach

LEMMA RemoveWindowKeeps ==
  ASSUME NEW d \in Desk, NEW w \in Windows PROVE Keeps(d, RemoveWindow(d, w))
  <1> DEFINE e == Detach(d, w)
  <1>1. Keeps(d, e)
    BY DetachKeeps
  <1> HIDE DEF e
  <1>2. Keeps(d, [e EXCEPT !.pinned = @ \ {w}, !.focus = @ \ {w}])
    BY <1>1 DEF Keeps, SameShape, Desk
  <1>3. QED
    BY <1>2 DEF RemoveWindow, e

LEMMA UntrackedKeeps ==
  ASSUME NEW d \in Desk, NEW w \in Windows, proxy \in Proxies
  PROVE  Keeps(d, Untracked(d, w))
  <1> DEFINE restored == IF MustRestoreBeforeUntrack(d.win[w])
                         THEN [d EXCEPT !.win[w] = Show(@, proxy)] ELSE d
  <1>1. Show(d.win[w], proxy) \in Window
    BY ShowType DEF Desk
  <1>2. Keeps(d, restored)
    BY <1>1, WinAtKeeps, KeepsSelf
  <1>3. Keeps(restored, RemoveWindow(restored, w))
    <2>1. restored \in Desk
      BY <1>2 DEF Keeps
    <2> HIDE DEF restored
    <2>2. QED
      BY <2>1, RemoveWindowKeeps
  <1>4. Untracked(d, w) = RemoveWindow(restored, w)
    BY DEF Untracked
  <1> HIDE DEF restored
  <1>5. QED
    BY <1>2, <1>3, <1>4, KeepsTransitive

LEMMA TrackKeeps ==
  ASSUME NEW d \in Desk, NEW w \in Windows, NEW m, NEW i, proxy \in Proxies
  PROVE  Keeps(d, Track(d, w, m, i))
  <1>1. ASSUME NEW p PROVE Keeps(d, Place(d, [x \in {w} |-> p]))
    <2>1. DOMAIN [x \in {w} |-> p] \subseteq Windows
      OBVIOUS
    <2>2. QED
      BY <2>1, PlaceKeeps
  <1>2. QED
    BY <1>1, UntrackedKeeps, DetachKeeps DEF Track

LEMMA PruneKeeps ==
  ASSUME NEW d \in Desk PROVE Keeps(d, Prune(d))
  <1> DEFINE dead == {w \in Windows : ~d.win[w].live}
  <1>1. d.spaces \in [Monitors -> Seq(SUBSET Windows)]
    BY DEF Desk
  <1>2. /\ Dropped(d.spaces, dead) \in [Monitors -> Seq(SUBSET Windows)]
        /\ \A m \in Monitors : Len(Dropped(d.spaces, dead)[m]) = Len(d.spaces[m])
    BY <1>1, DroppedType
  <1>3. Prune(d) = [d EXCEPT !.spaces = Dropped(d.spaces, dead), !.pinned = d.pinned \ dead]
    BY DEF Prune
  <1> HIDE DEF dead
  <1>4. QED
    BY <1>2, <1>3 DEF Keeps, SameShape, Desk

LEMMA AtCurrentKeeps ==
  ASSUME NEW d \in Desk, NEW S \in SUBSET Windows PROVE Keeps(d, AtCurrent(d, S))
  BY PlaceKeeps DEF AtCurrent

LEMMA ScanKeeps ==
  ASSUME NEW d \in Desk PROVE Keeps(d, Scan(d))
  <1> DEFINE p       == Prune(d)
             seen    == {w \in Windows : p.win[w].live /\ ~HasHiddenBit(p.win[w])}
             system  == {w \in seen \cap SystemWindows :
                           p.win[w].titled /\ "TRACKED" \notin p.win[w].prop}
             hide    == {w \in system : /\ "SYSTEM_HIDDEN" \notin p.win[w].prop
                                        /\ SystemWindowIsShowing(p.win[w])}
             found   == {w \in seen \ system : Valid(p, w) /\ MonitorOf(p, w) # NoMonitor}
             drifted == {w \in found : Tracked(p, w) /\ Home(p, w)[1] # p.win[w].mon}
             adopt   == {w \in found : ~Tracked(p, w)}
                          \cup (IF MayRehome(TRUE) THEN drifted ELSE {})
             win     == [w \in Windows |->
                           IF w \in hide THEN HideSystem(p.win[w]) ELSE p.win[w]]
             swept   == [p EXCEPT !.win = win]
  <1>1. Keeps(d, p)
    BY PruneKeeps
  <1>2. adopt \in SUBSET Windows
    OBVIOUS
  <1> HIDE DEF hide, adopt, p
  <1>3. p \in Desk
    BY <1>1 DEF Keeps
  <1>4. win \in [Windows -> Window]
    <2>1. \A w \in Windows : p.win[w] \in Window
      BY <1>3 DEF Desk
    <2>2. QED
      BY <2>1, HideSystemType
  <1> HIDE DEF win
  <1>5. Keeps(p, swept)
    BY <1>3, <1>4, WinKeeps
  <1> HIDE DEF swept
  <1>6. swept \in Desk
    BY <1>5 DEF Keeps
  <1>7. Keeps(swept, AtCurrent(swept, adopt))
    BY <1>2, <1>6, AtCurrentKeeps
  <1>8. Scan(d) = AtCurrent(swept, adopt)
    BY DEF Scan, p, hide, adopt, swept, win
  <1>9. QED
    BY <1>1, <1>5, <1>7, <1>8, KeepsTransitive

LEMMA RefreshKeeps ==
  ASSUME NEW d \in Desk, NEW M, showAll \in BOOLEAN, proxy \in Proxies
  PROVE  Keeps(d, Refresh(d, M))
  <1> DEFINE up  == UNION {Up(d, m) : m \in M}
             on  == UNION {On(d, m) : m \in M}
             win == [w \in Windows |->
                       IF ~Valid(d, w) \/ w \notin on THEN d.win[w]
                       ELSE IF w \in up THEN Show(d.win[w], proxy)
                       ELSE Hide(d.win[w], showAll, proxy)]
  <1> HIDE DEF up, on
  <1>1. \A w \in Windows : /\ d.win[w] \in Window
                           /\ Show(d.win[w], proxy) \in Window
                           /\ Hide(d.win[w], showAll, proxy) \in Window
    BY ShowType, HideType DEF Desk
  <1>2. win \in [Windows -> Window]
    BY <1>1
  <1>3. Refresh(d, M) = [d EXCEPT !.win = win]
    BY DEF Refresh, up, on
  <1> HIDE DEF win
  <1>4. QED
    BY <1>2, <1>3, WinKeeps

LEMMA SwitchSound ==
  ASSUME NEW d, Sound(d), NEW m \in Monitors, NEW i \in DOMAIN d.spaces[m],
         showAll \in BOOLEAN, proxy \in Proxies
  PROVE  /\ Sound(Switch(d, m, i))
         /\ \A n \in Monitors : Len(Switch(d, m, i).spaces[n]) = Len(d.spaces[n])
  <1> DEFINE left     == d.spaces[m][d.current[m]]
             remember == IF d.current[m] = i THEN d.focus
                         ELSE (d.focus \ left) \cup (left \cap {d.fg})
             e == [d EXCEPT !.current[m] = i, !.focus = remember]
  <1>1. d \in Desk /\ i \in Nat /\ d.focus \in SUBSET Windows
    BY DomainIsLen DEF Sound, Desk
  <1>2. d.current[m] \in DOMAIN d.spaces[m]
    BY <1>1, DomainIsLen DEF Sound, Bounded
  <1>3. remember \in SUBSET Windows
    BY <1>1, <1>2, DomainIsLen
  <1> HIDE DEF remember
  <1>4. e \in Desk /\ e.spaces = d.spaces
           /\ \A n \in Monitors : e.current[n] = IF n = m THEN i ELSE d.current[n]
    BY <1>1, <1>3 DEF Desk
  <1> HIDE DEF e
  <1>5. Sound(e)
    BY <1>1, <1>4 DEF Sound, Bounded
  <1>6. Keeps(e, Refresh(e, {m}))
    BY <1>4, RefreshKeeps
  <1>7. Switch(d, m, i) = Refresh(e, {m})
    BY DEF Switch, e, remember
  <1>8. QED
    BY <1>4, <1>5, <1>6, <1>7, KeepsSound DEF Keeps, SameShape

LEMMA UpType ==
  ASSUME NEW d, Sound(d), NEW m \in Table(d)
  PROVE  /\ d.spaces[m][d.current[m]] \in SUBSET Windows
         /\ On(d, m) \in SUBSET Windows
         /\ Up(d, m) \in SUBSET Windows
  <1>1. d \in Desk /\ m \in Monitors /\ d.current[m] \in DOMAIN d.spaces[m]
    BY DomainIsLen DEF Sound, Bounded, Table
  <1>2. \A i \in DOMAIN d.spaces[m] : d.spaces[m][i] \in SUBSET Windows
    BY <1>1, DomainIsLen
  <1>3. QED
    BY <1>1, <1>2 DEF On, Up

LEMMA LandingType ==
  ASSUME NEW d, Sound(d), NEW m \in Table(d)
  PROVE  Landing(d, m) \in SUBSET (Windows \cup {NoWindow})
  <1>1. \A S \in SUBSET Windows : LastOf(d, S) \in SUBSET (Windows \cup {NoWindow})
    BY DEF LastOf, Focusable
  <1>2. \A S \in SUBSET Windows : Focusable(d, S) \in SUBSET Windows
    BY DEF Focusable
  <1>3. QED
    BY <1>1, <1>2, UpType DEF Landing

LEMMA FocusedKeeps ==
  ASSUME NEW d \in Desk, NEW w \in Windows \cup {NoWindow}
  PROVE  Keeps(d, Focused(d, w))
  BY DEF Focused, Keeps, SameShape, Desk

LEMMA SwitchFromSound ==
  ASSUME NEW d, Sound(d), NEW m \in Monitors, NEW i \in DOMAIN d.spaces[m],
         NEW a \in Windows \cup {NoWindow}, SwitchFrom(d, m, i, a),
         showAll \in BOOLEAN, proxy \in Proxies
  PROVE  Sound(desk') /\ suppressed' \in BOOLEAN
  <1>1. PICK scanned \in {d, Scan(d)} :
          LET switched == Switch(scanned, m, i)
          IN  IF a # NoWindow THEN desk' = Focused(switched, a)
              ELSE \E w \in Landing(switched, m) : desk' = Focused(switched, w)
    BY DEF SwitchFrom
  <1> DEFINE switched == Switch(scanned, m, i)
  <1>2. d \in Desk
    BY DEF Sound
  <1>3. Keeps(d, scanned)
    BY <1>2, ScanKeeps, KeepsSelf
  <1>4. Sound(scanned) /\ i \in DOMAIN scanned.spaces[m] /\ Len(scanned.spaces[m]) > 0
    <2>1. Sound(scanned)
      BY <1>3, KeepsSound
    <2>2. QED
      BY <1>2, <1>3, <2>1, DomainIsLen DEF Keeps, SameShape, Sound
  <1>5. Sound(switched) /\ m \in Table(switched)
    BY <1>4, SwitchSound DEF Table
  <1> HIDE DEF switched
  <1>6. PICK w \in Windows \cup {NoWindow} : desk' = Focused(switched, w)
    BY <1>1, <1>5, LandingType DEF switched
  <1>7. Sound(desk')
    BY <1>5, <1>6, FocusedKeeps, KeepsSound DEF Sound
  <1>8. QED
    BY <1>7 DEF SwitchFrom

-----------------------------------------------------------------------------
(* Rows of spaces: removing one, and inserting it elsewhere *)

LEMMA RemoveAtElements ==
  ASSUME NEW S, NEW s \in Seq(S), NEW i \in 1..Len(s)
  PROVE  /\ RemoveAt(s, i) \in Seq(S)
         /\ Len(RemoveAt(s, i)) = Len(s) - 1
         /\ \A j \in 1..(Len(s) - 1) :
              RemoveAt(s, i)[j] = IF j < i THEN s[j] ELSE s[j + 1]
  <1> DEFINE a == SubSeq(s, 1, i - 1)
             b == SubSeq(s, i + 1, Len(s))
  <1>1. /\ a \in Seq(S) /\ Len(a) = i - 1
        /\ \A j \in 1..(i - 1) : a[j] = s[j]
    BY SubSeqProperties
  <1>2. /\ b \in Seq(S) /\ Len(b) = Len(s) - i
        /\ \A j \in 1..(Len(s) - i) : b[j] = s[i + j]
    BY SubSeqProperties
  <1> HIDE DEF a, b
  <1> DEFINE c == a \o b
  <1>3. /\ c \in Seq(S) /\ Len(c) = Len(a) + Len(b)
        /\ \A j \in 1..(Len(a) + Len(b)) :
             c[j] = IF j <= Len(a) THEN a[j] ELSE b[j - Len(a)]
    BY <1>1, <1>2, ConcatProperties
  <1>4. RemoveAt(s, i) = c
    BY DEF RemoveAt, a, b
  <1> HIDE DEF c
  <1>5. Len(s) \in Nat /\ Len(c) = Len(s) - 1
    BY <1>1, <1>2, <1>3
  <1>6. ASSUME NEW j \in 1..(Len(s) - 1)
        PROVE  c[j] = IF j < i THEN s[j] ELSE s[j + 1]
    <2>1. CASE j < i
      BY <1>1, <1>2, <1>3, <1>5, <2>1
    <2>2. CASE ~(j < i)
      <3>1. c[j] = b[j - (i - 1)] /\ j - (i - 1) \in 1..(Len(s) - i)
        <4>1. Len(a) = i - 1 /\ Len(b) = Len(s) - i /\ i \in Nat /\ j \in Nat
          BY <1>1, <1>2
        <4>2. j \in 1..(Len(a) + Len(b)) /\ ~(j <= Len(a))
          BY <1>5, <2>2, <4>1
        <4>3. c[j] = b[j - Len(a)]
          BY <1>3, <4>2
        <4>4. QED
          BY <1>5, <2>2, <4>1, <4>3
      <3>2. b[j - (i - 1)] = s[i + (j - (i - 1))]
        BY <1>2, <3>1
      <3>3. i + (j - (i - 1)) = j + 1
        BY <1>5
      <3>4. QED
        BY <2>2, <3>1, <3>2, <3>3
    <2>3. QED
      BY <2>1, <2>2
  <1>7. QED
    BY <1>3, <1>4, <1>5, <1>6

LEMMA InsertAtElements ==
  ASSUME NEW S, NEW s \in Seq(S), NEW i \in 1..(Len(s) + 1), NEW e \in S
  PROVE  /\ InsertAt(s, i, e) \in Seq(S)
         /\ Len(InsertAt(s, i, e)) = Len(s) + 1
         /\ \A j \in 1..(Len(s) + 1) :
              InsertAt(s, i, e)[j] =
                IF j < i THEN s[j] ELSE IF j = i THEN e ELSE s[j - 1]
  <1> DEFINE a == SubSeq(s, 1, i - 1)
             b == SubSeq(s, i, Len(s))
  <1>1. /\ a \in Seq(S) /\ Len(a) = i - 1
        /\ \A j \in 1..(i - 1) : a[j] = s[j]
    BY SubSeqProperties
  <1>2. /\ b \in Seq(S) /\ Len(b) = Len(s) - i + 1
        /\ \A j \in 1..(Len(s) - i + 1) : b[j] = s[i + j - 1]
    BY SubSeqProperties
  <1> HIDE DEF a, b
  <1> DEFINE c == a \o <<e>>
  <1>3. /\ c \in Seq(S) /\ Len(c) = i
        /\ \A j \in 1..i : c[j] = IF j < i THEN s[j] ELSE e
    <2>1. <<e>> \in Seq(S) /\ Len(<<e>>) = 1 /\ <<e>>[1] = e
      OBVIOUS
    <2>2. QED
      BY <1>1, <2>1, ConcatProperties
  <1> DEFINE f == c \o b
  <1>4. InsertAt(s, i, e) = f
    BY DEF InsertAt, a, b, c
  <1> HIDE DEF c
  <1>5. /\ f \in Seq(S) /\ Len(f) = Len(c) + Len(b)
        /\ \A j \in 1..(Len(c) + Len(b)) :
             f[j] = IF j <= Len(c) THEN c[j] ELSE b[j - Len(c)]
    BY <1>2, <1>3, ConcatProperties
  <1> HIDE DEF f
  <1>6. Len(s) \in Nat /\ Len(f) = Len(s) + 1
    BY <1>2, <1>3, <1>5
  <1>7. ASSUME NEW j \in 1..(Len(s) + 1)
        PROVE  f[j] = IF j < i THEN s[j] ELSE IF j = i THEN e ELSE s[j - 1]
    <2>1. CASE j <= i
      BY <1>2, <1>3, <1>5, <1>6, <2>1
    <2>2. CASE ~(j <= i)
      <3>1. f[j] = b[j - i] /\ j - i \in 1..(Len(s) - i + 1)
        BY <1>2, <1>3, <1>5, <1>6, <2>2
      <3>2. b[j - i] = s[i + (j - i) - 1]
        BY <1>2, <3>1
      <3>3. i + (j - i) - 1 = j - 1
        BY <1>6
      <3>4. QED
        BY <2>2, <3>1, <3>2, <3>3
    <2>3. QED
      BY <2>1, <2>2
  <1>8. QED
    BY <1>4, <1>5, <1>6, <1>7

-----------------------------------------------------------------------------
(* The methods that change the shape of the table, or several windows at once *)

LEMMA MigratedKeeps ==
  ASSUME NEW d \in Desk, NEW m \in Monitors, NEW i \in DOMAIN d.spaces[m], NEW j,
         proxy \in Proxies
  PROVE  Keeps(d, Migrated(d, m, i, j))
  <1> DEFINE stays == {w \in d.spaces[m][i] : Valid(d, w)}
             goes  == d.spaces[m][i] \ stays
             to    == [w \in stays |-> <<m, j>>]
             moved == Place(d, to)
             win   == [w \in Windows |->
                         IF w \notin goes THEN moved.win[w]
                         ELSE IF MustRestoreBeforeUntrack(d.win[w])
                         THEN Forgotten(Show(d.win[w], proxy))
                         ELSE Forgotten(d.win[w])]
  <1>1. d.spaces[m][i] \in SUBSET Windows
    BY DomainIsLen
  <1>2. DOMAIN to \subseteq Windows
    BY <1>1
  <1> HIDE DEF to, goes
  <1>3. Keeps(d, moved)
    BY <1>2, PlaceKeeps
  <1> HIDE DEF moved
  <1>4. win \in [Windows -> Window]
    <2>1. \A w \in Windows : d.win[w] \in Window /\ moved.win[w] \in Window
      BY <1>3 DEF Keeps, Desk
    <2>2. QED
      BY <2>1, ShowType, ForgottenType
  <1>5. moved.spaces \in [Monitors -> Seq(SUBSET Windows)]
    BY <1>3 DEF Keeps, Desk
  <1> DEFINE rows == Dropped(moved.spaces, goes)
  <1>6. /\ rows \in [Monitors -> Seq(SUBSET Windows)]
        /\ \A n \in Monitors : Len(rows[n]) = Len(moved.spaces[n])
    BY <1>5, DroppedType
  <1>7. Migrated(d, m, i, j) =
          [moved EXCEPT !.spaces = rows, !.pinned = @ \ goes, !.focus = @ \ goes,
                        !.win = win]
    BY DEF Migrated, moved, to, goes
  <1> HIDE DEF win, rows
  <1>8. QED
    BY <1>3, <1>4, <1>6, <1>7 DEF Keeps, SameShape, Desk

LEMMA ShortenedSound ==
  ASSUME NEW d, Sound(d), NEW m \in Monitors, NEW i \in DOMAIN d.spaces[m],
         Len(d.spaces[m]) > 1, proxy \in Proxies
  PROVE  /\ Sound(Shortened(d, m, i))
         /\ Shortened(d, m, i).current[m] \in DOMAIN Shortened(d, m, i).spaces[m]
  <1> DEFINE e == Migrated(d, m, i, RemovalMigrationTarget(i))
             row == RemoveAt(e.spaces[m], i)
             now == RemapAfterRemoval(e.current[m], i)
             f == [e EXCEPT !.spaces[m] = row, !.current[m] = now]
  <1>1. d \in Desk
    BY DEF Sound
  <1>2. Keeps(d, e)
    BY <1>1, MigratedKeeps
  <1> HIDE DEF e
  <1>3. Sound(e) /\ e \in Desk
    BY <1>2, KeepsSound DEF Sound
  <1>4. /\ Len(e.spaces[m]) \in Nat /\ Len(e.spaces[m]) > 1
        /\ i \in 1..Len(e.spaces[m])
        /\ e.current[m] \in 1..Len(e.spaces[m])
        /\ Len(e.spaces[m]) <= MaxSpaces
        /\ e.spaces[m] \in Seq(SUBSET Windows)
    <2>1. Len(e.spaces[m]) = Len(d.spaces[m])
      BY <1>2 DEF Keeps, SameShape
    <2>2. i \in 1..Len(d.spaces[m]) /\ Len(d.spaces[m]) \in Nat
      BY <1>1, DomainIsLen
    <2>3. DOMAIN e.spaces[m] = 1..Len(e.spaces[m])
      BY <1>3, DomainIsLen
    <2>4. e.spaces[m] \in Seq(SUBSET Windows) /\ Len(e.spaces[m]) <= MaxSpaces
      BY <1>3 DEF Sound, Bounded, Desk
    <2>5. e.current[m] \in DOMAIN e.spaces[m]
      BY <1>3, <2>1, <2>2 DEF Sound, Bounded
    <2>6. QED
      BY <2>1, <2>2, <2>3, <2>4, <2>5
  <1>5. row \in Seq(SUBSET Windows) /\ Len(row) = Len(e.spaces[m]) - 1
    BY <1>4, RemoveAtElements
  <1>6. now \in 1..(Len(e.spaces[m]) - 1)
    BY <1>4 DEF RemapAfterRemoval
  <1>7. f = Shortened(d, m, i)
    BY DEF Shortened, e
  <1>8. DOMAIN row = 1..(Len(e.spaces[m]) - 1)
    BY <1>5
  <1>9. now \in Nat
    BY <1>4, <1>6
  <1> HIDE DEF row, now
  <1>10. e.spaces \in [Monitors -> Seq(SUBSET Windows)] /\ e.current \in [Monitors -> Nat]
    BY <1>3 DEF Desk
  <1> DEFINE rows == [e.spaces EXCEPT ![m] = row]
             nows == [e.current EXCEPT ![m] = now]
  <1>11. /\ rows \in [Monitors -> Seq(SUBSET Windows)]
         /\ nows \in [Monitors -> Nat]
         /\ \A n \in Monitors : rows[n] = IF n = m THEN row ELSE e.spaces[n]
         /\ \A n \in Monitors : nows[n] = IF n = m THEN now ELSE e.current[n]
    BY <1>5, <1>9, <1>10
  <1>12. f = [e EXCEPT !.spaces = rows, !.current = nows]
    BY <1>3 DEF Desk
  <1> HIDE DEF rows, nows, f
  <1>13. f \in Desk /\ f.spaces = rows /\ f.current = nows
    BY <1>3, <1>11, <1>12 DEF Desk
  <1>14. ASSUME NEW n \in Monitors
         PROVE  /\ Len(f.spaces[n]) <= MaxSpaces
                /\ Len(f.spaces[n]) > 0 => f.current[n] \in DOMAIN f.spaces[n]
    <2>1. CASE n = m
      <3>1. Len(row) <= MaxSpaces
        BY <1>4, <1>5, SpacesAssumption
      <3>2. now \in DOMAIN row
        BY <1>6, <1>8
      <3>3. QED
        BY <1>11, <1>13, <2>1, <3>1, <3>2
    <2>2. CASE n # m
      BY <1>3, <1>11, <1>13, <2>2 DEF Sound, Bounded
    <2>3. QED
      BY <2>1, <2>2
  <1>15. QED
    BY <1>6, <1>7, <1>8, <1>11, <1>13, <1>14 DEF Sound, Bounded

LEMMA AddedSound ==
  ASSUME NEW d, Sound(d), NEW m \in Table(d), Len(d.spaces[m]) < MaxSpaces
  PROVE  Sound(Added(d, m))
  <1> DEFINE row == Append(d.spaces[m], {})
             f   == [d EXCEPT !.spaces[m] = row]
  <1>1. d \in Desk /\ m \in Monitors /\ d.spaces[m] \in Seq(SUBSET Windows)
    BY DEF Sound, Desk, Table
  <1>2. row \in Seq(SUBSET Windows) /\ Len(row) = Len(d.spaces[m]) + 1
          /\ Len(d.spaces[m]) \in Nat /\ DOMAIN row = 1..(Len(d.spaces[m]) + 1)
    BY <1>1
  <1> HIDE DEF row
  <1>3. /\ f \in Desk /\ f.current = d.current
        /\ \A n \in Monitors : f.spaces[n] = IF n = m THEN row ELSE d.spaces[n]
    BY <1>1, <1>2 DEF Desk
  <1>4. f = Added(d, m)
    BY DEF Added, row
  <1> HIDE DEF f
  <1>5. d.current[m] \in 1..Len(d.spaces[m])
    BY <1>1, DomainIsLen DEF Sound, Bounded, Table
  <1>6. Bounded(f)
    BY <1>2, <1>3, <1>5, SpacesAssumption DEF Sound, Bounded
  <1>7. QED
    BY <1>3, <1>4, <1>6 DEF Sound

LEMMA RebuiltSound ==
  ASSUME NEW d, Sound(d), plugged \in SUBSET Monitors, proxy \in Proxies
  PROVE  Sound(Rebuilt(d))
  <1> DEFINE gone    == Table(d) \ plugged
             fresh   == plugged \ Table(d)
             loosed  == UNION {On(d, m) : m \in gone}
             restore == {w \in loosed : Valid(d, w)}
             row     == [i \in 1..DefaultSpaces |-> {}]
             rows    == [m \in Monitors |->
                           IF m \in fresh THEN row
                           ELSE IF m \in gone THEN <<>> ELSE d.spaces[m]]
             now     == [m \in Monitors |->
                           IF m \in fresh \cup gone THEN 1 ELSE d.current[m]]
             pins    == {w \in d.pinned : d.win[w].live}
             win     == [w \in Windows |->
                           IF w \notin loosed THEN d.win[w]
                           ELSE IF w \in restore THEN Forgotten(Show(d.win[w], proxy))
                           ELSE Forgotten(d.win[w])]
             f == [d EXCEPT !.spaces = rows, !.current = now, !.pinned = pins,
                            !.win = win]
  <1>1. d \in Desk
    BY DEF Sound
  <1>2. row \in Seq(SUBSET Windows) /\ Len(row) = DefaultSpaces
          /\ DOMAIN row = 1..DefaultSpaces
    <2>1. DefaultSpaces \in Nat /\ row \in [1..DefaultSpaces -> SUBSET Windows]
      BY SpacesAssumption
    <2>2. QED
      BY <2>1
  <1> HIDE DEF row, gone, fresh
  <1>3. rows \in [Monitors -> Seq(SUBSET Windows)]
    <2>1. <<>> \in Seq(SUBSET Windows)
      OBVIOUS
    <2>2. QED
      BY <1>1, <1>2, <2>1 DEF Desk
  <1>4. now \in [Monitors -> Nat]
    BY <1>1 DEF Desk
  <1>5. pins \in SUBSET Windows
    BY <1>1 DEF Desk
  <1> HIDE DEF loosed, restore
  <1>6. win \in [Windows -> Window]
    <2>1. \A w \in Windows : d.win[w] \in Window
      BY <1>1 DEF Desk
    <2>2. QED
      BY <2>1, ShowType, ForgottenType
  <1>7. f = Rebuilt(d)
    BY DEF Rebuilt, gone, fresh, loosed, restore, row
  <1>8. ASSUME NEW m \in Monitors
        PROVE  /\ Len(rows[m]) <= MaxSpaces
               /\ Len(rows[m]) > 0 => now[m] \in DOMAIN rows[m]
    <2>1. CASE m \in fresh
      BY <1>2, <2>1, SpacesAssumption
    <2>2. CASE m \notin fresh /\ m \in gone
      BY <2>2, SpacesAssumption
    <2>3. CASE m \notin fresh /\ m \notin gone
      BY <2>3 DEF Sound, Bounded
    <2>4. QED
      BY <2>1, <2>2, <2>3
  <1> HIDE DEF rows, now, pins, win
  <1>9. f \in Desk /\ f.spaces = rows /\ f.current = now
    BY <1>1, <1>3, <1>4, <1>5, <1>6 DEF Desk
  <1>10. QED
    BY <1>7, <1>8, <1>9 DEF Sound, Bounded

LEMMA PinKeeps ==
  ASSUME NEW d \in Desk, NEW w \in Windows, proxy \in Proxies
  PROVE  Keeps(d, Pin(d, w))
  <1>1. Show(d.win[w], proxy) \in Window
    BY ShowType DEF Desk
  <1>2. Keeps(d, [d EXCEPT !.pinned = @ \cup {w}, !.win[w] = Show(d.win[w], proxy)])
    BY <1>1 DEF Keeps, SameShape, Desk
  <1>3. QED
    BY <1>2, KeepsSelf DEF Pin

LEMMA UnpinKeeps ==
  ASSUME NEW d \in Desk, NEW w \in Windows, proxy \in Proxies
  PROVE  Keeps(d, Unpin(d, w))
  <1> DEFINE loose == [d EXCEPT !.pinned = @ \ {w}]
  <1>1. Keeps(d, loose)
    BY DEF Keeps, SameShape, Desk
  <1>2. loose \in Desk
    BY <1>1 DEF Keeps
  <1> HIDE DEF loose
  <1>3. \A m, i : Keeps(loose, Track(loose, w, m, i))
    BY <1>2, TrackKeeps
  <1>4. \A m, i : Keeps(d, Track(loose, w, m, i))
    BY <1>1, <1>3, KeepsTransitive
  <1>5. QED
    BY <1>1, <1>4 DEF Unpin, loose

LEMMA EndedSound ==
  ASSUME NEW d \in Desk PROVE Sound(Ended(d))
  <1> DEFINE rows == [m \in Monitors |-> <<>>]
             now  == [m \in Monitors |-> 1]
  <1>1. rows \in [Monitors -> Seq(SUBSET Windows)] /\ \A m \in Monitors : Len(rows[m]) = 0
    <2>1. <<>> \in Seq(SUBSET Windows) /\ Len(<<>>) = 0
      OBVIOUS
    <2>2. QED
      BY <2>1
  <1>2. now \in [Monitors -> Nat]
    OBVIOUS
  <1>3. Ended(d) = [d EXCEPT !.spaces = rows, !.current = now, !.pinned = {}, !.focus = {}]
    BY DEF Ended
  <1> HIDE DEF rows, now
  <1>4. Ended(d) \in Desk /\ Ended(d).spaces = rows
    BY <1>1, <1>2, <1>3 DEF Desk
  <1>5. QED
    BY <1>1, <1>4, SpacesAssumption DEF Sound, Bounded

LEMMA ReleasedKeeps ==
  ASSUME NEW d \in Desk, proxy \in Proxies PROVE Keeps(d, Released(d))
  <1> DEFINE managed == {w \in Windows : Tracked(d, w) /\ Valid(d, w)}
             win == [w \in Windows |->
                       Reclaim(IF w \in managed THEN Forgotten(Show(d.win[w], proxy))
                               ELSE d.win[w], proxy)]
  <1> HIDE DEF managed
  <1>1. \A w \in Windows : d.win[w] \in Window
    BY DEF Desk
  <1>2. win \in [Windows -> Window]
    BY <1>1, ShowType, ForgottenType, ReclaimType
  <1>3. Released(d) = [d EXCEPT !.win = win]
    BY DEF Released, managed
  <1> HIDE DEF win
  <1>4. QED
    BY <1>2, <1>3, WinKeeps

LEMMA HomeIsPlace ==
  ASSUME NEW d, NEW w, Tracked(d, w)
  PROVE  /\ Home(d, w) \in Places(d, w)
         /\ Home(d, w)[1] \in Monitors
         /\ Home(d, w)[2] \in DOMAIN d.spaces[Home(d, w)[1]]
  <1>1. Home(d, w) \in Places(d, w)
    BY DEF Tracked, Home
  <1>2. QED
    BY <1>1 DEF Places

\* A window adopted where it sits is tracked: the current space of an attached
\* display exists.
LEMMA AdoptedIsTracked ==
  ASSUME NEW d, Sound(d), NEW w \in Windows, MonitorOf(d, w) # NoMonitor
  PROVE  Tracked(AtCurrent(d, {w}), w)
  <1> DEFINE m == d.win[w].mon
             i == d.current[m]
             to == [x \in {w} |-> <<d.win[x].mon, d.current[d.win[x].mon]>>]
             e == AtCurrent(d, {w})
  <1>1. d \in Desk /\ m \in Monitors /\ Len(d.spaces[m]) > 0
    BY DEF MonitorOf, Table, Sound
  <1>2. i \in DOMAIN d.spaces[m] /\ i \in 1..MaxSpaces
    BY <1>1, DomainIsLen, SpacesAssumption DEF Sound, Bounded
  <1>3. DOMAIN to = {w} /\ to[w] = <<m, i>>
    OBVIOUS
  <1>4. e.spaces[m][i] = (d.spaces[m][i] \ DOMAIN to)
                            \cup {x \in DOMAIN to : to[x] = <<m, i>>}
          /\ DOMAIN e.spaces[m] = DOMAIN d.spaces[m]
    <2> HIDE DEF m, i
    <2>1. e = Place(d, to)
      BY DEF AtCurrent
    <2> HIDE DEF e, to
    <2>2. e.spaces = [n \in Monitors |-> [j \in DOMAIN d.spaces[n] |->
                        (d.spaces[n][j] \ DOMAIN to)
                          \cup {x \in DOMAIN to : to[x] = <<n, j>>}]]
      BY <1>1, <2>1 DEF Place, Desk
    <2>3. QED
      BY <1>1, <1>2, <2>2
  <1> HIDE DEF e, to, m, i
  <1>5. w \in e.spaces[m][i] /\ i \in DOMAIN e.spaces[m]
    BY <1>2, <1>3, <1>4
  <1>6. <<m, i>> \in Places(e, w)
    BY <1>1, <1>2, <1>5 DEF Places
  <1>7. QED
    BY <1>6 DEF Tracked, e

-----------------------------------------------------------------------------
(* The inductive invariant: the types, and the bounds of every row of spaces. *)
(* The bounds are needed for the types already: a handler reads               *)
(* spaces[m][current[m]], and writes the indices it computes from it.         *)

Flags ==
  /\ plugged \in SUBSET Monitors
  /\ notice \in BOOLEAN
  /\ pending \in BOOLEAN
  /\ settling \in BOOLEAN
  /\ suppressed \in BOOLEAN
  /\ showAll \in BOOLEAN
  /\ proxy \in Proxies
  /\ phase \in {"running", "exited", "crashed"}

TypedAndBounded == TypeOK /\ Bounded(desk)

LEMMA InvariantParts == TypedAndBounded <=> Sound(desk) /\ Flags
  BY DEF TypedAndBounded, TypeOK, Sound, Flags

LEMMA InitSound ==
  ASSUME Init PROVE TypedAndBounded
  <1>1. PICK live \in [Windows -> BOOLEAN], at \in [Windows -> Monitors] :
          desk = [win     |-> [w \in Windows |-> NewWindow(w, live[w], at[w])],
                  spaces  |-> [m \in Monitors |-> <<>>],
                  current |-> [m \in Monitors |-> 1],
                  pinned  |-> {}, focus |-> {}, fg |-> NoWindow]
    BY DEF Init
  <1> DEFINE win  == [w \in Windows |-> NewWindow(w, live[w], at[w])]
             rows == [m \in Monitors |-> <<>>]
             now  == [m \in Monitors |-> 1]
  <1>2. win \in [Windows -> Window]
    BY DEF NewWindow, Window
  <1>3. rows \in [Monitors -> Seq(SUBSET Windows)] /\ \A m \in Monitors : Len(rows[m]) = 0
    <2>1. <<>> \in Seq(SUBSET Windows) /\ Len(<<>>) = 0
      OBVIOUS
    <2>2. QED
      BY <2>1
  <1>4. now \in [Monitors -> Nat]
    OBVIOUS
  <1> HIDE DEF win, rows, now
  <1>5. desk = [win |-> win, spaces |-> rows, current |-> now,
                pinned |-> {}, focus |-> {}, fg |-> NoWindow]
    BY <1>1 DEF win, rows, now
  <1>6. Sound(desk)
    BY <1>2, <1>3, <1>4, <1>5, SpacesAssumption DEF Sound, Desk, Bounded
  <1>7. Flags
    BY DEF Init, Flags, Proxies
  <1>8. QED
    BY <1>6, <1>7, InvariantParts

LEMMA CommandSound ==
  ASSUME TypedAndBounded, Command PROVE Sound(desk')
  <1>1. Sound(desk) /\ desk \in Desk /\ Flags
    BY InvariantParts DEF Sound
  <1>2. showAll \in BOOLEAN /\ proxy \in Proxies
    BY <1>1 DEF Flags
  <1>3. ASSUME Keeps(desk, desk') PROVE Sound(desk')
    BY <1>1, <1>3, KeepsSound
  <1>4. \A m \in Table(desk) : m \in Monitors
    BY DEF Table
  <1>5. ASSUME NEW m \in Monitors, NEW i \in Indices,
               GoToSpace(m, i) \/ TraySwitch(m, i)
        PROVE  Sound(desk')
    <2>1. i \in DOMAIN desk.spaces[m] /\ SwitchFrom(desk, m, i, NoWindow)
      BY <1>5 DEF GoToSpace, TraySwitch
    <2>2. QED
      BY <1>1, <1>2, <2>1, SwitchFromSound
  <1>6. ASSUME NEW m \in Monitors, NEW i \in Indices, MoveToSpace(m, i)
        PROVE  Sound(desk')
    <2> DEFINE d == Track(desk, desk.fg, m, i)
    <2>1. desk.fg \in Windows /\ i \in DOMAIN desk.spaces[m] /\ SwitchFrom(d, m, i, desk.fg)
      BY <1>1, <1>6 DEF MoveToSpace, Desk
    <2>2. Keeps(desk, d)
      BY <1>1, <1>2, <2>1, TrackKeeps
    <2> HIDE DEF d
    <2>3. Sound(d) /\ d \in Desk
      BY <1>1, <2>2, KeepsSound DEF Sound
    <2>4. i \in DOMAIN d.spaces[m]
      BY <1>1, <2>1, <2>2, <2>3, DomainIsLen DEF Keeps, SameShape
    <2>5. QED
      BY <1>2, <2>1, <2>3, <2>4, SwitchFromSound
  <1>7. ASSUME NEW m \in Monitors, NEW i \in Indices, RemoveSpace(m, i)
        PROVE  Sound(desk')
    <2> DEFINE d == Shortened(desk, m, i)
    <2>1. /\ i \in DOMAIN desk.spaces[m] /\ Len(desk.spaces[m]) > 1
          /\ SwitchFrom(d, m, d.current[m], NoWindow)
      BY <1>7 DEF RemoveSpace
    <2>2. Sound(d) /\ d.current[m] \in DOMAIN d.spaces[m]
      BY <1>1, <1>2, <2>1, ShortenedSound
    <2> HIDE DEF d
    <2>3. QED
      BY <1>2, <2>1, <2>2, SwitchFromSound
  <1>8. ASSUME NEW m \in Monitors, NEW i \in Indices, NEW j \in Indices,
               ReorderSpace(m, i, j)
        PROVE  Sound(desk')
    <2> DEFINE old == desk.spaces[m]
               cut == RemoveAt(old, i)
               row == InsertAt(cut, j, old[i])
               now == RemapAfterReorder(desk.current[m], i, j)
    <2>1. /\ i \in DOMAIN old /\ j \in DOMAIN old /\ m \in Table(desk)
          /\ desk' = [desk EXCEPT !.spaces[m] = row, !.current[m] = now]
      BY <1>8 DEF ReorderSpace
    <2>2. /\ old \in Seq(SUBSET Windows) /\ Len(old) \in Nat /\ DOMAIN old = 1..Len(old)
          /\ Len(old) > 0 /\ Len(old) <= MaxSpaces
          /\ desk.current[m] \in 1..Len(old)
          /\ old[i] \in SUBSET Windows
      BY <1>1, <2>1, DomainIsLen DEF Sound, Bounded, Desk
    <2> HIDE DEF old
    <2>3. cut \in Seq(SUBSET Windows) /\ Len(cut) = Len(old) - 1
      BY <2>1, <2>2, RemoveAtElements
    <2> HIDE DEF cut
    <2>4. row \in Seq(SUBSET Windows) /\ Len(row) = Len(old)
      <3>1. j \in 1..(Len(cut) + 1)
        BY <2>1, <2>2, <2>3
      <3>2. row \in Seq(SUBSET Windows) /\ Len(row) = Len(cut) + 1
        <4> DEFINE S == SUBSET Windows
        <4>1. cut \in Seq(S) /\ old[i] \in S
          BY <2>2, <2>3
        <4> HIDE DEF S
        <4>2. row \in Seq(S) /\ Len(row) = Len(cut) + 1
          BY <3>1, <4>1, InsertAtElements
        <4>3. QED
          BY <4>2 DEF S
      <3>3. QED
        BY <2>2, <2>3, <3>2
    <2>5. now \in 1..Len(old)
      BY <2>1, <2>2 DEF RemapAfterReorder
    <2>6. DOMAIN row = 1..Len(old) /\ now \in Nat
      BY <2>2, <2>4, <2>5
    <2> HIDE DEF row, now
    <2>7. desk' \in Desk
      BY <1>1, <2>1, <2>4, <2>6 DEF Desk
    <2>8. ASSUME NEW n \in Monitors
          PROVE  /\ desk'.spaces[n] = IF n = m THEN row ELSE desk.spaces[n]
                 /\ desk'.current[n] = IF n = m THEN now ELSE desk.current[n]
      BY <1>1, <2>1 DEF Desk
    <2>9. ASSUME NEW n \in Monitors
          PROVE  /\ Len(desk'.spaces[n]) <= MaxSpaces
                 /\ Len(desk'.spaces[n]) > 0 => desk'.current[n] \in DOMAIN desk'.spaces[n]
      <3>1. CASE n = m
        BY <2>2, <2>4, <2>5, <2>6, <2>8, <3>1
      <3>2. CASE n # m
        BY <1>1, <2>8, <3>2 DEF Sound, Bounded
      <3>3. QED
        BY <3>1, <3>2
    <2>10. QED
      BY <2>7, <2>9 DEF Sound, Bounded
  <1>9. ASSUME NEW m \in Monitors, AddSpace(m) PROVE Sound(desk')
    BY <1>1, <1>9, AddedSound DEF AddSpace
  <1>10. ASSUME NEW w \in Windows, NEW m \in Monitors, NEW i \in Indices,
                MoveWindowToSpace(w, m, i)
         PROVE  Sound(desk')
    BY <1>1, <1>2, <1>3, <1>10, TrackKeeps DEF MoveWindowToSpace
  <1>11. ASSUME NEW w \in Windows, NEW m \in Monitors, NEW i \in Indices,
                NEW s \in BOOLEAN, RestoreWorkspaceRules(w, m, i, s)
         PROVE  Sound(desk')
    <2>1. PICK minimized \in BOOLEAN, landed \in {desk.win[w].mon} \cup ({m} \cap plugged) :
            LET put    == [desk EXCEPT !.win[w] =
                             [@ EXCEPT !.visible = "yes", !.iconic = minimized,
                                       !.mon = landed]]
                placed == Track(put, w, m, i)
                pinned == IF s /\ Tracked(placed, w) THEN Pin(placed, w) ELSE placed
            IN  \E scanned \in (IF Table(pinned) = {} THEN {pinned}
                                ELSE {pinned, Scan(pinned)}) :
                  LET shown == Refresh(scanned, Table(scanned))
                  IN  \E f \in {NoWindow} \cup UNION {Landing(shown, n) : n \in Table(shown)} :
                        desk' = Focused(shown, f)
      BY <1>11 DEF RestoreWorkspaceRules
    <2> DEFINE x      == [desk.win[w] EXCEPT !.visible = "yes", !.iconic = minimized,
                                             !.mon = landed]
               put    == [desk EXCEPT !.win[w] = x]
               placed == Track(put, w, m, i)
               pinned == IF s /\ Tracked(placed, w) THEN Pin(placed, w) ELSE placed
    <2>2. x \in Window
      <3>1. desk.win[w] \in Window /\ landed \in Monitors
        BY <1>1 DEF Desk, Window
      <3>2. QED
        BY <3>1 DEF Window
    <2> HIDE DEF x
    <2>3. Keeps(desk, put)
      BY <1>1, <2>2, WinAtKeeps
    <2> HIDE DEF put
    <2>4. Keeps(put, placed)
      BY <1>2, <2>3, TrackKeeps DEF Keeps
    <2> HIDE DEF placed
    <2>5. Keeps(placed, pinned)
      BY <1>2, <2>4, PinKeeps, KeepsSelf DEF Keeps
    <2> HIDE DEF pinned
    <2>6. PICK scanned \in {pinned, Scan(pinned)} :
            LET shown == Refresh(scanned, Table(scanned))
            IN  \E f \in {NoWindow} \cup UNION {Landing(shown, n) : n \in Table(shown)} :
                  desk' = Focused(shown, f)
      <3>1. \E scanned \in (IF Table(pinned) = {} THEN {pinned}
                            ELSE {pinned, Scan(pinned)}) :
              LET shown == Refresh(scanned, Table(scanned))
              IN  \E f \in {NoWindow} \cup UNION {Landing(shown, n) : n \in Table(shown)} :
                    desk' = Focused(shown, f)
        BY <2>1 DEF pinned, placed, put, x
      <3>2. QED
        BY <3>1
    <2> DEFINE shown == Refresh(scanned, Table(scanned))
    <2>7. Keeps(pinned, scanned)
      BY <2>5, <2>6, ScanKeeps, KeepsSelf DEF Keeps
    <2>8. Keeps(scanned, shown)
      BY <1>2, <2>7, RefreshKeeps DEF Keeps
    <2> HIDE DEF shown
    <2>9. Sound(shown)
      BY <1>1, <2>3, <2>4, <2>5, <2>7, <2>8, KeepsSound
    <2>10. PICK f \in {NoWindow} \cup UNION {Landing(shown, n) : n \in Table(shown)} :
             desk' = Focused(shown, f)
      BY <2>6 DEF shown
    <2>11. f \in Windows \cup {NoWindow}
      BY <2>9, <2>10, LandingType
    <2>12. QED
      BY <2>9, <2>10, <2>11, FocusedKeeps, KeepsSound DEF Sound
  <1>12. ASSUME NEW w \in Windows, NEW m \in Monitors, MoveWindowToNewSpace(w, m)
         PROVE  Sound(desk')
    <2> DEFINE d == Added(desk, m)
    <2>1. Sound(d) /\ desk' = Track(d, w, m, Len(d.spaces[m]))
      BY <1>1, <1>12, AddedSound DEF MoveWindowToNewSpace
    <2> HIDE DEF d
    <2>2. QED
      BY <1>2, <2>1, TrackKeeps, KeepsSound DEF Sound
  <1>13. ASSUME NEW w \in Windows, TogglePin(w) PROVE Sound(desk')
    BY <1>1, <1>2, <1>3, <1>13, PinKeeps, UnpinKeeps DEF TogglePin
  <1>14. ASSUME SetShowAllTaskbar PROVE Sound(desk')
    <2> DEFINE win == [w \in Windows |->
                        IF /\ Valid(desk, w)
                           /\ \E m \in Table(desk) : w \in On(desk, m) \ Up(desk, m)
                        THEN Hide(Show(desk.win[w], proxy), ~showAll, proxy)
                        ELSE desk.win[w]]
    <2>1. \A w \in Windows : desk.win[w] \in Window
      BY <1>1 DEF Desk
    <2>2. \A w \in Windows : Hide(Show(desk.win[w], proxy), ~showAll, proxy) \in Window
      BY <1>2, <2>1, ShowType, HideType
    <2>3. win \in [Windows -> Window]
      BY <2>1, <2>2
    <2>4. desk' = [desk EXCEPT !.win = win]
      BY <1>14 DEF SetShowAllTaskbar
    <2> HIDE DEF win
    <2>5. QED
      BY <1>1, <1>3, <2>3, <2>4, WinKeeps
  <1>15. QED
    BY <1>5, <1>6, <1>7, <1>8, <1>9, <1>10, <1>11, <1>12, <1>13, <1>14 DEF Command

LEMMA EventSound ==
  ASSUME TypedAndBounded, Event PROVE Sound(desk')
  <1>1. Sound(desk) /\ desk \in Desk /\ Flags
    BY InvariantParts DEF Sound
  <1>2. showAll \in BOOLEAN /\ proxy \in Proxies
    BY <1>1 DEF Flags
  <1>3. ASSUME Keeps(desk, desk') PROVE Sound(desk')
    BY <1>1, <1>3, KeepsSound
  <1>4. ASSUME NEW w \in Windows, Activated(w) PROVE Sound(desk')
    <2> DEFINE adopted == IF Tracked(desk, w) THEN desk ELSE AtCurrent(desk, {w})
               home    == Home(adopted, w)
               sits    == MonitorOf(adopted, w)
               moved   == sits \notin {NoMonitor, home[1]} /\ MayRehome(TRUE)
               rehomed == Track(adopted, w, sits, adopted.current[sits])
    <2>1. /\ Tracked(desk, w) \/ MonitorOf(desk, w) # NoMonitor
          /\ \/ desk' = rehomed
             \/ SwitchFrom(adopted, home[1], home[2], w)
             \/ desk' = adopted
      BY <1>4 DEF Activated
    <2>2. Keeps(desk, adopted) /\ Tracked(adopted, w)
      BY <1>1, <2>1, AdoptedIsTracked, AtCurrentKeeps, KeepsSelf
    <2> HIDE DEF adopted
    <2>3. Sound(adopted) /\ adopted \in Desk
      BY <1>1, <2>2, KeepsSound DEF Sound
    <2>4. CASE desk' = rehomed
      BY <1>2, <2>3, <2>4, TrackKeeps, KeepsSound
    <2>5. CASE SwitchFrom(adopted, home[1], home[2], w)
      <3>1. home[1] \in Monitors /\ home[2] \in DOMAIN adopted.spaces[home[1]]
        BY <2>2, HomeIsPlace
      <3> HIDE DEF home
      <3>2. QED
        BY <1>2, <2>3, <2>5, <3>1, SwitchFromSound
    <2>6. QED
      BY <2>1, <2>3, <2>4, <2>5
  <1>5. ASSUME NEW w \in Windows, WindowDestroyed(w) PROVE Sound(desk')
    BY <1>1, <1>3, <1>5, RemoveWindowKeeps DEF WindowDestroyed
  <1>6. ASSUME NEW w \in Windows, AdoptUntracked(w) PROVE Sound(desk')
    BY <1>1, <1>3, <1>6, AtCurrentKeeps DEF AdoptUntracked
  <1>7. ASSUME NEW w \in Windows, MoveSizeEnd(w) PROVE Sound(desk')
    BY <1>1, <1>2, <1>3, <1>7, TrackKeeps DEF MoveSizeEnd
  <1>8. ASSUME ScanWindows PROVE Sound(desk')
    BY <1>1, <1>3, <1>8, ScanKeeps DEF ScanWindows
  <1>9. ASSUME CloseVerify PROVE Sound(desk')
    BY <1>1, <1>3, <1>9, PruneKeeps DEF CloseVerify
  <1>10. QED
    BY <1>4, <1>5, <1>6, <1>7, <1>8, <1>9 DEF Event

LEMMA TimerSound ==
  ASSUME TypedAndBounded, Timer PROVE Sound(desk')
  <1>1. Sound(desk) /\ Flags
    BY InvariantParts
  <1>2. ASSUME SettleElapses \/ SuppressionElapses \/ DisplayChange \/ SessionChange
        PROVE  Sound(desk')
    <2>1. desk' = desk
      BY <1>2 DEF SettleElapses, SuppressionElapses, DisplayChange, SessionChange
    <2>2. QED
      BY <1>1, <2>1
  <1>3. ASSUME Reconcile PROVE Sound(desk')
    <2> DEFINE d == Rebuilt(desk)
    <2>1. Sound(d) /\ desk' = Scan(d)
      BY <1>1, <1>3, RebuiltSound DEF Reconcile, Flags
    <2> HIDE DEF d
    <2>2. QED
      BY <2>1, ScanKeeps, KeepsSound DEF Sound
  <1>4. QED
    BY <1>2, <1>3 DEF Timer

LEMMA LifeSound ==
  ASSUME TypedAndBounded, Life PROVE Sound(desk')
  <1>1. Sound(desk) /\ desk \in Desk /\ Flags
    BY InvariantParts DEF Sound
  <1>2. proxy \in Proxies /\ plugged \in SUBSET Monitors
    BY <1>1 DEF Flags
  <1>3. ASSUME Exit PROVE Sound(desk')
    <2>1. Released(desk) \in Desk
      BY <1>1, <1>2, ReleasedKeeps DEF Keeps
    <2>2. QED
      BY <1>3, <2>1, EndedSound DEF Exit
  <1>4. ASSUME Crash PROVE Sound(desk')
    BY <1>1, <1>4, EndedSound DEF Crash
  <1>5. ASSUME Start PROVE Sound(desk')
    <2> DEFINE win == [w \in Windows |-> Reclaim(desk.win[w], proxy)]
               d == [desk EXCEPT !.win = win]
               e == Rebuilt(d)
    <2>1. win \in [Windows -> Window]
      BY <1>1, <1>2, ReclaimType DEF Desk
    <2>2. desk' = Scan(e)
      BY <1>5 DEF Start
    <2> HIDE DEF win
    <2>3. Sound(d)
      BY <1>1, <2>1, WinKeeps, KeepsSound
    <2> HIDE DEF d
    <2>4. Sound(e)
      BY <1>2, <2>3, RebuiltSound
    <2> HIDE DEF e
    <2>5. QED
      BY <2>2, <2>4, ScanKeeps, KeepsSound DEF Sound
  <1>6. QED
    BY <1>3, <1>4, <1>5 DEF Life

LEMMA EnvironmentSound ==
  ASSUME TypedAndBounded, Environment PROVE Sound(desk')
  <1>1. Sound(desk) /\ desk \in Desk
    BY InvariantParts DEF Sound
  <1>2. ASSUME NEW w \in Windows, NEW x \in Window, Alter(w, x) PROVE Sound(desk')
    BY <1>1, <1>2, WinAtKeeps, KeepsSound DEF Alter
  <1>3. ASSUME NEW w \in Windows,
               \/ Open(w) \/ Retitle(w) \/ AppHide(w) \/ AppShow(w)
               \/ Minimize(w) \/ Restore(w) \/ \E m \in Monitors : Drag(w, m)
        PROVE  Sound(desk')
    <2>1. desk.win[w] \in Window
      BY <1>1 DEF Desk
    <2>2. CASE Open(w)
      <3>1. PICK m \in plugged : Alter(w, [desk.win[w] EXCEPT !.live = TRUE, !.mon = m])
        BY <2>2 DEF Open
      <3>2. m \in Monitors
        BY <3>1, InvariantParts DEF Flags
      <3>3. [desk.win[w] EXCEPT !.live = TRUE, !.mon = m] \in Window
        BY <2>1, <3>2 DEF Window
      <3>4. QED
        BY <1>2, <3>1, <3>3
    <2>3. CASE Retitle(w)
      <3>1. [desk.win[w] EXCEPT !.titled = ~@] \in Window
        BY <2>1 DEF Window
      <3>2. QED
        BY <1>2, <2>3, <3>1 DEF Retitle
    <2>4. CASE AppHide(w)
      <3>1. [desk.win[w] EXCEPT !.visible = "app"] \in Window
        BY <2>1 DEF Window
      <3>2. QED
        BY <1>2, <2>4, <3>1 DEF AppHide
    <2>5. CASE AppShow(w)
      <3>1. [desk.win[w] EXCEPT !.visible = "yes"] \in Window
        BY <2>1 DEF Window
      <3>2. QED
        BY <1>2, <2>5, <3>1 DEF AppShow
    <2>6. CASE Minimize(w)
      <3>1. [desk.win[w] EXCEPT !.iconic = TRUE] \in Window
        BY <2>1 DEF Window
      <3>2. QED
        BY <1>2, <2>6, <3>1 DEF Minimize
    <2>7. CASE Restore(w)
      <3>1. [desk.win[w] EXCEPT !.iconic = FALSE] \in Window
        BY <2>1 DEF Window
      <3>2. QED
        BY <1>2, <2>7, <3>1 DEF Restore
    <2>8. CASE \E m \in Monitors : Drag(w, m)
      <3>1. PICK m \in Monitors : Drag(w, m)
        BY <2>8
      <3>2. [desk.win[w] EXCEPT !.mon = m] \in Window
        BY <2>1, <3>1 DEF Window
      <3>3. QED
        BY <1>2, <3>1, <3>2 DEF Drag
    <2>9. QED
      BY <1>3, <2>2, <2>3, <2>4, <2>5, <2>6, <2>7, <2>8
  <1>4. ASSUME NEW w \in Windows, Close(w) PROVE Sound(desk')
    <2> DEFINE x == Dead(desk.win[w])
               g == IF desk.fg = w THEN NoWindow ELSE desk.fg
               d == [desk EXCEPT !.win[w] = x]
    <2>1. x \in Window
      <3>1. desk.win[w] \in Window
        BY <1>1 DEF Desk
      <3>2. QED
        BY <3>1 DEF Dead, Window
    <2>2. g \in Windows \cup {NoWindow}
      BY <1>1 DEF Desk
    <2>3. desk' = [d EXCEPT !.fg = g]
      BY <1>4 DEF Close
    <2> HIDE DEF x, g
    <2>4. Keeps(desk, d)
      BY <1>1, <2>1, WinAtKeeps
    <2> HIDE DEF d
    <2>5. Keeps(d, desk')
      BY <2>2, <2>3, <2>4 DEF Keeps, SameShape, Desk
    <2>6. QED
      BY <1>1, <2>4, <2>5, KeepsSound
  <1>5. ASSUME NEW w \in Windows \cup {NoWindow}, Focus(w) PROVE Sound(desk')
    <2>1. Keeps(desk, [desk EXCEPT !.fg = w])
      BY <1>1 DEF Keeps, SameShape, Desk
    <2>2. QED
      BY <1>1, <1>5, <2>1, KeepsSound DEF Focus
  <1>6. ASSUME NEW p \in Proxies, ShellChanges(p) PROVE Sound(desk')
    BY <1>1, <1>6 DEF ShellChanges
  <1>7. ASSUME NEW S \in SUBSET Monitors, PlugOrUnplug(S) PROVE Sound(desk')
    <2>1. PICK to \in [Windows -> Monitors] :
            desk' = [desk EXCEPT !.win = [w \in Windows |-> [@[w] EXCEPT !.mon = to[w]]]]
      BY <1>7 DEF PlugOrUnplug
    <2> DEFINE win == [w \in Windows |-> [desk.win[w] EXCEPT !.mon = to[w]]]
    <2>2. win \in [Windows -> Window]
      <3>1. \A w \in Windows : desk.win[w] \in Window
        BY <1>1 DEF Desk
      <3>2. \A w \in Windows : [desk.win[w] EXCEPT !.mon = to[w]] \in Window
        BY <3>1 DEF Window
      <3>3. QED
        BY <3>2
    <2>3. desk' = [desk EXCEPT !.win = win]
      BY <2>1
    <2> HIDE DEF win
    <2>4. QED
      BY <1>1, <2>2, <2>3, WinKeeps, KeepsSound
  <1>8. QED
    BY <1>3, <1>4, <1>5, <1>6, <1>7 DEF Environment

LEMMA FlagsKept ==
  ASSUME TypedAndBounded, Next PROVE Flags'
  <1>1. Flags
    BY InvariantParts
  <1> DEFINE Calm == /\ UNCHANGED World
                     /\ pending' = pending
                     /\ settling' \in {settling, TRUE}
                     /\ suppressed' \in {suppressed, TRUE}
  <1>2. ASSUME Calm PROVE Flags'
    <2>1. World' = World
      BY <1>2
    <2>2. /\ plugged' = plugged /\ notice' = notice /\ showAll' = showAll
          /\ proxy' = proxy /\ phase' = phase
      BY <2>1 DEF World
    <2>3. pending' \in BOOLEAN /\ settling' \in BOOLEAN /\ suppressed' \in BOOLEAN
      BY <1>1, <1>2 DEF Flags
    <2>4. QED
      BY <1>1, <2>2, <2>3 DEF Flags
  <1>3. ASSUME NEW d, NEW m, NEW i, NEW a, SwitchFrom(d, m, i, a)
        PROVE  suppressed' = TRUE
    BY <1>3 DEF SwitchFrom
  <1>4. CASE Command
    <2>1. ASSUME NEW m \in Monitors, NEW i \in Indices,
                 GoToSpace(m, i) \/ TraySwitch(m, i) \/ MoveToSpace(m, i) \/ RemoveSpace(m, i)
          PROVE  Calm
      BY <1>3, <2>1 DEF GoToSpace, TraySwitch, MoveToSpace, RemoveSpace
    <2>2. ASSUME NEW m \in Monitors, NEW i \in Indices, NEW j \in Indices,
                 ReorderSpace(m, i, j)
          PROVE  Calm
      BY <2>2 DEF ReorderSpace
    <2>3. ASSUME NEW m \in Monitors, AddSpace(m) PROVE Calm
      BY <2>3 DEF AddSpace
    <2>4. ASSUME NEW w \in Windows, NEW m \in Monitors, NEW i \in Indices,
                 MoveWindowToSpace(w, m, i)
          PROVE  Calm
      BY <2>4 DEF MoveWindowToSpace
    <2>5. ASSUME NEW w \in Windows, NEW m \in Monitors, NEW i \in Indices,
                 NEW s \in BOOLEAN, RestoreWorkspaceRules(w, m, i, s)
          PROVE  Calm
      <3>1. /\ settling' = TRUE
            /\ suppressed' = (suppressed \/ Table(desk) # {})
            /\ UNCHANGED <<World, pending>>
        BY <2>5 DEF RestoreWorkspaceRules
      <3>2. suppressed \in BOOLEAN
        BY <1>1 DEF Flags
      <3>3. QED
        BY <3>1, <3>2
    <2>6. CASE SetShowAllTaskbar
      BY <1>1, <2>6 DEF SetShowAllTaskbar, Flags
    <2>7. ASSUME NEW w \in Windows, NEW m \in Monitors, MoveWindowToNewSpace(w, m)
          PROVE  Calm
      BY <2>7 DEF MoveWindowToNewSpace
    <2>8. ASSUME NEW w \in Windows, TogglePin(w) PROVE Calm
      BY <2>8 DEF TogglePin
    <2> HIDE DEF Calm
    <2>9. QED
      BY <1>2, <1>4, <2>1, <2>2, <2>3, <2>4, <2>5, <2>6, <2>7, <2>8 DEF Command
  <1>5. CASE Event
    <2>1. ASSUME NEW w \in Windows, Activated(w) PROVE Calm
      BY <1>3, <2>1 DEF Activated
    <2>2. ASSUME NEW w \in Windows,
                 WindowDestroyed(w) \/ AdoptUntracked(w) \/ MoveSizeEnd(w)
          PROVE  Calm
      BY <2>2 DEF WindowDestroyed, AdoptUntracked, MoveSizeEnd
    <2>3. ASSUME ScanWindows \/ CloseVerify PROVE Calm
      BY <2>3 DEF ScanWindows, CloseVerify
    <2> HIDE DEF Calm
    <2>4. QED
      BY <1>2, <1>5, <2>1, <2>2, <2>3 DEF Event
  <1>6. CASE Timer
    BY <1>1, <1>6
    DEF Timer, Flags, World, SettleElapses, SuppressionElapses, DisplayChange,
        SessionChange, Reconcile
  <1>7. CASE Life
    BY <1>1, <1>7 DEF Life, Flags, Exit, Crash, Start
  <1>8. CASE Environment
    <2>1. CASE \E w \in Windows :
                 Open(w) \/ Close(w) \/ Retitle(w) \/ AppHide(w) \/ AppShow(w)
                   \/ Minimize(w) \/ Restore(w)
      BY <1>1, <2>1
      DEF Flags, OnlyDesk, Alter, Open, Close, Retitle, AppHide, AppShow, Minimize, Restore
    <2>2. CASE \E w \in Windows, m \in Monitors : Drag(w, m)
      BY <1>1, <2>2 DEF Flags, OnlyDesk, Alter, Drag
    <2>3. CASE \E w \in Windows \cup {NoWindow} : Focus(w)
      BY <1>1, <2>3 DEF Flags, OnlyDesk, Focus
    <2>4. CASE \E p \in Proxies : ShellChanges(p)
      BY <1>1, <2>4 DEF Flags, ShellChanges
    <2>5. CASE \E S \in SUBSET Monitors : PlugOrUnplug(S)
      BY <1>1, <2>5 DEF Flags, PlugOrUnplug, Running
    <2>6. QED
      BY <1>8, <2>1, <2>2, <2>3, <2>4, <2>5 DEF Environment
  <1>9. QED
    BY <1>4, <1>5, <1>6, <1>7, <1>8 DEF Next

LEMMA StepSound ==
  ASSUME TypedAndBounded, [Next]_vars PROVE TypedAndBounded'
  <1>1. Sound(desk) /\ Flags
    BY InvariantParts
  <1>2. CASE Next
    <2>1. Sound(desk')
      BY <1>2, CommandSound, EventSound, TimerSound, LifeSound, EnvironmentSound DEF Next
    <2>2. Flags'
      BY <1>2, FlagsKept
    <2>3. QED
      BY <2>1, <2>2 DEF TypedAndBounded, TypeOK, Sound, Flags, Bounded
  <1>3. CASE UNCHANGED vars
    BY <1>3 DEF vars, TypedAndBounded, TypeOK, Desk, Bounded
  <1>4. QED
    BY <1>2, <1>3

\* The strengthened invariant, from which the two theorems below and the
\* invariants of later proofs follow.
THEOREM AlwaysTypedAndBounded == Spec => []TypedAndBounded
  <1>1. Init => TypedAndBounded
    BY InitSound
  <1>2. TypedAndBounded /\ [Next]_vars => TypedAndBounded'
    BY StepSound
  <1>3. QED
    BY <1>1, <1>2, PTL DEF Spec

\* Whatever the sets of windows and displays, and whatever the environment is
\* allowed, every handler leaves a desk of the declared type.
THEOREM TypeCorrect == Spec => []TypeOK
  <1>1. TypedAndBounded => TypeOK
    BY DEF TypedAndBounded
  <1>2. QED
    BY <1>1, AlwaysTypedAndBounded, PTL

\* No handler indexes a row of spaces out of bounds or grows it past
\* MAX_SPACES: adding, removing and reordering spaces, and rebuilding the
\* monitor table, keep every current index in range.
THEOREM BoundsCorrect == Spec => []SpacesInBounds
  <1>1. TypedAndBounded => SpacesInBounds
    BY DEF TypedAndBounded, Bounded, SpacesInBounds, Table
  <1>2. QED
    BY <1>1, AlwaysTypedAndBounded, PTL

-----------------------------------------------------------------------------
(* Tracked once.  Apart is the part of the inductive invariant that says    *)
(* so; most methods only take windows off spaces, Place is the only one     *)
(* that puts any on one.                                                    *)

\* No window is in two lists.
Apart(d) ==
  \A w \in Windows : \A m, n \in Monitors :
    \A i \in DOMAIN d.spaces[m], j \in DOMAIN d.spaces[n] :
      w \in d.spaces[m][i] /\ w \in d.spaces[n][j] => m = n /\ i = j

\* Whatever a list of e holds, the list of d in the same place holds too.
Thins(d, e) ==
  \A m \in Monitors : \A i \in DOMAIN e.spaces[m] : \A w \in e.spaces[m][i] :
    i \in DOMAIN d.spaces[m] /\ w \in d.spaces[m][i]

\* A sound desk without duplicates.
Tidy(d) == Sound(d) /\ Apart(d)

LEMMA ThinsApart ==
  ASSUME NEW d, NEW e, Apart(d), Thins(d, e) PROVE Apart(e)
  <1> SUFFICES ASSUME NEW w \in Windows, NEW m \in Monitors, NEW n \in Monitors,
                      NEW i \in DOMAIN e.spaces[m], NEW j \in DOMAIN e.spaces[n],
                      w \in e.spaces[m][i], w \in e.spaces[n][j]
               PROVE  m = n /\ i = j
    BY DEF Apart
  <1>1. /\ i \in DOMAIN d.spaces[m] /\ w \in d.spaces[m][i]
        /\ j \in DOMAIN d.spaces[n] /\ w \in d.spaces[n][j]
    BY DEF Thins
  <1>2. QED
    BY <1>1 DEF Apart

LEMMA SameSpacesThins ==
  ASSUME NEW d, NEW e, e.spaces = d.spaces PROVE Thins(d, e)
  BY DEF Thins

\* The same lists, or smaller ones, on a desk of the same shape.
LEMMA TidyFrom ==
  ASSUME NEW d, NEW e, Tidy(d), Keeps(d, e), Thins(d, e) PROVE Tidy(e)
  BY ThinsApart, KeepsSound DEF Tidy

LEMMA DroppedThins ==
  ASSUME NEW d, NEW e, NEW S, d \in Desk, e.spaces = Dropped(d.spaces, S)
  PROVE  Thins(d, e)
  <1>1. ASSUME NEW m \in Monitors, NEW i \in DOMAIN e.spaces[m],
               NEW w \in e.spaces[m][i]
        PROVE  i \in DOMAIN d.spaces[m] /\ w \in d.spaces[m][i]
    <2>1. e.spaces[m] = [j \in DOMAIN d.spaces[m] |-> d.spaces[m][j] \ S]
      BY DEF Dropped
    <2>2. QED
      BY <1>1, <2>1
  <1>2. QED
    BY <1>1 DEF Thins

-----------------------------------------------------------------------------
(* Methods that put windows on a space: Place and those that call it *)

LEMMA PlaceSpaces ==
  ASSUME NEW d \in Desk, NEW to, NEW m \in Monitors
  PROVE  /\ DOMAIN Place(d, to).spaces[m] = DOMAIN d.spaces[m]
         /\ \A i \in DOMAIN d.spaces[m] :
              Place(d, to).spaces[m][i] =
                (d.spaces[m][i] \ DOMAIN to) \cup {w \in DOMAIN to : to[w] = <<m, i>>}
  <1> DEFINE row(n) == [i \in DOMAIN d.spaces[n] |->
                          (d.spaces[n][i] \ DOMAIN to)
                            \cup {w \in DOMAIN to : to[w] = <<n, i>>}]
  <1>1. Place(d, to).spaces = [n \in Monitors |-> row(n)]
    BY DEF Place, Desk
  <1>2. Place(d, to).spaces[m] = row(m)
    BY <1>1, Zenon
  <1>3. QED
    BY <1>2

LEMMA PlaceTidy ==
  ASSUME NEW d, Tidy(d), NEW to, DOMAIN to \subseteq Windows
  PROVE  Tidy(Place(d, to))
  <1> DEFINE e == Place(d, to)
  <1>1. d \in Desk
    BY DEF Tidy, Sound
  <1>2. Sound(e)
    BY <1>1, PlaceKeeps, KeepsSound DEF Tidy
  <1>3. ASSUME NEW m \in Monitors
        PROVE  /\ DOMAIN e.spaces[m] = DOMAIN d.spaces[m]
               /\ \A i \in DOMAIN d.spaces[m] :
                    e.spaces[m][i] =
                      (d.spaces[m][i] \ DOMAIN to) \cup {w \in DOMAIN to : to[w] = <<m, i>>}
    BY <1>1, PlaceSpaces
  <1> HIDE DEF e
  <1>4. ASSUME NEW w \in Windows, NEW m \in Monitors, NEW n \in Monitors,
               NEW i \in DOMAIN e.spaces[m], NEW j \in DOMAIN e.spaces[n],
               w \in e.spaces[m][i], w \in e.spaces[n][j]
        PROVE  m = n /\ i = j
    <2>1. /\ i \in DOMAIN d.spaces[m] /\ j \in DOMAIN d.spaces[n]
          /\ w \in (d.spaces[m][i] \ DOMAIN to) \cup {x \in DOMAIN to : to[x] = <<m, i>>}
          /\ w \in (d.spaces[n][j] \ DOMAIN to) \cup {x \in DOMAIN to : to[x] = <<n, j>>}
      BY <1>3, <1>4
    <2>2. CASE w \in DOMAIN to
      BY <2>1, <2>2
    <2>3. CASE w \notin DOMAIN to
      BY <2>1, <2>3 DEF Tidy, Apart
    <2>4. QED
      BY <2>2, <2>3
  <1>5. QED
    BY <1>2, <1>4 DEF Tidy, Apart, e

LEMMA DetachTidy ==
  ASSUME NEW d, Tidy(d), NEW w \in Windows
  PROVE  Tidy(Detach(d, w)) /\ Thins(d, Detach(d, w))
  <1>1. d \in Desk
    BY DEF Tidy, Sound
  <1>2. Thins(d, Detach(d, w))
    <2>1. CASE ~Tracked(d, w)
      BY <2>1, SameSpacesThins DEF Detach
    <2>2. CASE Tracked(d, w)
      <3>1. Detach(d, w).spaces = Dropped(d.spaces, {w})
        BY <1>1, <2>2 DEF Detach, Desk
      <3>2. QED
        BY <1>1, <3>1, DroppedThins
    <2>3. QED
      BY <2>1, <2>2
  <1>3. QED
    BY <1>1, <1>2, DetachKeeps, TidyFrom

LEMMA RemoveWindowTidy ==
  ASSUME NEW d, Tidy(d), NEW w \in Windows PROVE Tidy(RemoveWindow(d, w))
  <1>1. d \in Desk
    BY DEF Tidy, Sound
  <1>2. Detach(d, w) \in Desk
    BY <1>1, DetachKeeps DEF Keeps
  <1>3. RemoveWindow(d, w).spaces = Detach(d, w).spaces
    BY <1>2 DEF RemoveWindow, Desk
  <1>4. Thins(d, RemoveWindow(d, w))
    BY <1>3, DetachTidy DEF Thins
  <1>5. QED
    BY <1>1, <1>4, RemoveWindowKeeps, TidyFrom

LEMMA UntrackedTidy ==
  ASSUME NEW d, Tidy(d), NEW w \in Windows, proxy \in Proxies
  PROVE  Tidy(Untracked(d, w))
  <1> DEFINE restored == IF MustRestoreBeforeUntrack(d.win[w])
                         THEN [d EXCEPT !.win[w] = Show(@, proxy)] ELSE d
  <1>1. d \in Desk
    BY DEF Tidy, Sound
  <1>2. Show(d.win[w], proxy) \in Window
    BY <1>1, ShowType DEF Desk
  <1>3. Keeps(d, restored) /\ restored.spaces = d.spaces
    BY <1>1, <1>2, WinAtKeeps, KeepsSelf DEF Desk
  <1>4. Untracked(d, w) = RemoveWindow(restored, w)
    BY DEF Untracked
  <1> HIDE DEF restored
  <1>5. Tidy(restored)
    BY <1>3, SameSpacesThins, TidyFrom
  <1>6. QED
    BY <1>4, <1>5, RemoveWindowTidy

LEMMA TrackTidy ==
  ASSUME NEW d, Tidy(d), NEW w \in Windows, NEW m, NEW i, proxy \in Proxies
  PROVE  Tidy(Track(d, w, m, i))
  <1>1. ASSUME NEW p PROVE Tidy(Place(d, [x \in {w} |-> p]))
    <2>1. DOMAIN [x \in {w} |-> p] \subseteq Windows
      OBVIOUS
    <2>2. QED
      BY <2>1, PlaceTidy
  <1>2. QED
    BY <1>1, UntrackedTidy, DetachTidy DEF Track

LEMMA AtCurrentTidy ==
  ASSUME NEW d, Tidy(d), NEW S \in SUBSET Windows PROVE Tidy(AtCurrent(d, S))
  BY PlaceTidy DEF AtCurrent

-----------------------------------------------------------------------------
(* Methods that leave the lists alone, or take windows off them *)

LEMMA SameSpacesTidy ==
  ASSUME NEW d, NEW e, Tidy(d), Keeps(d, e), e.spaces = d.spaces PROVE Tidy(e)
  BY SameSpacesThins, TidyFrom

LEMMA WinTidy ==
  ASSUME NEW d, Tidy(d), NEW f \in [Windows -> Window]
  PROVE  Tidy([d EXCEPT !.win = f])
  <1>1. d \in Desk
    BY DEF Tidy, Sound
  <1>2. Keeps(d, [d EXCEPT !.win = f]) /\ [d EXCEPT !.win = f].spaces = d.spaces
    BY <1>1, WinKeeps DEF Desk
  <1>3. QED
    BY <1>2, SameSpacesTidy

LEMMA WinAtTidy ==
  ASSUME NEW d, Tidy(d), NEW w \in Windows, NEW x \in Window
  PROVE  Tidy([d EXCEPT !.win[w] = x])
  <1>1. d \in Desk
    BY DEF Tidy, Sound
  <1>2. Keeps(d, [d EXCEPT !.win[w] = x]) /\ [d EXCEPT !.win[w] = x].spaces = d.spaces
    BY <1>1, WinAtKeeps DEF Desk
  <1>3. QED
    BY <1>2, SameSpacesTidy

LEMMA PruneTidy ==
  ASSUME NEW d, Tidy(d) PROVE Tidy(Prune(d))
  <1> DEFINE dead == {w \in Windows : ~d.win[w].live}
  <1>1. d \in Desk
    BY DEF Tidy, Sound
  <1>2. Prune(d) = [d EXCEPT !.spaces = Dropped(d.spaces, dead), !.pinned = d.pinned \ dead]
    BY DEF Prune
  <1> HIDE DEF dead
  <1>3. Prune(d).spaces = Dropped(d.spaces, dead)
    BY <1>1, <1>2 DEF Desk
  <1>4. QED
    BY <1>1, <1>3, DroppedThins, PruneKeeps, TidyFrom

LEMMA ScanTidy ==
  ASSUME NEW d, Tidy(d) PROVE Tidy(Scan(d))
  <1> DEFINE p       == Prune(d)
             seen    == {w \in Windows : p.win[w].live /\ ~HasHiddenBit(p.win[w])}
             system  == {w \in seen \cap SystemWindows :
                           p.win[w].titled /\ "TRACKED" \notin p.win[w].prop}
             hide    == {w \in system : /\ "SYSTEM_HIDDEN" \notin p.win[w].prop
                                        /\ SystemWindowIsShowing(p.win[w])}
             found   == {w \in seen \ system : Valid(p, w) /\ MonitorOf(p, w) # NoMonitor}
             drifted == {w \in found : Tracked(p, w) /\ Home(p, w)[1] # p.win[w].mon}
             adopt   == {w \in found : ~Tracked(p, w)}
                          \cup (IF MayRehome(TRUE) THEN drifted ELSE {})
             win     == [w \in Windows |->
                           IF w \in hide THEN HideSystem(p.win[w]) ELSE p.win[w]]
             swept   == [p EXCEPT !.win = win]
  <1>1. Tidy(p)
    BY PruneTidy
  <1>2. adopt \in SUBSET Windows
    OBVIOUS
  <1>3. Scan(d) = AtCurrent(swept, adopt)
    BY DEF Scan
  <1> HIDE DEF hide, adopt, p
  <1>4. \A w \in Windows : p.win[w] \in Window
    BY <1>1 DEF Tidy, Sound, Desk
  <1>5. win \in [Windows -> Window]
    BY <1>4, HideSystemType
  <1> HIDE DEF win
  <1>6. Tidy(swept)
    BY <1>1, <1>5, WinTidy
  <1> HIDE DEF swept
  <1>7. QED
    BY <1>2, <1>3, <1>6, AtCurrentTidy

LEMMA RefreshSpaces ==
  ASSUME NEW d \in Desk, NEW M PROVE Refresh(d, M).spaces = d.spaces
  BY DEF Refresh, Desk

LEMMA RefreshTidy ==
  ASSUME NEW d, Tidy(d), NEW M, showAll \in BOOLEAN, proxy \in Proxies
  PROVE  Tidy(Refresh(d, M))
  BY RefreshKeeps, RefreshSpaces, SameSpacesTidy DEF Tidy, Sound

LEMMA FocusedTidy ==
  ASSUME NEW d, Tidy(d), NEW w \in Windows \cup {NoWindow}
  PROVE  Tidy(Focused(d, w))
  <1>1. d \in Desk
    BY DEF Tidy, Sound
  <1>2. Focused(d, w).spaces = d.spaces
    BY <1>1 DEF Focused, Desk
  <1>3. QED
    BY <1>1, <1>2, FocusedKeeps, SameSpacesTidy

LEMMA SwitchTidy ==
  ASSUME NEW d, Tidy(d), NEW m \in Monitors, NEW i \in DOMAIN d.spaces[m],
         showAll \in BOOLEAN, proxy \in Proxies
  PROVE  Tidy(Switch(d, m, i))
  <1> DEFINE left     == d.spaces[m][d.current[m]]
             remember == IF d.current[m] = i THEN d.focus
                         ELSE (d.focus \ left) \cup (left \cap {d.fg})
             e == [d EXCEPT !.current[m] = i, !.focus = remember]
  <1>1. d \in Desk /\ Sound(d)
    BY DEF Tidy, Sound
  <1>2. Switch(d, m, i) = Refresh(e, {m})
    BY DEF Switch
  <1> HIDE DEF remember
  <1>3. e.spaces = d.spaces
    BY <1>1 DEF Desk
  <1>4. Refresh(e, {m}).spaces = e.spaces
    <2> HIDE DEF e
    <2>1. Refresh(e, {m}) = [e EXCEPT !.win = Refresh(e, {m}).win]
      BY DEF Refresh, e, Desk
    <2>2. QED
      BY <1>1, <2>1 DEF Refresh, e, Desk
  <1> HIDE DEF e
  <1>5. Thins(d, Switch(d, m, i))
    BY <1>2, <1>3, <1>4, SameSpacesThins
  <1>6. Sound(Switch(d, m, i))
    BY <1>1, SwitchSound
  <1>7. QED
    BY <1>5, <1>6, ThinsApart DEF Tidy

LEMMA SwitchFromTidy ==
  ASSUME NEW d, Tidy(d), NEW m \in Monitors, NEW i \in DOMAIN d.spaces[m],
         NEW a \in Windows \cup {NoWindow}, SwitchFrom(d, m, i, a),
         showAll \in BOOLEAN, proxy \in Proxies
  PROVE  Tidy(desk')
  <1>1. PICK scanned \in {d, Scan(d)} :
          LET switched == Switch(scanned, m, i)
          IN  IF a # NoWindow THEN desk' = Focused(switched, a)
              ELSE \E w \in Landing(switched, m) : desk' = Focused(switched, w)
    BY DEF SwitchFrom
  <1> DEFINE switched == Switch(scanned, m, i)
  <1>2. Sound(d) /\ d \in Desk
    BY DEF Tidy, Sound
  <1>3. Keeps(d, scanned) /\ Tidy(scanned)
    BY <1>2, ScanKeeps, KeepsSelf, ScanTidy
  <1>4. i \in DOMAIN scanned.spaces[m] /\ Len(scanned.spaces[m]) > 0
    <2>1. scanned \in Desk /\ Len(scanned.spaces[m]) = Len(d.spaces[m])
      BY <1>3 DEF Keeps, SameShape
    <2>2. QED
      BY <1>2, <2>1, DomainIsLen
  <1>5. Tidy(switched)
    BY <1>3, <1>4, SwitchTidy
  <1>6. m \in Table(switched)
    BY <1>3, <1>4, SwitchSound DEF Table, Tidy
  <1> HIDE DEF switched
  <1>7. PICK w \in Windows \cup {NoWindow} : desk' = Focused(switched, w)
    BY <1>1, <1>5, <1>6, LandingType DEF switched, Tidy
  <1>8. QED
    BY <1>5, <1>7, FocusedTidy

-----------------------------------------------------------------------------
(* Methods that renumber the spaces of a display *)

\* g says which old space each new one was; no two were the same.
LEMMA RenumberedApart ==
  ASSUME NEW d, NEW e, Apart(d), NEW m \in Monitors,
         \A n \in Monitors : n # m => e.spaces[n] = d.spaces[n],
         NEW g \in [DOMAIN e.spaces[m] -> DOMAIN d.spaces[m]],
         \A i, j \in DOMAIN e.spaces[m] : g[i] = g[j] => i = j,
         \A i \in DOMAIN e.spaces[m] : e.spaces[m][i] \subseteq d.spaces[m][g[i]]
  PROVE  Apart(e)
  <1> SUFFICES ASSUME NEW w \in Windows, NEW n \in Monitors, NEW o \in Monitors,
                      NEW i \in DOMAIN e.spaces[n], NEW j \in DOMAIN e.spaces[o],
                      w \in e.spaces[n][i], w \in e.spaces[o][j]
               PROVE  n = o /\ i = j
    BY DEF Apart
  <1> DEFINE old(k, x) == IF k = m THEN g[x] ELSE x
  <1>1. /\ old(n, i) \in DOMAIN d.spaces[n] /\ w \in d.spaces[n][old(n, i)]
        /\ old(o, j) \in DOMAIN d.spaces[o] /\ w \in d.spaces[o][old(o, j)]
    OBVIOUS
  <1>2. n = o /\ old(n, i) = old(o, j)
    BY <1>1 DEF Apart
  <1>3. QED
    BY <1>2

LEMMA MigratedTidy ==
  ASSUME NEW d, Tidy(d), NEW m \in Monitors, NEW i \in DOMAIN d.spaces[m], NEW j,
         proxy \in Proxies
  PROVE  Tidy(Migrated(d, m, i, j))
  <1> DEFINE stays == {w \in d.spaces[m][i] : Valid(d, w)}
             goes  == d.spaces[m][i] \ stays
             to    == [w \in stays |-> <<m, j>>]
             moved == Place(d, to)
             e     == Migrated(d, m, i, j)
  <1>1. d \in Desk
    BY DEF Tidy, Sound
  <1>2. DOMAIN to \subseteq Windows
    BY <1>1, DomainIsLen
  <1>3. Tidy(moved)
    <2> HIDE DEF to
    <2>1. QED
      BY <1>2, PlaceTidy
  <1>4. moved \in Desk
    BY <1>3 DEF Tidy, Sound
  <1>5. e.spaces = Dropped(moved.spaces, goes)
    <2> DEFINE win == [w \in Windows |->
                         IF w \notin goes THEN moved.win[w]
                         ELSE IF MustRestoreBeforeUntrack(d.win[w])
                         THEN Forgotten(Show(d.win[w], proxy))
                         ELSE Forgotten(d.win[w])]
    <2>1. e = [moved EXCEPT !.spaces = Dropped(@, goes), !.pinned = @ \ goes,
                            !.focus = @ \ goes, !.win = win]
      BY DEF Migrated
    <2> HIDE DEF win, e, moved, goes
    <2>2. QED
      BY <1>4, <2>1 DEF Desk
  <1>6. Sound(e)
    BY <1>1, MigratedKeeps, KeepsSound DEF Tidy
  <1> HIDE DEF moved, goes, e
  <1>7. Thins(moved, e)
    BY <1>4, <1>5, DroppedThins
  <1>8. QED
    BY <1>3, <1>6, <1>7, ThinsApart DEF Tidy, e

LEMMA ShortenedTidy ==
  ASSUME NEW d, Tidy(d), NEW m \in Monitors, NEW i \in DOMAIN d.spaces[m],
         Len(d.spaces[m]) > 1, proxy \in Proxies
  PROVE  Tidy(Shortened(d, m, i))
  <1> DEFINE e == Migrated(d, m, i, RemovalMigrationTarget(i))
             f == Shortened(d, m, i)
             old == e.spaces[m]
             row == RemoveAt(old, i)
             g == [k \in 1..(Len(old) - 1) |-> IF k < i THEN k ELSE k + 1]
  <1>1. Sound(d) /\ d \in Desk
    BY DEF Tidy, Sound
  <1>2. Keeps(d, e) /\ Tidy(e)
    BY <1>1, MigratedKeeps, MigratedTidy
  <1>3. f = [e EXCEPT !.spaces[m] = row, !.current[m] = RemapAfterRemoval(@, i)]
    BY DEF Shortened
  <1>4. Sound(f)
    BY <1>1, ShortenedSound
  <1> HIDE DEF e, f
  <1>5. /\ e \in Desk /\ Len(old) \in Nat /\ DOMAIN old = 1..Len(old)
        /\ i \in 1..Len(old) /\ old \in Seq(SUBSET Windows)
    <2>1. e \in Desk /\ Len(old) = Len(d.spaces[m])
      BY <1>2 DEF Keeps, SameShape
    <2>2. /\ Len(old) \in Nat /\ DOMAIN old = 1..Len(old)
          /\ i \in 1..Len(old)
      BY <1>1, <2>1, DomainIsLen
    <2>3. QED
      BY <2>1, <2>2 DEF Desk
  <1>6. f.spaces = [e.spaces EXCEPT ![m] = row]
    BY <1>3, <1>5 DEF Desk
  <1>7. /\ f.spaces[m] = row
        /\ \A n \in Monitors : n # m => f.spaces[n] = e.spaces[n]
    BY <1>5, <1>6 DEF Desk
  <1> HIDE DEF old
  <1>8. /\ row \in Seq(SUBSET Windows) /\ Len(row) = Len(old) - 1
        /\ \A k \in 1..(Len(old) - 1) : row[k] = IF k < i THEN old[k] ELSE old[k + 1]
    BY <1>5, RemoveAtElements
  <1>9. DOMAIN row = 1..(Len(old) - 1)
    BY <1>5, <1>8
  <1> HIDE DEF row
  <1>10. g \in [DOMAIN row -> DOMAIN old]
    BY <1>5, <1>9
  <1>11. \A j, k \in DOMAIN row : g[j] = g[k] => j = k
    BY <1>5, <1>9
  <1>12. \A k \in DOMAIN row : row[k] \subseteq old[g[k]]
    BY <1>5, <1>8, <1>9
  <1> HIDE DEF g
  <1>13. Apart(f)
    BY <1>2, <1>7, <1>10, <1>11, <1>12, RenumberedApart DEF Tidy, old
  <1>14. QED
    BY <1>4, <1>13 DEF Tidy, f

LEMMA MovedElements ==
  ASSUME NEW S, NEW s, NEW x \in S, NEW cut \in Seq(S), NEW j \in 1..Len(s),
         Len(s) \in Nat, Len(cut) = Len(s) - 1
  PROVE  /\ InsertAt(cut, j, x) \in Seq(S) /\ Len(InsertAt(cut, j, x)) = Len(s)
         /\ \A k \in 1..Len(s) :
              InsertAt(cut, j, x)[k] =
                IF k < j THEN cut[k] ELSE IF k = j THEN x ELSE cut[k - 1]
  <1>1. j \in 1..(Len(cut) + 1) /\ Len(cut) + 1 = Len(s)
    OBVIOUS
  <1>2. /\ InsertAt(cut, j, x) \in Seq(S) /\ Len(InsertAt(cut, j, x)) = Len(cut) + 1
        /\ \A k \in 1..(Len(cut) + 1) :
              InsertAt(cut, j, x)[k] =
                IF k < j THEN cut[k] ELSE IF k = j THEN x ELSE cut[k - 1]
    BY <1>1, InsertAtElements
  <1>3. QED
    BY <1>1, <1>2

LEMMA ReorderApart ==
  ASSUME NEW d, NEW e, Tidy(d), NEW m \in Monitors,
         NEW i \in DOMAIN d.spaces[m], NEW j \in DOMAIN d.spaces[m], NEW now,
         e = [d EXCEPT !.spaces[m] = InsertAt(RemoveAt(@, i), j, @[i]), !.current[m] = now]
  PROVE  Apart(e)
  <1> DEFINE old == d.spaces[m]
             cut == RemoveAt(old, i)
             row == InsertAt(cut, j, old[i])
             S   == SUBSET Windows
             skip(k) == IF k < i THEN k ELSE k + 1
             g   == [k \in 1..Len(old) |->
                       IF k < j THEN skip(k) ELSE IF k = j THEN i ELSE skip(k - 1)]
  <1>1. d \in Desk
    BY DEF Tidy, Sound
  <1>2. /\ Len(old) \in Nat /\ DOMAIN old = 1..Len(old)
        /\ i \in 1..Len(old) /\ j \in 1..Len(old)
        /\ old \in Seq(S) /\ old[i] \in S
    BY <1>1, DomainIsLen DEF Desk
  <1>3. e.spaces = [d.spaces EXCEPT ![m] = row]
    BY <1>1 DEF Desk
  <1>4. /\ e.spaces[m] = row
        /\ \A n \in Monitors : n # m => e.spaces[n] = d.spaces[n]
    BY <1>1, <1>3 DEF Desk
  <1> HIDE DEF old, S
  <1>5. /\ cut \in Seq(S) /\ Len(cut) = Len(old) - 1
        /\ \A k \in 1..(Len(old) - 1) : cut[k] = old[skip(k)]
    BY <1>2, RemoveAtElements
  <1> HIDE DEF cut
  <1>6. j \in 1..(Len(cut) + 1) /\ Len(cut) + 1 = Len(old)
    BY <1>2, <1>5
  <1>7. /\ row \in Seq(S) /\ Len(row) = Len(old)
        /\ \A k \in 1..Len(old) :
             row[k] = IF k < j THEN cut[k] ELSE IF k = j THEN old[i] ELSE cut[k - 1]
    <2> DEFINE x == old[i]
    <2>1. /\ cut \in Seq(S) /\ x \in S /\ j \in 1..Len(old)
          /\ Len(old) \in Nat /\ Len(cut) = Len(old) - 1
      BY <1>2, <1>5
    <2> HIDE DEF x
    <2>2. /\ InsertAt(cut, j, x) \in Seq(S) /\ Len(InsertAt(cut, j, x)) = Len(old)
          /\ \A k \in 1..Len(old) :
               InsertAt(cut, j, x)[k] =
                 IF k < j THEN cut[k] ELSE IF k = j THEN x ELSE cut[k - 1]
      BY ONLY <2>1, MovedElements
    <2>3. QED
      BY <2>2 DEF x
  <1> HIDE DEF row
  <1>8. DOMAIN row = 1..Len(old)
    BY <1>2, <1>7
  <1>9. g \in [DOMAIN row -> DOMAIN old]
    BY <1>2, <1>8
  <1>10. \A k, l \in DOMAIN row : g[k] = g[l] => k = l
    BY <1>2, <1>8
  <1>11. \A k \in DOMAIN row : row[k] \subseteq old[g[k]]
    <2> SUFFICES ASSUME NEW k \in DOMAIN row PROVE row[k] = old[g[k]]
      OBVIOUS
    <2>1. k \in 1..Len(old)
      BY <1>8
    <2>2. CASE k < j
      <3>1. k \in 1..(Len(old) - 1)
        BY <1>2, <2>1, <2>2
      <3>2. g[k] = skip(k) /\ row[k] = cut[k] /\ cut[k] = old[skip(k)]
        BY <1>5, <1>7, <2>1, <2>2, <3>1
      <3>3. QED
        BY <3>2
    <2>3. CASE k = j
      BY <1>2, <1>7, <2>1, <2>3
    <2>4. CASE k > j
      <3>1. k - 1 \in 1..(Len(old) - 1)
        BY <1>2, <2>1, <2>4
      <3>2. /\ g[k] = skip(k - 1)
            /\ row[k] = cut[k - 1]
        BY <1>2, <1>7, <2>1, <2>4
      <3>3. cut[k - 1] = old[skip(k - 1)]
        BY <1>5, <3>1
      <3>4. QED
        BY <3>2, <3>3
    <2>5. QED
      BY <1>2, <2>1, <2>2, <2>3, <2>4
  <1> HIDE DEF g, row
  <1>12. /\ g \in [DOMAIN e.spaces[m] -> DOMAIN d.spaces[m]]
         /\ \A k, l \in DOMAIN e.spaces[m] : g[k] = g[l] => k = l
         /\ \A k \in DOMAIN e.spaces[m] : e.spaces[m][k] \subseteq d.spaces[m][g[k]]
    BY <1>4, <1>9, <1>10, <1>11 DEF old
  <1>13. Apart(d)
    BY DEF Tidy
  <1>14. QED
    BY <1>4, <1>12, <1>13, RenumberedApart, ZenonT(30)

-----------------------------------------------------------------------------
(* Methods that add or drop whole spaces, and the pins *)

LEMMA AddedTidy ==
  ASSUME NEW d, Tidy(d), NEW m \in Table(d), Len(d.spaces[m]) < MaxSpaces
  PROVE  Tidy(Added(d, m))
  <1> DEFINE old == d.spaces[m]
             row == Append(old, {})
             f   == Added(d, m)
  <1>1. d \in Desk /\ m \in Monitors /\ old \in Seq(SUBSET Windows)
    BY DEF Tidy, Sound, Desk, Table
  <1>2. Sound(f)
    BY AddedSound DEF Tidy
  <1>3. \A n \in Monitors : f.spaces[n] = IF n = m THEN row ELSE d.spaces[n]
    BY <1>1 DEF Added, Desk
  <1>4. ASSUME NEW i \in DOMAIN row, NEW w \in row[i]
        PROVE  i \in DOMAIN old /\ w \in old[i]
    <2> HIDE DEF old
    <2>1. Len(old) \in Nat /\ DOMAIN old = 1..Len(old) /\ DOMAIN row = 1..(Len(old) + 1)
      BY <1>1
    <2>2. row[Len(old) + 1] = {} /\ \A k \in 1..Len(old) : row[k] = old[k]
      BY <1>1, <2>1
    <2> HIDE DEF row
    <2>3. i # Len(old) + 1
      BY <1>4, <2>2
    <2>4. i \in 1..Len(old)
      BY <1>4, <2>1, <2>3
    <2>5. QED
      BY <1>4, <2>1, <2>2, <2>4
  <1> HIDE DEF row, f
  <1>5. Thins(d, f)
    BY <1>3, <1>4 DEF Thins
  <1>6. QED
    BY <1>2, <1>5, ThinsApart DEF Tidy, f

LEMMA RebuiltTidy ==
  ASSUME NEW d, Tidy(d), plugged \in SUBSET Monitors, proxy \in Proxies
  PROVE  Tidy(Rebuilt(d))
  <1> DEFINE gone  == Table(d) \ plugged
             fresh == plugged \ Table(d)
             row   == [i \in 1..DefaultSpaces |-> {}]
             rows  == [m \in Monitors |->
                         IF m \in fresh THEN row
                         ELSE IF m \in gone THEN <<>> ELSE d.spaces[m]]
             f     == Rebuilt(d)
  <1>1. d \in Desk
    BY DEF Tidy, Sound
  <1>2. Sound(f)
    BY RebuiltSound DEF Tidy
  <1>3. f.spaces = rows
    BY <1>1 DEF Rebuilt, Desk
  <1> HIDE DEF gone, fresh, f
  <1>4. ASSUME NEW m \in Monitors, NEW i \in DOMAIN rows[m], NEW w \in rows[m][i]
        PROVE  i \in DOMAIN d.spaces[m] /\ w \in d.spaces[m][i]
    <2>1. CASE m \in fresh
      <3>1. row[i] = {}
        BY <1>4, <2>1
      <3>2. QED
        BY <1>4, <2>1, <3>1
    <2>2. CASE m \notin fresh /\ m \in gone
      <3>1. rows[m] = <<>>
        BY <2>2
      <3>2. QED
        BY <1>4, <3>1
    <2>3. CASE m \notin fresh /\ m \notin gone
      BY <1>4, <2>3
    <2>4. QED
      BY <2>1, <2>2, <2>3
  <1> HIDE DEF rows
  <1>5. Thins(d, f)
    BY <1>3, <1>4 DEF Thins
  <1>6. QED
    BY <1>2, <1>5, ThinsApart DEF Tidy, f

LEMMA PinTidy ==
  ASSUME NEW d, Tidy(d), NEW w \in Windows, proxy \in Proxies
  PROVE  Tidy(Pin(d, w))
  <1>1. d \in Desk
    BY DEF Tidy, Sound
  <1>2. Pin(d, w).spaces = d.spaces
    BY <1>1 DEF Pin, Desk
  <1>3. QED
    BY <1>1, <1>2, PinKeeps, SameSpacesTidy

LEMMA UnpinTidy ==
  ASSUME NEW d, Tidy(d), NEW w \in Windows, proxy \in Proxies
  PROVE  Tidy(Unpin(d, w))
  <1> DEFINE loose == [d EXCEPT !.pinned = @ \ {w}]
  <1>1. d \in Desk
    BY DEF Tidy, Sound
  <1>2. Keeps(d, loose) /\ loose.spaces = d.spaces
    BY <1>1 DEF Keeps, SameShape, Desk
  <1> HIDE DEF loose
  <1>3. Tidy(loose)
    BY <1>2, SameSpacesTidy
  <1>4. \A m, i : Tidy(Track(loose, w, m, i))
    BY <1>3, TrackTidy
  <1>5. QED
    BY <1>3, <1>4 DEF Unpin, loose

LEMMA EndedTidy ==
  ASSUME NEW d \in Desk PROVE Tidy(Ended(d))
  <1>1. \A m \in Monitors : Ended(d).spaces[m] = <<>>
    BY DEF Ended, Desk
  <1>2. Apart(Ended(d))
    BY <1>1 DEF Apart
  <1>3. QED
    BY <1>2, EndedSound DEF Tidy

-----------------------------------------------------------------------------
(* The invariant and its steps *)

TypedBoundedApart == TypedAndBounded /\ Apart(desk)

LEMMA TidyParts == TypedBoundedApart <=> Tidy(desk) /\ Flags
  BY InvariantParts DEF TypedBoundedApart, Tidy

LEMMA CommandTidy ==
  ASSUME TypedBoundedApart, Command PROVE Tidy(desk')
  <1>1. Tidy(desk) /\ Sound(desk) /\ desk \in Desk /\ TypedAndBounded
    BY TidyParts DEF Tidy, Sound, TypedBoundedApart
  <1>2. showAll \in BOOLEAN /\ proxy \in Proxies
    BY TidyParts DEF Flags
  <1>3. Sound(desk')
    BY <1>1, CommandSound
  <1>4. ASSUME NEW m \in Monitors, NEW i \in Indices,
               GoToSpace(m, i) \/ TraySwitch(m, i)
        PROVE  Tidy(desk')
    <2>1. i \in DOMAIN desk.spaces[m] /\ SwitchFrom(desk, m, i, NoWindow)
      BY <1>4 DEF GoToSpace, TraySwitch
    <2>2. QED
      BY <1>1, <1>2, <2>1, SwitchFromTidy
  <1>5. ASSUME NEW m \in Monitors, NEW i \in Indices, MoveToSpace(m, i)
        PROVE  Tidy(desk')
    <2> DEFINE d == Track(desk, desk.fg, m, i)
    <2>1. desk.fg \in Windows /\ i \in DOMAIN desk.spaces[m] /\ SwitchFrom(d, m, i, desk.fg)
      BY <1>1, <1>5 DEF MoveToSpace, Desk
    <2>2. Keeps(desk, d) /\ Tidy(d)
      BY <1>1, <1>2, <2>1, TrackKeeps, TrackTidy
    <2> HIDE DEF d
    <2>3. i \in DOMAIN d.spaces[m]
      BY <1>1, <2>1, <2>2, DomainIsLen DEF Keeps, SameShape
    <2>4. QED
      BY <1>2, <2>1, <2>2, <2>3, SwitchFromTidy
  <1>6. ASSUME NEW m \in Monitors, NEW i \in Indices, RemoveSpace(m, i)
        PROVE  Tidy(desk')
    <2> DEFINE d == Shortened(desk, m, i)
    <2>1. /\ i \in DOMAIN desk.spaces[m] /\ Len(desk.spaces[m]) > 1
          /\ SwitchFrom(d, m, d.current[m], NoWindow)
      BY <1>6 DEF RemoveSpace
    <2>2. Tidy(d) /\ d.current[m] \in DOMAIN d.spaces[m]
      BY <1>1, <1>2, <2>1, ShortenedSound, ShortenedTidy
    <2> HIDE DEF d
    <2>3. QED
      BY <1>2, <2>1, <2>2, SwitchFromTidy
  <1>7. ASSUME NEW m \in Monitors, NEW i \in Indices, NEW j \in Indices,
               ReorderSpace(m, i, j)
        PROVE  Tidy(desk')
    <2> DEFINE now == RemapAfterReorder(desk.current[m], i, j)
    <2>1. /\ i \in DOMAIN desk.spaces[m] /\ j \in DOMAIN desk.spaces[m]
          /\ desk' = [desk EXCEPT !.spaces[m] = InsertAt(RemoveAt(@, i), j, @[i]),
                                  !.current[m] = now]
      BY <1>7 DEF ReorderSpace
    <2> HIDE DEF now
    <2>2. Apart(desk')
      BY <1>1, <2>1, ReorderApart
    <2>3. QED
      BY <1>3, <2>2 DEF Tidy
  <1>8. ASSUME NEW m \in Monitors, AddSpace(m) PROVE Tidy(desk')
    BY <1>1, <1>8, AddedTidy DEF AddSpace
  <1>9. ASSUME NEW w \in Windows, NEW m \in Monitors, NEW i \in Indices,
               MoveWindowToSpace(w, m, i)
        PROVE  Tidy(desk')
    BY <1>1, <1>2, <1>9, TrackTidy DEF MoveWindowToSpace
  <1>10. ASSUME NEW w \in Windows, NEW m \in Monitors, NEW i \in Indices,
                NEW s \in BOOLEAN, RestoreWorkspaceRules(w, m, i, s)
         PROVE  Tidy(desk')
    <2>1. PICK minimized \in BOOLEAN, landed \in {desk.win[w].mon} \cup ({m} \cap plugged) :
            LET put    == [desk EXCEPT !.win[w] =
                             [@ EXCEPT !.visible = "yes", !.iconic = minimized,
                                       !.mon = landed]]
                placed == Track(put, w, m, i)
                pinned == IF s /\ Tracked(placed, w) THEN Pin(placed, w) ELSE placed
            IN  \E scanned \in (IF Table(pinned) = {} THEN {pinned}
                                ELSE {pinned, Scan(pinned)}) :
                  LET shown == Refresh(scanned, Table(scanned))
                  IN  \E f \in {NoWindow} \cup UNION {Landing(shown, n) : n \in Table(shown)} :
                        desk' = Focused(shown, f)
      BY <1>10 DEF RestoreWorkspaceRules
    <2> DEFINE x      == [desk.win[w] EXCEPT !.visible = "yes", !.iconic = minimized,
                                             !.mon = landed]
               put    == [desk EXCEPT !.win[w] = x]
               placed == Track(put, w, m, i)
               pinned == IF s /\ Tracked(placed, w) THEN Pin(placed, w) ELSE placed
    <2>2. x \in Window
      <3>1. desk.win[w] \in Window /\ landed \in Monitors
        BY <1>1 DEF Desk, Window
      <3>2. QED
        BY <3>1 DEF Window
    <2> HIDE DEF x
    <2>3. Tidy(put)
      BY <1>1, <2>2, WinAtTidy
    <2> HIDE DEF put
    <2>4. Tidy(placed)
      BY <1>2, <2>3, TrackTidy
    <2> HIDE DEF placed
    <2>5. Tidy(pinned)
      BY <1>2, <2>4, PinTidy
    <2> HIDE DEF pinned
    <2>6. PICK scanned \in {pinned, Scan(pinned)} :
            LET shown == Refresh(scanned, Table(scanned))
            IN  \E f \in {NoWindow} \cup UNION {Landing(shown, n) : n \in Table(shown)} :
                  desk' = Focused(shown, f)
      <3>1. \E scanned \in (IF Table(pinned) = {} THEN {pinned}
                            ELSE {pinned, Scan(pinned)}) :
              LET shown == Refresh(scanned, Table(scanned))
              IN  \E f \in {NoWindow} \cup UNION {Landing(shown, n) : n \in Table(shown)} :
                    desk' = Focused(shown, f)
        BY <2>1 DEF pinned, placed, put, x
      <3>2. QED
        BY <3>1
    <2> DEFINE shown == Refresh(scanned, Table(scanned))
    <2>7. Tidy(scanned)
      BY <2>5, <2>6, ScanTidy
    <2>8. Tidy(shown) /\ Sound(shown)
      BY <1>2, <2>7, RefreshTidy DEF Tidy
    <2> HIDE DEF shown
    <2>9. PICK f \in {NoWindow} \cup UNION {Landing(shown, n) : n \in Table(shown)} :
            desk' = Focused(shown, f)
      BY <2>6 DEF shown
    <2>10. f \in Windows \cup {NoWindow}
      BY <2>8, <2>9, LandingType
    <2>11. QED
      BY <2>8, <2>9, <2>10, FocusedTidy
  <1>11. ASSUME NEW w \in Windows, NEW m \in Monitors, MoveWindowToNewSpace(w, m)
         PROVE  Tidy(desk')
    <2> DEFINE d == Added(desk, m)
    <2>1. Tidy(d) /\ desk' = Track(d, w, m, Len(d.spaces[m]))
      BY <1>1, <1>11, AddedTidy DEF MoveWindowToNewSpace
    <2> HIDE DEF d
    <2>2. QED
      BY <1>2, <2>1, TrackTidy
  <1>12. ASSUME NEW w \in Windows, TogglePin(w) PROVE Tidy(desk')
    BY <1>1, <1>2, <1>12, PinTidy, UnpinTidy DEF TogglePin
  <1>13. ASSUME SetShowAllTaskbar PROVE Tidy(desk')
    <2>1. desk'.spaces = desk.spaces
      BY <1>1, <1>13 DEF SetShowAllTaskbar, Desk
    <2>2. QED
      BY <1>1, <1>3, <2>1, SameSpacesThins, ThinsApart DEF Tidy
  <1>14. QED
    BY <1>4, <1>5, <1>6, <1>7, <1>8, <1>9, <1>10, <1>11, <1>12, <1>13 DEF Command

LEMMA EventTidy ==
  ASSUME TypedBoundedApart, Event PROVE Tidy(desk')
  <1>1. Tidy(desk) /\ Sound(desk) /\ desk \in Desk
    BY TidyParts DEF Tidy, Sound
  <1>2. showAll \in BOOLEAN /\ proxy \in Proxies
    BY TidyParts DEF Flags
  <1>3. ASSUME NEW w \in Windows, Activated(w) PROVE Tidy(desk')
    <2> DEFINE adopted == IF Tracked(desk, w) THEN desk ELSE AtCurrent(desk, {w})
               home    == Home(adopted, w)
               sits    == MonitorOf(adopted, w)
               moved   == sits \notin {NoMonitor, home[1]} /\ MayRehome(TRUE)
               rehomed == Track(adopted, w, sits, adopted.current[sits])
    <2>1. /\ Tracked(desk, w) \/ MonitorOf(desk, w) # NoMonitor
          /\ \/ desk' = rehomed
             \/ SwitchFrom(adopted, home[1], home[2], w)
             \/ desk' = adopted
      BY <1>3 DEF Activated
    <2>2. Tidy(adopted) /\ Tracked(adopted, w)
      BY <1>1, <2>1, AdoptedIsTracked, AtCurrentTidy
    <2> HIDE DEF adopted
    <2>3. CASE desk' = rehomed
      BY <1>2, <2>2, <2>3, TrackTidy
    <2>4. CASE SwitchFrom(adopted, home[1], home[2], w)
      <3>1. home[1] \in Monitors /\ home[2] \in DOMAIN adopted.spaces[home[1]]
        BY <2>2, HomeIsPlace
      <3> HIDE DEF home
      <3>2. QED
        BY <1>2, <2>2, <2>4, <3>1, SwitchFromTidy
    <2>5. QED
      BY <2>1, <2>2, <2>3, <2>4
  <1>4. ASSUME NEW w \in Windows, WindowDestroyed(w) PROVE Tidy(desk')
    BY <1>1, <1>4, RemoveWindowTidy DEF WindowDestroyed
  <1>5. ASSUME NEW w \in Windows, AdoptUntracked(w) PROVE Tidy(desk')
    BY <1>1, <1>5, AtCurrentTidy DEF AdoptUntracked
  <1>6. ASSUME NEW w \in Windows, MoveSizeEnd(w) PROVE Tidy(desk')
    BY <1>1, <1>2, <1>6, TrackTidy DEF MoveSizeEnd
  <1>7. ASSUME ScanWindows PROVE Tidy(desk')
    BY <1>1, <1>7, ScanTidy DEF ScanWindows
  <1>8. ASSUME CloseVerify PROVE Tidy(desk')
    BY <1>1, <1>8, PruneTidy DEF CloseVerify
  <1>9. QED
    BY <1>3, <1>4, <1>5, <1>6, <1>7, <1>8 DEF Event

LEMMA TimerTidy ==
  ASSUME TypedBoundedApart, Timer PROVE Tidy(desk')
  <1>1. Tidy(desk) /\ proxy \in Proxies /\ plugged \in SUBSET Monitors
    BY TidyParts DEF Flags
  <1>2. CASE SettleElapses \/ SuppressionElapses \/ DisplayChange \/ SessionChange
    <2>1. desk' = desk
      BY <1>2 DEF SettleElapses, SuppressionElapses, DisplayChange, SessionChange
    <2>2. QED
      BY <1>1, <2>1
  <1>3. CASE Reconcile
    <2> DEFINE d == Rebuilt(desk)
    <2>1. Tidy(d) /\ desk' = Scan(d)
      BY <1>1, <1>3, RebuiltTidy DEF Reconcile
    <2> HIDE DEF d
    <2>2. QED
      BY <2>1, ScanTidy
  <1>4. QED
    BY <1>2, <1>3 DEF Timer

LEMMA LifeTidy ==
  ASSUME TypedBoundedApart, Life PROVE Tidy(desk')
  <1>1. Tidy(desk) /\ desk \in Desk /\ proxy \in Proxies /\ plugged \in SUBSET Monitors
    BY TidyParts DEF Tidy, Sound, Flags
  <1>2. CASE Exit
    <2>1. Released(desk) \in Desk
      BY <1>1, ReleasedKeeps DEF Keeps
    <2>2. QED
      BY <1>2, <2>1, EndedTidy DEF Exit
  <1>3. CASE Crash
    BY <1>1, <1>3, EndedTidy DEF Crash
  <1>4. CASE Start
    <2> DEFINE win == [w \in Windows |-> Reclaim(desk.win[w], proxy)]
               d == [desk EXCEPT !.win = win]
               e == Rebuilt(d)
    <2>1. win \in [Windows -> Window]
      BY <1>1, ReclaimType DEF Desk
    <2>2. desk' = Scan(e)
      BY <1>4 DEF Start
    <2> HIDE DEF win
    <2>3. Tidy(d)
      BY <1>1, <2>1, WinTidy
    <2> HIDE DEF d
    <2>4. Tidy(e)
      BY <1>1, <2>3, RebuiltTidy
    <2> HIDE DEF e
    <2>5. QED
      BY <2>2, <2>4, ScanTidy
  <1>5. QED
    BY <1>2, <1>3, <1>4 DEF Life

\* What the environment does never touches the lists.
LEMMA EnvironmentSpaces ==
  ASSUME TypedAndBounded, Environment PROVE desk'.spaces = desk.spaces
  <1>1. desk \in Desk
    BY DEF TypedAndBounded, TypeOK
  <1>2. ASSUME NEW w, NEW x, Alter(w, x) PROVE desk'.spaces = desk.spaces
    BY <1>1, <1>2 DEF Alter, Desk
  <1>3. ASSUME NEW w, \/ Open(w) \/ Retitle(w) \/ AppHide(w) \/ AppShow(w)
                      \/ Minimize(w) \/ Restore(w) \/ \E m \in Monitors : Drag(w, m)
        PROVE  desk'.spaces = desk.spaces
    <2>1. \E x : Alter(w, x)
      BY <1>3, Zenon DEF Open, Retitle, AppHide, AppShow, Minimize, Restore, Drag
    <2>2. QED
      BY <1>2, <2>1
  <1>4. ASSUME NEW w, Close(w) \/ Focus(w) PROVE desk'.spaces = desk.spaces
    BY <1>1, <1>4 DEF Close, Focus, Desk
  <1>5. ASSUME NEW p, ShellChanges(p) PROVE desk'.spaces = desk.spaces
    BY <1>5 DEF ShellChanges
  <1>6. ASSUME NEW S, PlugOrUnplug(S) PROVE desk'.spaces = desk.spaces
    BY <1>1, <1>6 DEF PlugOrUnplug, Desk
  <1>7. QED
    BY <1>3, <1>4, <1>5, <1>6 DEF Environment

LEMMA StepApart ==
  ASSUME TypedBoundedApart, [Next]_vars PROVE TypedBoundedApart'
  <1>1. TypedAndBounded /\ Tidy(desk)
    BY TidyParts DEF TypedBoundedApart
  <1>2. TypedAndBounded'
    BY <1>1, StepSound
  <1>3. CASE Environment \/ UNCHANGED vars
    <2>1. desk'.spaces = desk.spaces
      BY <1>1, <1>3, EnvironmentSpaces DEF vars
    <2>2. Apart(desk')
      BY <1>1, <2>1, SameSpacesThins, ThinsApart DEF Tidy
    <2>3. QED
      BY <1>2, <2>2 DEF TypedBoundedApart, Apart
  <1>4. CASE Command \/ Event \/ Timer \/ Life
    <2>1. Tidy(desk')
      BY <1>4, CommandTidy, EventTidy, TimerTidy, LifeTidy
    <2>2. QED
      BY <1>2, <2>1 DEF Tidy, TypedBoundedApart, Apart
  <1>5. QED
    BY <1>3, <1>4 DEF Next

\* The strengthened invariant.
THEOREM AlwaysApart == Spec => []TypedBoundedApart
  <1>1. Init => TypedBoundedApart
    <2> SUFFICES ASSUME Init PROVE TypedBoundedApart
      OBVIOUS
    <2>1. \A m \in Monitors : desk.spaces[m] = <<>>
      <3>1. \E win, now : desk = [win |-> win, spaces |-> [m \in Monitors |-> <<>>],
                                  current |-> now, pinned |-> {}, focus |-> {},
                                  fg |-> NoWindow]
        BY Zenon DEF Init
      <3>2. desk.spaces = [m \in Monitors |-> <<>>]
        BY <3>1
      <3>3. QED
        BY <3>2
    <2>2. QED
      BY <2>1, InitSound DEF TypedBoundedApart, Apart
  <1>2. TypedBoundedApart /\ [Next]_vars => TypedBoundedApart'
    BY StepApart
  <1>3. QED
    BY <1>1, <1>2, PTL DEF Spec

LEMMA ApartIsOnce ==
  ASSUME NEW d, Tidy(d), NEW w \in Windows PROVE Cardinality(Places(d, w)) <= 1
  <1>1. \A p, q \in Places(d, w) : p = q
    BY DEF Places, Tidy, Apart
  <1>2. CASE Places(d, w) = {}
    BY <1>2, FS_EmptySet
  <1>3. CASE Places(d, w) # {}
    <2>1. PICK p : Places(d, w) = {p}
      BY <1>1, <1>3
    <2>2. QED
      BY <2>1, FS_Singleton
  <1>4. QED
    BY <1>2, <1>3

\* However windows are moved, dragged, re-homed, adopted and migrated, and
\* however spaces are added, removed and reordered and displays come and go,
\* no window is ever in two lists (track_window detaches before it pushes).
THEOREM TrackedOnceCorrect == Spec => []TrackedOnce
  <1>1. TypedBoundedApart => TrackedOnce
    BY TidyParts, ApartIsOnce DEF TrackedOnce
  <1>2. QED
    BY <1>1, AlwaysApart, PTL

-----------------------------------------------------------------------------
(* Renumbering: a live window that stands on the display it is tracked on is *)
(* where it was, under the number its space has now.                         *)

\* The window is alive and stands on display m.
Stays(d, w, m) == d.win[w].live /\ d.win[w].mon = m

\* Display m shows the same windows in d and e, whatever the number of the space.
SameView(d, e, m) == e.spaces[m][e.current[m]] = d.spaces[m][d.current[m]]

\* A scan takes no window that stays off its space.
LEMMA ScanLeaves ==
  ASSUME NEW d, Tidy(d), NEW m \in Monitors, NEW i \in DOMAIN d.spaces[m],
         NEW w \in d.spaces[m][i], Stays(d, w, m)
  PROVE  w \in Scan(d).spaces[m][i]
  <1> DEFINE p       == Prune(d)
             dead    == {v \in Windows : ~d.win[v].live}
             seen    == {v \in Windows : p.win[v].live /\ ~HasHiddenBit(p.win[v])}
             system  == {v \in seen \cap SystemWindows :
                           p.win[v].titled /\ "TRACKED" \notin p.win[v].prop}
             hide    == {v \in system : /\ "SYSTEM_HIDDEN" \notin p.win[v].prop
                                        /\ SystemWindowIsShowing(p.win[v])}
             found   == {v \in seen \ system : Valid(p, v) /\ MonitorOf(p, v) # NoMonitor}
             drifted == {v \in found : Tracked(p, v) /\ Home(p, v)[1] # p.win[v].mon}
             adopt   == {v \in found : ~Tracked(p, v)}
                          \cup (IF MayRehome(TRUE) THEN drifted ELSE {})
             win     == [v \in Windows |->
                           IF v \in hide THEN HideSystem(p.win[v]) ELSE p.win[v]]
             swept   == [p EXCEPT !.win = win]
             to      == [v \in adopt |->
                           <<swept.win[v].mon, swept.current[swept.win[v].mon]>>]
  <1>1. d \in Desk /\ w \in Windows /\ i \in 1..Len(d.spaces[m]) /\ Len(d.spaces[m]) \in Nat
        /\ Len(d.spaces[m]) <= MaxSpaces
    BY DomainIsLen DEF Tidy, Sound, Bounded
  <1>2. Tidy(p) /\ p \in Desk /\ Keeps(d, p)
    BY <1>1, PruneTidy, PruneKeeps DEF Tidy, Sound
  <1>3. p.spaces = Dropped(d.spaces, dead) /\ p.win = d.win
    BY <1>1 DEF Prune, Desk
  <1>4. w \in p.spaces[m][i] /\ i \in DOMAIN p.spaces[m]
    <2>1. w \notin dead
      BY DEF Stays
    <2>2. p.spaces[m] = [j \in DOMAIN d.spaces[m] |-> d.spaces[m][j] \ dead]
      BY <1>3 DEF Dropped
    <2> HIDE DEF dead, p
    <2>3. QED
      BY <2>1, <2>2
  <1>5. <<m, i>> \in Places(p, w)
    BY <1>1, <1>4, SpacesAssumption DEF Places
  <1>6. Home(p, w)[1] = m
    <2>1. Home(p, w) \in Places(p, w)
      BY <1>5, HomeIsPlace DEF Tracked
    <2> HIDE DEF p
    <2>2. QED
      BY <1>1, <1>2, <1>4, <2>1 DEF Places, Tidy, Apart
  <1>7. w \notin adopt
    BY <1>3, <1>5, <1>6 DEF Tracked, Stays
  <1>8. Scan(d) = Place(swept, to)
    BY DEF Scan, AtCurrent
  <1>9. swept \in Desk /\ swept.spaces = p.spaces
    <2>1. \A v \in Windows : p.win[v] \in Window
      BY <1>2 DEF Desk
    <2> HIDE DEF hide, p
    <2>2. win \in [Windows -> Window]
      BY <2>1, HideSystemType
    <2> HIDE DEF win
    <2>3. QED
      BY <1>2, <2>2 DEF Desk
  <1>10. w \notin DOMAIN to
    BY <1>7
  <1> HIDE DEF to, swept, p
  <1>11. \A j \in DOMAIN swept.spaces[m] :
           Place(swept, to).spaces[m][j] =
             (swept.spaces[m][j] \ DOMAIN to) \cup {v \in DOMAIN to : to[v] = <<m, j>>}
    <2>1. swept \in Desk /\ m \in Monitors
      BY <1>9
    <2>2. QED
      BY ONLY <2>1, PlaceSpaces, Zenon
  <1>12. QED
    BY <1>4, <1>8, <1>9, <1>10, <1>11

\* Neither does a switch of the display it stays on.
LEMMA SwitchLeaves ==
  ASSUME NEW d, Tidy(d), NEW m \in Monitors, NEW i \in DOMAIN d.spaces[m],
         NEW w \in d.spaces[m][i], Stays(d, w, m), SwitchFrom(d, m, i, NoWindow),
         showAll \in BOOLEAN, proxy \in Proxies
  PROVE  w \in desk'.spaces[m][desk'.current[m]]
  <1>1. PICK scanned \in {d, Scan(d)} :
          \E v \in Landing(Switch(scanned, m, i), m) :
            desk' = Focused(Switch(scanned, m, i), v)
    BY DEF SwitchFrom
  <1> DEFINE left     == scanned.spaces[m][scanned.current[m]]
             remember == IF scanned.current[m] = i THEN scanned.focus
                         ELSE (scanned.focus \ left) \cup (left \cap {scanned.fg})
             e        == [scanned EXCEPT !.current[m] = i, !.focus = remember]
             switched == Switch(scanned, m, i)
  <1>2. d \in Desk /\ Sound(d)
    BY DEF Tidy, Sound
  <1>3. w \in scanned.spaces[m][i] /\ scanned \in Desk /\ Keeps(d, scanned)
    BY <1>2, ScanLeaves, ScanKeeps, KeepsSelf DEF Keeps
  <1>4. switched = Refresh(e, {m})
    BY DEF Switch
  <1>5. e.spaces = scanned.spaces /\ e.current[m] = i
    <2> HIDE DEF remember
    <2>1. QED
      BY <1>3 DEF Desk
  <1>6. switched.spaces = e.spaces /\ switched.current = e.current
    <2> HIDE DEF e
    <2>1. switched = [e EXCEPT !.win = Refresh(e, {m}).win]
      BY <1>4 DEF Refresh, e, Desk
    <2>2. QED
      BY <1>3, <2>1 DEF e, Desk
  <1> HIDE DEF e, switched
  <1>7. desk'.spaces = switched.spaces /\ desk'.current = switched.current
    BY <1>1 DEF Focused, switched
  <1>8. QED
    BY <1>3, <1>5, <1>6, <1>7

\* Removing a space that is not showing moves the current one, and its number, together.
LEMMA ShortenedLeaves ==
  ASSUME NEW d, Tidy(d), NEW m \in Monitors, NEW i \in DOMAIN d.spaces[m],
         Len(d.spaces[m]) > 1, i # d.current[m], proxy \in Proxies,
         NEW w \in d.spaces[m][d.current[m]]
  PROVE  LET f == Shortened(d, m, i)
         IN  w \in f.spaces[m][f.current[m]] /\ f.win[w] = d.win[w]
  <1> DEFINE j     == RemovalMigrationTarget(i)
             stays == {v \in d.spaces[m][i] : Valid(d, v)}
             goes  == d.spaces[m][i] \ stays
             to    == [v \in stays |-> <<m, j>>]
             moved == Place(d, to)
             win   == [v \in Windows |->
                         IF v \notin goes THEN moved.win[v]
                         ELSE IF MustRestoreBeforeUntrack(d.win[v])
                         THEN Forgotten(Show(d.win[v], proxy)) ELSE Forgotten(d.win[v])]
             e     == Migrated(d, m, i, j)
             f     == Shortened(d, m, i)
             c     == d.current[m]
             old   == e.spaces[m]
             row   == RemoveAt(old, i)
  <1>1. /\ d \in Desk /\ Sound(d) /\ c \in DOMAIN d.spaces[m] /\ w \in Windows
        /\ i \in 1..Len(d.spaces[m]) /\ c \in 1..Len(d.spaces[m]) /\ Len(d.spaces[m]) \in Nat
    BY DomainIsLen DEF Tidy, Sound, Bounded
  <1>2. w \notin d.spaces[m][i]
    BY <1>1 DEF Tidy, Apart
  <1>3. w \notin DOMAIN to /\ w \notin goes /\ DOMAIN to \subseteq Windows
    BY <1>1, <1>2, DomainIsLen
  <1> HIDE DEF to, goes
  <1>4. moved \in Desk /\ moved.win[w] = d.win[w]
    <2>1. moved \in Desk
      BY <1>1, <1>3, PlaceKeeps DEF Keeps
    <2>2. moved.win[w] = d.win[w]
      BY <1>1, <1>3 DEF Place, Desk
    <2>3. QED
      BY <2>1, <2>2
  <1>5. DOMAIN moved.spaces[m] = DOMAIN d.spaces[m] /\ w \in moved.spaces[m][c]
    <2>1. /\ DOMAIN Place(d, to).spaces[m] = DOMAIN d.spaces[m]
          /\ \A k \in DOMAIN d.spaces[m] :
               Place(d, to).spaces[m][k] =
                 (d.spaces[m][k] \ DOMAIN to) \cup {v \in DOMAIN to : to[v] = <<m, k>>}
      BY <1>1, PlaceSpaces, Zenon
    <2>2. QED
      BY <1>1, <1>3, <2>1
  <1>6. e = [moved EXCEPT !.spaces = Dropped(@, goes), !.pinned = @ \ goes,
                          !.focus = @ \ goes, !.win = win]
    BY DEF Migrated, to, goes
  <1> HIDE DEF moved
  <1>7. win[w] = d.win[w]
    BY <1>1, <1>3, <1>4
  <1> HIDE DEF win, e
  <1>8. e.win[w] = d.win[w] /\ e.spaces = Dropped(moved.spaces, goes)
    BY <1>4, <1>6, <1>7 DEF Desk
  <1>9. w \in old[c]
    <2>1. old = [k \in DOMAIN moved.spaces[m] |-> moved.spaces[m][k] \ goes]
      BY <1>8 DEF Dropped
    <2> HIDE DEF old
    <2>2. QED
      BY <1>1, <1>3, <1>5, <2>1
  <1>10. /\ e \in Desk /\ Len(old) = Len(d.spaces[m]) /\ e.current[m] = c
         /\ old \in Seq(SUBSET Windows)
    <2>1. Keeps(d, e)
      BY <1>1, MigratedKeeps DEF e
    <2>2. QED
      BY <2>1 DEF Keeps, SameShape, Desk
  <1>11. f = [e EXCEPT !.spaces[m] = row, !.current[m] = RemapAfterRemoval(@, i)]
    BY DEF Shortened, e
  <1> HIDE DEF old
  <1>12. \A k \in 1..(Len(old) - 1) : row[k] = IF k < i THEN old[k] ELSE old[k + 1]
    <2>1. old \in Seq(SUBSET Windows) /\ i \in 1..Len(old)
      BY <1>1, <1>10
    <2>2. QED
      BY ONLY <2>1, RemoveAtElements
  <1> HIDE DEF row, f
  <1>13. f.spaces[m] = row /\ f.current[m] = RemapAfterRemoval(c, i) /\ f.win = e.win
    BY <1>10, <1>11 DEF Desk
  <1>14. row[RemapAfterRemoval(c, i)] = old[c]
    <2>1. CASE c > i
      <3>1. RemapAfterRemoval(c, i) = c - 1 /\ c - 1 \in 1..(Len(old) - 1) /\ ~(c - 1 < i)
            /\ (c - 1) + 1 = c
        BY <1>1, <1>10, <2>1 DEF RemapAfterRemoval
      <3>2. QED
        BY <1>12, <3>1
    <2>2. CASE c < i
      <3>1. RemapAfterRemoval(c, i) = c /\ c \in 1..(Len(old) - 1)
        BY <1>1, <1>10, <2>2 DEF RemapAfterRemoval
      <3>2. QED
        BY <1>12, <2>2, <3>1
    <2>3. QED
      BY <1>1, <2>1, <2>2
  <1>15. QED
    BY <1>8, <1>9, <1>13, <1>14 DEF f

\* So does moving a space to another place.
LEMMA ReorderLeaves ==
  ASSUME NEW d, Tidy(d), NEW m \in Monitors,
         NEW i \in DOMAIN d.spaces[m], NEW j \in DOMAIN d.spaces[m],
         NEW now, now = RemapAfterReorder(d.current[m], i, j), NEW e,
         e = [d EXCEPT !.spaces[m] = InsertAt(RemoveAt(@, i), j, @[i]), !.current[m] = now]
  PROVE  SameView(d, e, m)
  <1> DEFINE old == d.spaces[m]
             cut == RemoveAt(old, i)
             row == InsertAt(cut, j, old[i])
             S   == SUBSET Windows
             c   == d.current[m]
  <1>1. /\ d \in Desk /\ Len(old) \in Nat /\ DOMAIN old = 1..Len(old)
        /\ i \in 1..Len(old) /\ j \in 1..Len(old) /\ c \in 1..Len(old)
        /\ old \in Seq(S) /\ old[i] \in S
    <2>1. d \in Desk /\ Bounded(d)
      BY DEF Tidy, Sound
    <2>2. /\ Len(old) \in Nat /\ DOMAIN old = 1..Len(old) /\ old \in Seq(S)
      BY <2>1, DomainIsLen DEF Desk
    <2>3. i \in 1..Len(old) /\ j \in 1..Len(old)
      BY <2>2
    <2>4. c \in 1..Len(old)
      BY <2>1, <2>2, <2>3 DEF Bounded
    <2>5. old[i] \in S
      BY <2>1, DomainIsLen
    <2>6. QED
      BY <2>1, <2>2, <2>3, <2>4, <2>5
  <1>2. e.spaces[m] = row /\ e.current[m] = now /\ now = RemapAfterReorder(c, i, j)
    <2>1. e.spaces = [d.spaces EXCEPT ![m] = row] /\ e.current = [d.current EXCEPT ![m] = now]
      BY <1>1 DEF Desk
    <2>2. m \in DOMAIN d.spaces /\ m \in DOMAIN d.current
      BY <1>1 DEF Desk
    <2> HIDE DEF row
    <2>3. QED
      BY <2>1, <2>2
  <1> HIDE DEF old, S, c
  <1>3. /\ cut \in Seq(S) /\ Len(cut) = Len(old) - 1
        /\ \A k \in 1..(Len(old) - 1) : cut[k] = IF k < i THEN old[k] ELSE old[k + 1]
    BY <1>1, RemoveAtElements
  <1> HIDE DEF cut
  <1>4. \A k \in 1..Len(old) :
          row[k] = IF k < j THEN cut[k] ELSE IF k = j THEN old[i] ELSE cut[k - 1]
    <2> DEFINE x == old[i]
    <2>1. /\ cut \in Seq(S) /\ x \in S /\ j \in 1..Len(old)
          /\ Len(old) \in Nat /\ Len(cut) = Len(old) - 1
      BY <1>1, <1>3
    <2> HIDE DEF x
    <2>2. \A k \in 1..Len(old) :
            InsertAt(cut, j, x)[k] =
              IF k < j THEN cut[k] ELSE IF k = j THEN x ELSE cut[k - 1]
      BY ONLY <2>1, MovedElements
    <2>3. QED
      BY <2>2 DEF x
  <1> HIDE DEF row
  <1>5. row[now] = old[c]
    <2>1. CASE c = i
      <3>1. now = j
        BY <1>2, <2>1 DEF RemapAfterReorder
      <3>2. QED
        BY <1>1, <1>4, <2>1, <3>1
    <2>2. CASE i < c /\ c <= j
      <3>1. now = c - 1 /\ c - 1 < j /\ c - 1 \in 1..Len(old) /\ c - 1 \in 1..(Len(old) - 1)
            /\ ~(c - 1 < i) /\ (c - 1) + 1 = c
        BY <1>1, <1>2, <2>2 DEF RemapAfterReorder
      <3>2. row[now] = cut[c - 1] /\ cut[c - 1] = old[c]
        BY <1>3, <1>4, <3>1
      <3>3. QED
        BY <3>2
    <2>3. CASE j <= c /\ c < i
      <3>1. now = c + 1 /\ ~(c + 1 < j) /\ c + 1 # j /\ c + 1 \in 1..Len(old)
            /\ c \in 1..(Len(old) - 1) /\ (c + 1) - 1 = c
        BY <1>1, <1>2, <2>3 DEF RemapAfterReorder
      <3>2. row[now] = cut[c] /\ cut[c] = old[c]
        BY <1>3, <1>4, <2>3, <3>1
      <3>3. QED
        BY <3>2
    <2>4. CASE c < i /\ c < j
      <3>1. now = c /\ c \in 1..(Len(old) - 1)
        BY <1>1, <1>2, <2>4 DEF RemapAfterReorder
      <3>2. QED
        BY <1>1, <1>3, <1>4, <2>4, <3>1
    <2>5. CASE c > i /\ c > j
      <3>1. now = c /\ ~(c < j) /\ c # j /\ c - 1 \in 1..(Len(old) - 1) /\ ~(c - 1 < i)
            /\ (c - 1) + 1 = c
        BY <1>1, <1>2, <2>5 DEF RemapAfterReorder
      <3>2. row[now] = cut[c - 1] /\ cut[c - 1] = old[c]
        BY <1>1, <1>3, <1>4, <3>1
      <3>3. QED
        BY <3>2
    <2>6. c = i \/ (i < c /\ c <= j) \/ (j <= c /\ c < i) \/ (c < i /\ c < j) \/ (c > i /\ c > j)
      BY <1>1
    <2>7. QED
      BY <2>1, <2>2, <2>3, <2>4, <2>5, <2>6
  <1>6. QED
    BY <1>2, <1>5 DEF old, c, SameView

LEMMA ReorderedShows ==
  ASSUME Tidy(desk), NEW m \in Monitors, NEW i, NEW j, ReorderSpace(m, i, j)
  PROVE  SameView(desk, desk', m)
  <1> DEFINE now == RemapAfterReorder(desk.current[m], i, j)
  <1>1. /\ i \in DOMAIN desk.spaces[m] /\ j \in DOMAIN desk.spaces[m]
        /\ desk' = [desk EXCEPT !.spaces[m] = InsertAt(RemoveAt(@, i), j, @[i]),
                                !.current[m] = now]
    BY DEF ReorderSpace
  <1>2. now = RemapAfterReorder(desk.current[m], i, j)
    OBVIOUS
  <1> HIDE DEF now
  <1>3. QED
    BY <1>1, <1>2, ReorderLeaves

\* Reordering the spaces of a display, or removing one that is not showing
\* (reorder_space, remove_space, with the switch and the scan that follow it),
\* takes no window off the space the user is looking at.
THEOREM RenumberingKeepsViewCorrect == Spec => RenumberingKeepsView
  <1>1. ASSUME TypedBoundedApart, NEW m \in Table(desk) \cap Table(desk'),
               LostFrom(m, desk.spaces[m][desk.current[m]]) # {}
        PROVE  /\ ~(\E i, j \in Indices : ReorderSpace(m, i, j))
               /\ ~(\E i \in Indices \ {desk.current[m]} : RemoveSpace(m, i))
    <2>1. PICK w \in desk.spaces[m][desk.current[m]] :
            /\ w \notin desk'.spaces[m][desk'.current[m]] /\ Stays(desk, w, m)
      BY <1>1 DEF LostFrom, Stays
    <2>2. Tidy(desk) /\ m \in Monitors /\ showAll \in BOOLEAN /\ proxy \in Proxies
      BY <1>1, TidyParts DEF Flags, Table
    <2>3. ASSUME NEW i, NEW j, ReorderSpace(m, i, j) PROVE FALSE
      <3>1. desk'.spaces[m][desk'.current[m]] = desk.spaces[m][desk.current[m]]
        <4>1. SameView(desk, desk', m)
          BY <2>2, <2>3, ReorderedShows
        <4>2. QED
          BY <4>1 DEF SameView
      <3>2. QED
        BY <2>1, <3>1
    <2>4. ASSUME NEW i, i # desk.current[m], RemoveSpace(m, i) PROVE FALSE
      <3> DEFINE f == Shortened(desk, m, i)
      <3>1. /\ i \in DOMAIN desk.spaces[m] /\ Len(desk.spaces[m]) > 1
            /\ SwitchFrom(f, m, f.current[m], NoWindow)
        BY <2>4 DEF RemoveSpace
      <3>2. w \in f.spaces[m][f.current[m]] /\ f.win[w] = desk.win[w]
        BY <2>2, <2>4, <3>1, ShortenedLeaves
      <3>3. Tidy(f) /\ f.current[m] \in DOMAIN f.spaces[m]
        BY <2>2, <3>1, ShortenedTidy, ShortenedSound DEF Tidy
      <3> HIDE DEF f
      <3>4. Stays(f, w, m)
        BY <2>1, <3>2 DEF Stays
      <3>5. w \in desk'.spaces[m][desk'.current[m]]
        BY <2>2, <3>1, <3>2, <3>3, <3>4, SwitchLeaves
      <3>6. QED
        BY <2>1, <3>5
    <2>5. QED
      BY <2>3, <2>4
  <1>2. TypedBoundedApart =>
          [\A m \in Table(desk) \cap Table(desk') :
             LostFrom(m, desk.spaces[m][desk.current[m]]) # {} =>
               /\ ~(\E i, j \in Indices : ReorderSpace(m, i, j))
               /\ ~(\E i \in Indices \ {desk.current[m]} : RemoveSpace(m, i))]_vars
    BY <1>1
  <1>3. QED
    BY <1>2, AlwaysApart, PTL DEF RenumberingKeepsView

-----------------------------------------------------------------------------
(* Landing: a switch focuses a window that is up whenever there is one to     *)
(* focus.                                                                     *)

\* LastOf picks what the display has up and the probe accepts, or nothing.
LEMMA LastIsValid ==
  ASSUME NEW d, NEW S, NEW w \in LastOf(d, S), w # NoWindow
  PROVE  w \in S /\ Valid(d, w)
  BY DEF LastOf, Focusable

\* The window Landing picks, if any, is one that is up.
LEMMA LandsUp ==
  ASSUME NEW d, Sound(d), NEW m \in Table(d), Focusable(d, Up(d, m)) # {},
         NEW w \in Landing(d, m)
  PROVE  w # NoWindow /\ w \in Up(d, m) /\ d.win[w].live
  <1> DEFINE own        == d.spaces[m][d.current[m]]
             remembered == own \cap d.focus
             others     == IF remembered # {} /\ remembered \subseteq Focusable(d, own)
                           THEN {} ELSE LastOf(d, own)
             up         == Up(d, m)
  <1>1. own \subseteq up /\ up \subseteq Windows
    BY UpType DEF Up, Table
  <1>2. \A v : v \in up => v # NoWindow
    BY <1>1, SpacesAssumption
  <1>3. LastOf(d, up) = Focusable(d, up)
    BY DEF LastOf
  <1>4. /\ Landing(d, m) = (Focusable(d, own) \cap remembered) \cup (others \ {NoWindow})
                             \cup (IF NoWindow \in others THEN LastOf(d, up) ELSE {})
    BY DEF Landing
  <1>5. others \subseteq LastOf(d, own)
    OBVIOUS
  <1> HIDE DEF own, remembered, others, up
  <1>6. w \in up /\ Valid(d, w)
    <2>1. CASE w \in Focusable(d, own) \cap remembered
      BY <1>1, <2>1 DEF Focusable
    <2>2. CASE w \in others \ {NoWindow}
      <3>1. w \in LastOf(d, own) /\ w # NoWindow
        BY <1>5, <2>2
      <3>2. QED
        BY <1>1, <3>1, LastIsValid
    <2>3. CASE w \in LastOf(d, up)
      BY <1>3, <2>3 DEF Focusable
    <2>4. QED
      BY <1>4, <2>1, <2>2, <2>3
  <1>7. d.win[w].live
    BY <1>6 DEF Valid, IsValid
  <1>8. QED
    BY <1>2, <1>6, <1>7 DEF up

\* After a switch the focus is the window Landing picked.
LEMMA SwitchLands ==
  ASSUME NEW d, Tidy(d), NEW m \in Monitors, NEW i \in DOMAIN d.spaces[m],
         SwitchFrom(d, m, i, NoWindow), showAll \in BOOLEAN, proxy \in Proxies,
         Focusable(desk', Up(desk', m)) # {}
  PROVE  desk'.fg \in Up(desk', m)
  <1>1. PICK scanned \in {d, Scan(d)} :
          \E v \in Landing(Switch(scanned, m, i), m) :
            desk' = Focused(Switch(scanned, m, i), v)
    BY DEF SwitchFrom
  <1> DEFINE e == Switch(scanned, m, i)
  <1>2. PICK v \in Landing(e, m) : desk' = Focused(e, v)
    BY <1>1
  <1>3. Keeps(d, scanned) /\ Sound(scanned)
    BY ScanKeeps, KeepsSelf, KeepsSound DEF Tidy, Sound
  <1>4. i \in DOMAIN scanned.spaces[m] /\ Len(scanned.spaces[m]) > 0
    <2>1. scanned \in Desk /\ Len(scanned.spaces[m]) = Len(d.spaces[m]) /\ d \in Desk
      BY <1>3 DEF Keeps, SameShape, Tidy, Sound
    <2>2. QED
      BY <2>1, DomainIsLen
  <1>5. Sound(e) /\ m \in Table(e)
    BY <1>3, <1>4, SwitchSound DEF Table
  <1> HIDE DEF e
  <1>6. /\ desk'.spaces = e.spaces /\ desk'.current = e.current
        /\ desk'.pinned = e.pinned /\ desk'.win = e.win
    BY <1>2, <1>5 DEF Focused, Sound, Desk
  <1>7. Up(desk', m) = Up(e, m) /\ Focusable(desk', Up(desk', m)) = Focusable(e, Up(e, m))
    BY <1>6 DEF Up, On, Focusable, Valid
  <1>8. v # NoWindow /\ v \in Up(e, m) /\ e.win[v].live
    BY <1>5, <1>7, LandsUp
  <1>9. desk'.fg = v
    BY <1>2, <1>5, <1>8 DEF Focused, Sound, Desk
  <1>10. QED
    BY <1>7, <1>8, <1>9

\* As long as the display that was switched, or lost a space, has a window up
\* that can be focused, a window that is up there gets the focus
\* (switch_space, focus_last_on_space): no other comes back as an activation.
THEOREM SwitchLandsUpCorrect == Spec => SwitchLandsUp
  <1>1. ASSUME TypedBoundedApart, NEW m \in Table(desk'), SwitchOf(m),
               Focusable(desk', Up(desk', m)) # {}
        PROVE  desk'.fg \in Up(desk', m)
    <2>1. Tidy(desk) /\ m \in Monitors /\ showAll \in BOOLEAN /\ proxy \in Proxies
      BY <1>1, TidyParts DEF Flags, Table
    <2>2. CASE TraySwitch(m, desk'.current[m])
      BY <1>1, <2>1, <2>2, SwitchLands DEF TraySwitch
    <2>3. ASSUME NEW i, RemoveSpace(m, i) PROVE desk'.fg \in Up(desk', m)
      <3> DEFINE f == Shortened(desk, m, i)
      <3>1. /\ i \in DOMAIN desk.spaces[m] /\ Len(desk.spaces[m]) > 1
            /\ SwitchFrom(f, m, f.current[m], NoWindow)
        BY <2>3 DEF RemoveSpace
      <3>2. Tidy(f) /\ f.current[m] \in DOMAIN f.spaces[m]
        BY <2>1, <3>1, ShortenedTidy, ShortenedSound DEF Tidy
      <3> HIDE DEF f
      <3>3. QED
        BY <1>1, <2>1, <3>1, <3>2, SwitchLands
    <2>4. QED
      BY <1>1, <2>2, <2>3 DEF SwitchOf
  <1>2. TypedBoundedApart =>
          [\A m \in Table(desk') :
             Focusable(desk', Up(desk', m)) # {} /\ desk'.fg \notin Up(desk', m)
               => ~SwitchOf(m)]_vars
    BY <1>1
  <1>3. QED
    BY <1>2, AlwaysApart, PTL DEF SwitchLandsUp

-----------------------------------------------------------------------------
(* The environments *)


\* The environments in which the daemon keeps its word: windows keep their
\* titles, the shell cloak works or fails for good, a handle is not reused
\* before the daemon has noticed the death of its window, and no rule names a
\* display that has gone.  Each exclusion is a case the code gives up on:
\* track_window forgets a window without a title or on no attached display
\* whatever state it is in, a cloak that answers without effect cannot be
\* lifted, and a property dies with the handle's first window.
Orderly == /\ Env \cap {"title", "shell", "recycle"} = {}
           /\ "rules" \in Env => "topology" \notin Env

\* The environments in which what is hidden stays out of sight: nobody but the
\* daemon undoes its hiding.  From the taskbar the user restores a window it
\* has minimized; an application shows its window again, which undoes the
\* hiding of one that refuses the cloak; and a rule's placement shows a window.
Undisturbed == /\ Env \cap {"taskbar", "rules"} = {}
               /\ "hide" \in Env => Elevated = {}

-----------------------------------------------------------------------------
(* One window *)

\* A window that is dead carries nothing over to the next of its handle.
Blank(x) == ~x.live => x.prop = {} /\ x.cloak = {} /\ x.visible # "us"

\* What is done to a window is one thing, it is on record, and it can be
\* undone.
Safe(x) ==
  /\ x.titled
  /\ Recorded(x) /\ x.cloak # Layers
  /\ \A a, b \in x.prop \cap HIDDEN_MASK : a = b
  /\ "SYSTEM_HIDDEN" \in x.prop => ~HasHiddenBit(x) /\ "TRACKED" \notin x.prop
  /\ "FORCED_MINIMIZED" \in x.prop => "WAS_ICONIC" \notin x.prop
  /\ "SHELL_CLOAKED" \in x.prop => proxy = "works"
  /\ proxy # "stuck"

\* The user has it back: no cloak, and not hidden by the daemon.
Free(x) == x.cloak = {} /\ x.visible # "us"

\* What its property says was done to the window is still in effect.
Effective(x) ==
  /\ "CLOAKED" \in x.prop => "dwm" \in x.cloak
  /\ "SHELL_CLOAKED" \in x.prop => "shell" \in x.cloak
  /\ "FORCED_MINIMIZED" \in x.prop => x.iconic
  /\ "SW_HIDDEN" \in x.prop => x.elevated /\ x.visible # "yes"
  /\ x.elevated => Elevated # {}

Sane(x) == /\ x \in Window /\ Blank(x)
           /\ Orderly => Safe(x) /\ (Undisturbed => Effective(x))

\* The property agrees with the places where a window is listed.
Booked(x, places) ==
  Sane(x) /\ (x.live => (places # {} <=> "TRACKED" \in x.prop))

\* A cloak that answers without effect, or stays on, is never asked for.
Steady == proxy \in Proxies /\ (Orderly => proxy \notin {"noop", "stuck"})

\* The fields that Show writes into a window with a property.
LEMMA ShowIs ==
  ASSUME NEW x \in Window, x.prop # {}, NEW p
  PROVE  /\ Show(x, p).cloak = ShownLayers(x, p)
         /\ Show(x, p).visible = IF ComesBack(x) THEN "yes" ELSE x.visible
         /\ Show(x, p).prop = ShownProp(x, p)
         /\ Show(x, p).live = x.live /\ Show(x, p).titled = x.titled
         /\ Show(x, p).mon = x.mon /\ Show(x, p).elevated = x.elevated
  BY DEF Show, Window

\* What Show leaves alone, whatever the shell cloak answers.
LEMMA ShowKeeps ==
  ASSUME NEW x \in Window, NEW p
  PROVE  /\ Show(x, p).live = x.live /\ Show(x, p).titled = x.titled
         /\ Show(x, p).mon = x.mon /\ Show(x, p).elevated = x.elevated
         /\ "TRACKED" \in Show(x, p).prop <=> "TRACKED" \in x.prop
         /\ "SYSTEM_HIDDEN" \in Show(x, p).prop <=> "SYSTEM_HIDDEN" \in x.prop
         /\ x.prop = {} => Show(x, p) = x
  <1>1. x.prop = {} => Show(x, p) = x
    BY DEF Show
  <1>2. /\ "TRACKED" \notin SurvivingBit(ShownLayers(x, p))
        /\ "SYSTEM_HIDDEN" \notin SurvivingBit(ShownLayers(x, p))
    BY DEF SurvivingBit
  <1>3. QED
    BY <1>1, <1>2, ShowIs DEF ShownProp

\* A window without a hidden bit is not hidden, except for the cloak of a
\* system window.
LEMMA SafeIsFree ==
  ASSUME NEW x \in Window, Safe(x), ~HasHiddenBit(x), "SYSTEM_HIDDEN" \notin x.prop
  PROVE  Free(x)
  BY DEF Safe, Recorded, HasHiddenBit, HIDDEN_MASK, Free, Window, Layers

LEMMA NoneInEffect ==
  ASSUME NEW x, ~HasHiddenBit(x), x.elevated => Elevated # {}
  PROVE  Effective(x)
  BY DEF Effective, HasHiddenBit, HIDDEN_MASK

\* Show undoes whatever the daemon has done to a safe window, except for the
\* cloak of a system window.
LEMMA ShowFrees ==
  ASSUME NEW x \in Window, Safe(x), proxy \in Proxies
  PROVE  /\ Safe(Show(x, proxy)) /\ ~HasHiddenBit(Show(x, proxy))
         /\ "SYSTEM_HIDDEN" \notin x.prop => Free(Show(x, proxy))
  <1> DEFINE y == Show(x, proxy)
  <1>1. x.prop \subseteq Bits /\ x.cloak \subseteq Layers /\ y \in Window
    BY ShowType DEF Window
  <1>2. CASE x.prop = {}
    BY <1>2, ShowKeeps, SafeIsFree DEF HasHiddenBit
  <1>3. CASE x.prop # {}
    <2>1. /\ y.cloak = ShownLayers(x, proxy) /\ y.prop = ShownProp(x, proxy)
          /\ y.visible = IF ComesBack(x) THEN "yes" ELSE x.visible
          /\ y.titled = x.titled
      BY <1>3, ShowIs
    <2>2. /\ "SHELL_CLOAKED" \in x.prop => proxy = "works"
          /\ proxy # "stuck"
          /\ \A a, b \in HIDDEN_MASK : a \in x.prop /\ b \in x.prop => a = b
          /\ "SYSTEM_HIDDEN" \in x.prop => \A b \in HIDDEN_MASK : b \notin x.prop
          /\ "FORCED_MINIMIZED" \in x.prop => "WAS_ICONIC" \notin x.prop
          /\ "dwm" \in x.cloak => "CLOAKED" \in x.prop \/ "SYSTEM_HIDDEN" \in x.prop
          /\ "shell" \in x.cloak => "SHELL_CLOAKED" \in x.prop
          /\ x.visible = "us" => "SW_HIDDEN" \in x.prop
          /\ x.titled
      BY DEF Safe, HasHiddenBit, Recorded
    <2>3. /\ y.cloak \subseteq {"dwm"}
          /\ "dwm" \in y.cloak => "SYSTEM_HIDDEN" \in x.prop
      BY <1>1, <2>1, <2>2 DEF ShownLayers, Layers, ShellActs
    <2>4. ("CLOAKED" \in x.prop \/ "SHELL_CLOAKED" \in x.prop) =>
            SurvivingBit(y.cloak) = {}
      BY <2>2, <2>3 DEF SurvivingBit, HIDDEN_MASK
    <2>5. y.visible # "us"
      BY <2>1, <2>2 DEF HIDDEN_MASK, ComesBack, Unforced, Reminimized
    <2>6. y.prop = x.prop \ HIDDEN_MASK
      BY <2>1, <2>2, <2>4 DEF HIDDEN_MASK, ShownProp, Unforced
    <2> HIDE DEF y
    <2>7. ~HasHiddenBit(y)
      BY <2>6 DEF HasHiddenBit
    <2>8. "SYSTEM_HIDDEN" \in y.prop <=> "SYSTEM_HIDDEN" \in x.prop
      BY <2>6 DEF HIDDEN_MASK
    <2>9. Recorded(y) /\ y.cloak # Layers
      BY <2>3, <2>5, <2>8 DEF Recorded, Layers
    <2>10. "SYSTEM_HIDDEN" \in y.prop => "TRACKED" \notin y.prop
      BY <2>6 DEF Safe
    <2>11. Safe(y)
      BY <2>1, <2>2, <2>6, <2>7, <2>9, <2>10 DEF Safe, HasHiddenBit, HIDDEN_MASK
    <2>12. "SYSTEM_HIDDEN" \notin x.prop => Free(y)
      BY <2>3, <2>5 DEF Free
    <2>13. QED
      BY <2>7, <2>11, <2>12 DEF y
  <1>4. QED
    BY <1>2, <1>3

-----------------------------------------------------------------------------
(* What the methods of the manager do to one window *)

LEMMA ShowBooked ==
  ASSUME NEW x, NEW P, Booked(x, P), proxy \in Proxies
  PROVE  Booked(Show(x, proxy), P)
  <1> DEFINE y == Show(x, proxy)
  <1>1. x \in Window /\ y \in Window
    BY ShowType DEF Booked, Sane
  <1>2. y.live = x.live /\ ("TRACKED" \in y.prop <=> "TRACKED" \in x.prop)
    BY <1>1, ShowKeeps
  <1>3. Blank(y)
    <2>1. ~x.live => y = x
      BY <1>1, ShowKeeps DEF Booked, Sane, Blank
    <2>2. QED
      BY <1>2, <2>1 DEF Booked, Sane, Blank
  <1>4. Orderly => Safe(y) /\ ~HasHiddenBit(y)
    BY <1>1, ShowFrees DEF Booked, Sane
  <1>5. y.elevated = x.elevated
    BY <1>1, ShowKeeps
  <1> HIDE DEF y
  <1>6. Orderly /\ Undisturbed => Effective(y)
    BY <1>4, <1>5, NoneInEffect DEF Booked, Sane, Effective
  <1>7. QED
    BY <1>1, <1>2, <1>3, <1>4, <1>6 DEF Booked, Sane, y

\* Hiding a safe window that is tracked puts one layer on it, and the bit of
\* that layer into its property.
LEMMA HideSafe ==
  ASSUME NEW x \in Window, Safe(x), "SYSTEM_HIDDEN" \notin x.prop,
         NEW a \in BOOLEAN, proxy \in Proxies, proxy # "noop"
  PROVE  Safe(Hide(x, a, proxy))
  <1>1. CASE x.prop = {} \/ HasHiddenBit(x)
    BY <1>1 DEF Hide
  <1>2. CASE x.prop # {} /\ ~HasHiddenBit(x)
    <2>1. Free(x) /\ x.titled /\ proxy # "stuck"
      BY <1>2, SafeIsFree DEF Safe
    <2>2. \A b \in HIDDEN_MASK : b \notin x.prop
      BY <1>2 DEF HasHiddenBit
    <2> DEFINE noted == IF x.iconic THEN x.prop \cup {"WAS_ICONIC"}
                                    ELSE x.prop \ {"WAS_ICONIC"}
    <2>3. /\ \A b \in HIDDEN_MASK \cup {"SYSTEM_HIDDEN"} : b \notin noted
          /\ ~x.iconic => "WAS_ICONIC" \notin noted
      BY <2>2 DEF HIDDEN_MASK
    <2> HIDE DEF noted
    <2>4. CASE a /\ proxy = "works"
      <3>1. Hide(x, a, proxy) = [x EXCEPT !.prop  = noted \cup {"SHELL_CLOAKED"},
                                          !.cloak = x.cloak \cup {"shell"}]
        BY <1>2, <2>4 DEF Hide, noted, ShellActs
      <3> DEFINE y == Hide(x, a, proxy)
      <3>2. /\ y.prop = noted \cup {"SHELL_CLOAKED"} /\ y.cloak = {"shell"}
            /\ y.visible # "us" /\ y.titled
        BY <2>1, <3>1 DEF Free, Window
      <3> HIDE DEF y
      <3>3. Recorded(y) /\ y.cloak # Layers
        BY <3>2 DEF Recorded, Layers
      <3>4. QED
        BY <2>3, <2>4, <3>2, <3>3 DEF Safe, HIDDEN_MASK, y
    <2>5. CASE a /\ proxy = "fails"
      <3>1. Hide(x, a, proxy) = [x EXCEPT !.prop   = IF x.iconic THEN noted
                                                     ELSE noted \cup {"FORCED_MINIMIZED"},
                                          !.iconic = TRUE]
        BY <1>2, <2>5 DEF Hide, noted
      <3> DEFINE y == Hide(x, a, proxy)
      <3>2. /\ y.prop = IF x.iconic THEN noted ELSE noted \cup {"FORCED_MINIMIZED"}
            /\ y.cloak = {} /\ y.visible # "us" /\ y.titled
        BY <2>1, <3>1 DEF Free, Window
      <3> HIDE DEF y
      <3>3. Recorded(y) /\ y.cloak # Layers
        BY <3>2 DEF Recorded, Layers
      <3>4. QED
        BY <2>3, <3>2, <3>3 DEF Safe, HIDDEN_MASK, y
    <2>6. CASE ~a /\ x.elevated
      <3>1. Hide(x, a, proxy) = [x EXCEPT !.prop    = noted \cup {"SW_HIDDEN"},
                                          !.visible = IF x.visible = "yes" THEN "us"
                                                      ELSE x.visible]
        BY <1>2, <2>6 DEF Hide, noted
      <3>2. QED
        BY <2>1, <2>3, <2>6, <3>1
        DEF Safe, Free, Recorded, Layers, HasHiddenBit, HIDDEN_MASK, Window
    <2>7. CASE ~a /\ ~x.elevated
      <3>1. Hide(x, a, proxy) = [x EXCEPT !.prop  = noted \cup {"CLOAKED"},
                                          !.cloak = x.cloak \cup {"dwm"}]
        BY <1>2, <2>7 DEF Hide, noted
      <3>2. QED
        BY <2>1, <2>3, <2>7, <3>1
        DEF Safe, Free, Recorded, Layers, HasHiddenBit, HIDDEN_MASK, Window
    <2>8. QED
      BY <2>1, <2>4, <2>5, <2>6, <2>7 DEF Proxies
  <1>3. QED
    BY <1>1, <1>2

\* ... and the window is out of sight, in the way that its new bit says.
LEMMA HideEffective ==
  ASSUME NEW x \in Window, Effective(x), NEW a \in BOOLEAN,
         proxy \in Proxies, proxy # "noop"
  PROVE  /\ Effective(Hide(x, a, proxy))
         /\ x.prop # {} => ~OnScreen(Hide(x, a, proxy))
  <1> DEFINE y == Hide(x, a, proxy)
             noted == IF x.iconic THEN x.prop \cup {"WAS_ICONIC"}
                                  ELSE x.prop \ {"WAS_ICONIC"}
  <1>1. CASE x.prop = {} \/ HasHiddenBit(x)
    <2>1. y = x
      BY <1>1 DEF Hide
    <2> HIDE DEF y
    <2>2. x.prop # {} => ~OnScreen(x)
      BY <1>1 DEF Effective, HasHiddenBit, HIDDEN_MASK, OnScreen
    <2>3. QED
      BY <2>1, <2>2 DEF y
  <1>2. CASE x.prop # {} /\ ~HasHiddenBit(x)
    <2>1. \A b \in HIDDEN_MASK : b \notin noted
      BY <1>2 DEF HasHiddenBit, HIDDEN_MASK
    <2>2. x.elevated => Elevated # {}
      BY DEF Effective
    <2> HIDE DEF noted
    <2>3. CASE a /\ ShellActs(proxy)
      <3>1. y = [x EXCEPT !.prop = noted \cup {"SHELL_CLOAKED"},
                          !.cloak = x.cloak \cup {"shell"}]
        BY <1>2, <2>3 DEF Hide, noted, ShellActs
      <3>2. /\ y.prop = noted \cup {"SHELL_CLOAKED"} /\ "shell" \in y.cloak
            /\ y.elevated = x.elevated
        BY <3>1 DEF Window
      <3> HIDE DEF y
      <3>3. QED
        BY <2>1, <2>2, <3>2 DEF Effective, OnScreen, HIDDEN_MASK, y
    <2>4. CASE a /\ proxy = "fails"
      <3>1. y = [x EXCEPT !.prop   = IF x.iconic THEN noted
                                     ELSE noted \cup {"FORCED_MINIMIZED"},
                          !.iconic = TRUE]
        BY <1>2, <2>4 DEF Hide, noted
      <3>2. /\ y.prop \subseteq noted \cup {"FORCED_MINIMIZED"} /\ y.iconic
            /\ y.elevated = x.elevated
        BY <3>1 DEF Window
      <3> HIDE DEF y
      <3>3. QED
        BY <2>1, <2>2, <3>2 DEF Effective, OnScreen, HIDDEN_MASK, y
    <2>5. CASE ~a /\ x.elevated
      <3>1. y = [x EXCEPT !.prop    = noted \cup {"SW_HIDDEN"},
                          !.visible = IF x.visible = "yes" THEN "us" ELSE x.visible]
        BY <1>2, <2>5 DEF Hide, noted
      <3>2. /\ y.prop = noted \cup {"SW_HIDDEN"} /\ y.visible # "yes"
            /\ y.elevated = x.elevated
        BY <3>1 DEF Window
      <3> HIDE DEF y
      <3>3. QED
        BY <2>1, <2>2, <2>5, <3>2 DEF Effective, OnScreen, HIDDEN_MASK, y
    <2>6. CASE ~a /\ ~x.elevated
      <3>1. y = [x EXCEPT !.prop  = noted \cup {"CLOAKED"},
                          !.cloak = x.cloak \cup {"dwm"}]
        BY <1>2, <2>6 DEF Hide, noted
      <3>2. /\ y.prop = noted \cup {"CLOAKED"} /\ "dwm" \in y.cloak
            /\ y.elevated = x.elevated
        BY <3>1 DEF Window
      <3> HIDE DEF y
      <3>3. QED
        BY <2>1, <2>2, <3>2 DEF Effective, OnScreen, HIDDEN_MASK, y
    <2>7. QED
      BY <2>3, <2>4, <2>5, <2>6 DEF Proxies, ShellActs
  <1>3. QED
    BY <1>1, <1>2

LEMMA HideBooked ==
  ASSUME NEW x, NEW P, Booked(x, P), P # {}, NEW a \in BOOLEAN, Steady
  PROVE  Booked(Hide(x, a, proxy), P)
  <1> DEFINE y == Hide(x, a, proxy)
  <1>1. x \in Window /\ y \in Window /\ proxy \in Proxies
    BY HideType DEF Booked, Sane, Steady
  <1>2. CASE x.prop = {}
    BY <1>2 DEF Hide
  <1>3. CASE x.prop # {}
    <2>1. x.live /\ "TRACKED" \in x.prop
      BY <1>3 DEF Booked, Sane, Blank
    <2>2. y.live = x.live /\ "TRACKED" \in y.prop
      BY <1>1, <2>1 DEF Hide, Window
    <2>3. Orderly => Safe(y) /\ (Undisturbed => Effective(y))
      <3>1. Orderly => Safe(x) /\ "SYSTEM_HIDDEN" \notin x.prop /\ proxy # "noop"
        BY <2>1 DEF Booked, Sane, Safe, Steady
      <3>2. Orderly /\ Undisturbed => Effective(x)
        BY DEF Booked, Sane
      <3>3. QED
        BY <1>1, <3>1, <3>2, HideSafe, HideEffective
    <2> HIDE DEF y
    <2>4. QED
      BY <1>1, <2>1, <2>2, <2>3 DEF Booked, Sane, Blank, y
  <1>4. QED
    BY <1>2, <1>3

Marked(x) == [x EXCEPT !.prop = TrackedProp(x)]

\* track_window keeps the hidden bits of a window that has them; one that has
\* none and passes the probe is not hidden.
LEMMA MarkedBooked ==
  ASSUME NEW x, NEW P, Booked(x, P), IsValid(x), NEW Q, Q # {}
  PROVE  Booked(Marked(x), Q)
  <1> DEFINE y == Marked(x)
  <1>1. x \in Window /\ x.live /\ TrackedProp(x) \in SUBSET Bits
    BY TrackedPropType DEF Booked, Sane, IsValid
  <1>2. /\ y.live = x.live /\ y.titled = x.titled /\ y.cloak = x.cloak
        /\ y.visible = x.visible /\ y.prop = TrackedProp(x) /\ y \in Window
        /\ y.iconic = x.iconic /\ y.elevated = x.elevated
    BY <1>1 DEF Window, Marked
  <1>3. /\ "TRACKED" \in y.prop /\ "SYSTEM_HIDDEN" \notin y.prop
        /\ \A b \in HIDDEN_MASK : b \in y.prop <=> b \in x.prop
        /\ "FORCED_MINIMIZED" \in x.prop =>
             ("WAS_ICONIC" \in y.prop <=> "WAS_ICONIC" \in x.prop)
    BY <1>2 DEF TrackedProp, HIDDEN_MASK
  <1> HIDE DEF y
  <1>4. ASSUME Orderly PROVE Safe(y)
    <2>1. Safe(x)
      BY <1>4 DEF Booked, Sane
    <2>2. "dwm" \in x.cloak => "CLOAKED" \in x.prop
      <3>1. CASE "SYSTEM_HIDDEN" \in x.prop
        BY <2>1, <3>1 DEF Safe, IsValid, ExternallyCloaked, HasHiddenBit, HIDDEN_MASK
      <3>2. CASE "SYSTEM_HIDDEN" \notin x.prop
        BY <2>1, <3>2 DEF Safe, Recorded
      <3>3. QED
        BY <3>1, <3>2
    <2>3. Recorded(y)
      BY <1>2, <1>3, <2>1, <2>2 DEF Safe, Recorded, HIDDEN_MASK
    <2>4. \A a, b \in y.prop \cap HIDDEN_MASK : a = b
      BY <1>3, <2>1 DEF Safe
    <2>5. QED
      BY <1>2, <1>3, <2>1, <2>3, <2>4 DEF Safe, HIDDEN_MASK
  <1>5. ASSUME Orderly, Undisturbed PROVE Effective(y)
    <2>1. Effective(x)
      BY <1>5 DEF Booked, Sane
    <2>2. QED
      BY <1>2, <1>3, <2>1 DEF Effective, HIDDEN_MASK
  <1>6. QED
    BY <1>1, <1>2, <1>3, <1>4, <1>5 DEF Booked, Sane, Blank, y

\* A window that is let go of is not hidden, or it is shown first.
LEMMA ForgottenBooked ==
  ASSUME NEW x, NEW P, Booked(x, P),
         Orderly => ~MustRestoreBeforeUntrack(x) /\ "SYSTEM_HIDDEN" \notin x.prop
  PROVE  Booked(Forgotten(x), {})
  <1> DEFINE y == Forgotten(x)
  <1>1. /\ y \in Window /\ y.prop = {} /\ y.live = x.live /\ y.titled = x.titled
        /\ y.cloak = x.cloak /\ y.visible = x.visible /\ x \in Window
        /\ y.elevated = x.elevated
    BY ForgottenType DEF Booked, Sane, Forgotten, Window
  <1> HIDE DEF y
  <1>2. Blank(y)
    BY <1>1 DEF Booked, Sane, Blank
  <1>3. ASSUME Orderly PROVE Safe(y)
    <2>1. Safe(x) /\ "SYSTEM_HIDDEN" \notin x.prop
      BY <1>3 DEF Booked, Sane
    <2>2. ~HasHiddenBit(x)
      BY <1>3 DEF MustRestoreBeforeUntrack, Booked, Sane, Blank, HasHiddenBit
    <2>3. Free(x)
      BY <1>1, <2>1, <2>2, SafeIsFree
    <2>4. QED
      BY <1>1, <2>1, <2>3 DEF Safe, Free, Recorded, HasHiddenBit, Layers
  <1>4. ASSUME Orderly, Undisturbed PROVE Effective(y)
    BY <1>1, <1>4 DEF Booked, Sane, Effective
  <1>5. QED
    BY <1>1, <1>2, <1>3, <1>4 DEF Booked, Sane, y

LEMMA LetGoBooked ==
  ASSUME NEW x, NEW P, Booked(x, P), Orderly => "SYSTEM_HIDDEN" \notin x.prop,
         proxy \in Proxies
  PROVE  Booked(Forgotten(Show(x, proxy)), {})
  <1> DEFINE y == Show(x, proxy)
  <1>1. Booked(y, P) /\ x \in Window
    BY ShowBooked DEF Booked, Sane
  <1>2. Orderly => "SYSTEM_HIDDEN" \notin y.prop
    BY <1>1, ShowKeeps
  <1>3. Orderly => ~HasHiddenBit(y)
    BY <1>1, ShowFrees DEF Booked, Sane
  <1> HIDE DEF y
  <1>4. Orderly => ~MustRestoreBeforeUntrack(y)
    BY <1>3 DEF MustRestoreBeforeUntrack
  <1>5. QED
    BY <1>1, <1>2, <1>4, ForgottenBooked DEF y

\* A window that is tracked is no hidden system window.
LEMMA TrackedIsNoSystem ==
  ASSUME NEW x, NEW P, Booked(x, P), P # {}
  PROVE  Orderly => "SYSTEM_HIDDEN" \notin x.prop
  BY DEF Booked, Sane, Blank, Safe

\* The scan hides a system window that is in view and not tracked.
LEMMA HideSystemBooked ==
  ASSUME NEW x, NEW P, Booked(x, P), x.live, ~HasHiddenBit(x),
         "TRACKED" \notin x.prop
  PROVE  Booked(HideSystem(x), P)
  <1> DEFINE y == HideSystem(x)
  <1>1. y \in Window /\ x \in Window
    BY HideSystemType DEF Booked, Sane
  <1>2. /\ y.live = x.live /\ y.titled = x.titled /\ y.visible = "app"
        /\ y.prop = x.prop \cup {"SYSTEM_HIDDEN"} /\ y.elevated = x.elevated
        /\ y.cloak = IF x.elevated THEN x.cloak ELSE x.cloak \cup {"dwm"}
    BY <1>1 DEF HideSystem, Window
  <1> HIDE DEF y
  <1>3. ASSUME Orderly PROVE Safe(y)
    <2>1. Safe(x) /\ \A b \in HIDDEN_MASK : b \notin x.prop
      BY <1>3 DEF Booked, Sane, HasHiddenBit
    <2>2. "shell" \notin y.cloak
      BY <1>2, <2>1 DEF Safe, Recorded, HIDDEN_MASK
    <2>3. \A b \in HIDDEN_MASK : b \notin y.prop
      BY <1>2, <2>1 DEF HIDDEN_MASK
    <2>4. Recorded(y) /\ y.cloak # Layers
      BY <1>2, <2>2 DEF Recorded, Layers
    <2>5. QED
      BY <1>2, <2>1, <2>3, <2>4 DEF Safe, HasHiddenBit, HIDDEN_MASK
  <1>4. ASSUME Orderly, Undisturbed PROVE Effective(y)
    <2>1. ~HasHiddenBit(y)
      BY <1>2 DEF HasHiddenBit, HIDDEN_MASK
    <2>2. x.elevated => Elevated # {}
      BY <1>4 DEF Booked, Sane, Effective
    <2>3. QED
      BY <1>2, <2>1, <2>2, NoneInEffect
  <1>5. QED
    BY <1>1, <1>2, <1>3, <1>4 DEF Booked, Sane, Blank, y

\* A daemon that starts, and one that ends, gives every window back.
LEMMA ReclaimBooked ==
  ASSUME NEW x, Sane(x), proxy \in Proxies
  PROVE  /\ Booked(Reclaim(x, proxy), {})
         /\ Orderly => Reclaim(x, proxy).prop = {} /\ Free(Reclaim(x, proxy))
  <1> DEFINE y == Reclaim(x, proxy)
             z == [x EXCEPT !.cloak = IF proxy = "stuck" THEN @ ELSE @ \ {"dwm"}]
  <1>1. x \in Window /\ y \in Window
    BY ReclaimType DEF Sane
  <1>2. CASE "SYSTEM_HIDDEN" \in x.prop
    <2>1. y = Forgotten(z)
      BY <1>2 DEF Reclaim
    <2>2. /\ y.prop = {} /\ y.live = x.live /\ y.titled = x.titled
          /\ y.visible = x.visible /\ y.cloak \subseteq x.cloak
          /\ proxy # "stuck" => y.cloak = x.cloak \ {"dwm"}
          /\ y.elevated = x.elevated
      BY <1>1, <2>1 DEF Forgotten, Window
    <2> HIDE DEF y, z
    <2>3. Blank(y)
      BY <2>2 DEF Sane, Blank
    <2>4. ASSUME Orderly PROVE Safe(y) /\ Free(y)
      <3>1. Safe(x) /\ \A b \in HIDDEN_MASK : b \notin x.prop
        BY <1>2, <2>4 DEF Sane, Safe, HasHiddenBit
      <3>2. y.visible # "us" /\ y.cloak = {} /\ y.titled
        BY <1>1, <2>2, <3>1 DEF Safe, Recorded, HIDDEN_MASK, Window, Layers
      <3>3. QED
        BY <2>2, <3>1, <3>2 DEF Safe, Free, Recorded, HasHiddenBit, Layers
    <2>5. ASSUME Orderly, Undisturbed PROVE Effective(y)
      BY <2>2, <2>5 DEF Sane, Effective
    <2>6. QED
      BY <1>1, <2>2, <2>3, <2>4, <2>5 DEF Booked, Sane, y
  <1>3. CASE "SYSTEM_HIDDEN" \notin x.prop
    <2> DEFINE P == IF "TRACKED" \in x.prop THEN {1} ELSE {}
               back == IF HasHiddenBit(x) THEN Show(x, proxy) ELSE x
    <2>1. Booked(x, P)
      BY DEF Booked
    <2>2. y = Forgotten(back)
      BY <1>3 DEF Reclaim
    <2> HIDE DEF P
    <2>3. Booked(y, {})
      BY <1>3, <2>1, <2>2, LetGoBooked, ForgottenBooked DEF MustRestoreBeforeUntrack
    <2>4. ASSUME Orderly PROVE y.prop = {} /\ Free(y)
      <3>1. y.prop = {}
        <4>1. back \in Window
          BY <1>1, ShowType
        <4> HIDE DEF back
        <4>2. QED
          BY <2>2, <4>1 DEF Forgotten, Window
      <3> HIDE DEF y
      <3>2. y \in Window /\ Safe(y)
        BY <2>3, <2>4 DEF Booked, Sane
      <3>3. QED
        BY <3>1, <3>2, SafeIsFree DEF HasHiddenBit
    <2>5. QED
      BY <2>3, <2>4
  <1>4. QED
    BY <1>2, <1>3

-----------------------------------------------------------------------------
(* Desks: where a window is listed *)

\* Without display changes no attached display is ever without spaces.
Full(d) == "topology" \notin Env => \A m \in Monitors : Len(d.spaces[m]) > 0

Books(d) == \A w \in Windows : Booked(d.win[w], Places(d, w))

Kept(d) == Tidy(d) /\ Full(d) /\ Books(d)

LEMMA KeptFrom ==
  ASSUME NEW d, NEW e, Kept(d), Keeps(d, e), Tidy(e), Books(e) PROVE Kept(e)
  BY DEF Kept, Full, Keeps, SameShape

LEMMA SamePlaces ==
  ASSUME NEW d, NEW e, e.spaces = d.spaces, NEW w PROVE Places(e, w) = Places(d, w)
  BY DEF Places

LEMMA DroppedPlaces ==
  ASSUME NEW d \in Desk, NEW e, NEW S, e.spaces = Dropped(d.spaces, S), NEW w
  PROVE  Places(e, w) = IF w \in S THEN {} ELSE Places(d, w)
  <1>1. \A m \in Monitors : e.spaces[m] = [i \in DOMAIN d.spaces[m] |-> d.spaces[m][i] \ S]
    BY DEF Dropped
  <1>2. \A m \in Monitors : /\ DOMAIN e.spaces[m] = DOMAIN d.spaces[m]
                           /\ \A i \in DOMAIN d.spaces[m] : e.spaces[m][i] = d.spaces[m][i] \ S
    BY <1>1
  <1>3. \A p \in Monitors \X (1..MaxSpaces) :
          p \in Places(e, w) <=> w \notin S /\ p \in Places(d, w)
    BY <1>2 DEF Places
  <1>4. QED
    BY <1>3 DEF Places

\* A list that holds a window is one of its places, on a sound desk.
LEMMA ListIsPlace ==
  ASSUME NEW d, Sound(d), NEW m \in Monitors, NEW i \in DOMAIN d.spaces[m]
  PROVE  \A w \in d.spaces[m][i] : <<m, i>> \in Places(d, w)
  <1>1. d \in Desk /\ Len(d.spaces[m]) \in Nat /\ DOMAIN d.spaces[m] = 1..Len(d.spaces[m])
        /\ Len(d.spaces[m]) <= MaxSpaces
    BY DomainIsLen DEF Sound, Bounded
  <1>2. i \in 1..MaxSpaces
    BY <1>1, SpacesAssumption
  <1>3. QED
    BY <1>2 DEF Places

LEMMA OnIsTracked ==
  ASSUME NEW d, Sound(d), NEW m \in Monitors, NEW w \in On(d, m)
  PROVE  Places(d, w) # {}
  BY ListIsPlace DEF On

LEMMA PlacePlaces ==
  ASSUME NEW d, Sound(d), NEW to, NEW w
  PROVE  /\ w \notin DOMAIN to => Places(Place(d, to), w) = Places(d, w)
         /\ \A m \in Monitors : \A i \in DOMAIN d.spaces[m] :
              w \in DOMAIN to /\ to[w] = <<m, i>> => Places(Place(d, to), w) # {}
  <1> DEFINE e == Place(d, to)
  <1>1. d \in Desk
    BY DEF Sound
  <1>2. ASSUME NEW m \in Monitors
        PROVE  /\ DOMAIN e.spaces[m] = DOMAIN d.spaces[m]
               /\ \A i \in DOMAIN d.spaces[m] :
                    e.spaces[m][i] =
                      (d.spaces[m][i] \ DOMAIN to) \cup {x \in DOMAIN to : to[x] = <<m, i>>}
    BY <1>1, PlaceSpaces
  <1> HIDE DEF e
  <1>3. w \notin DOMAIN to => Places(e, w) = Places(d, w)
    BY <1>2 DEF Places
  <1>4. ASSUME NEW m \in Monitors, NEW i \in DOMAIN d.spaces[m],
               w \in DOMAIN to, to[w] = <<m, i>>
        PROVE  Places(e, w) # {}
    <2>1. Len(d.spaces[m]) \in Nat /\ DOMAIN d.spaces[m] = 1..Len(d.spaces[m])
          /\ Len(d.spaces[m]) <= MaxSpaces
      BY <1>1, DomainIsLen DEF Sound, Bounded
    <2>2. i \in 1..MaxSpaces
      BY <2>1, SpacesAssumption
    <2>3. i \in DOMAIN e.spaces[m] /\ w \in e.spaces[m][i]
      BY <1>2, <1>4
    <2>4. <<m, i>> \in Places(e, w)
      BY <2>2, <2>3 DEF Places
    <2>5. QED
      BY <2>4
  <1>5. QED
    BY <1>3, <1>4 DEF e

-----------------------------------------------------------------------------
(* The methods that track, move and forget windows *)

\* The same lists and other windows.
LEMMA WinKept ==
  ASSUME NEW d, Kept(d), NEW f \in [Windows -> Window],
         \A w \in Windows : Booked(f[w], Places(d, w))
  PROVE  Kept([d EXCEPT !.win = f])
  <1> DEFINE e == [d EXCEPT !.win = f]
  <1>1. d \in Desk
    BY DEF Kept, Tidy, Sound
  <1>2. e.spaces = d.spaces /\ e.win = f /\ Keeps(d, e)
    BY <1>1, WinKeeps DEF Desk
  <1>3. Tidy(e)
    BY WinTidy DEF Kept
  <1> HIDE DEF e
  <1>4. Books(e)
    BY <1>2, SamePlaces DEF Books
  <1>5. QED
    BY <1>2, <1>3, <1>4, KeptFrom DEF e

LEMMA WinAtKept ==
  ASSUME NEW d, Kept(d), NEW w \in Windows, NEW x, Booked(x, Places(d, w))
  PROVE  Kept([d EXCEPT !.win[w] = x])
  <1> DEFINE f == [d.win EXCEPT ![w] = x]
  <1>1. d \in Desk /\ d.win \in [Windows -> Window] /\ x \in Window
    BY DEF Kept, Tidy, Sound, Desk, Booked, Sane
  <1>2. f \in [Windows -> Window] /\ \A v \in Windows : f[v] = IF v = w THEN x ELSE d.win[v]
    BY <1>1
  <1>3. [d EXCEPT !.win[w] = x] = [d EXCEPT !.win = f]
    BY <1>1 DEF Desk
  <1> HIDE DEF f
  <1>4. \A v \in Windows : Booked(f[v], Places(d, v))
    BY <1>2 DEF Kept, Books
  <1>5. QED
    BY <1>2, <1>3, <1>4, WinKept

\* The desks that differ in the pins, the memories and the foreground.
LEMMA SameKept ==
  ASSUME NEW d, NEW e, Kept(d), Keeps(d, e), e.spaces = d.spaces, e.win = d.win
  PROVE  Kept(e)
  <1>1. Tidy(e)
    BY SameSpacesTidy DEF Kept
  <1>2. Books(e)
    BY SamePlaces DEF Kept, Books
  <1>3. QED
    BY <1>1, <1>2, KeptFrom

\* The windows that Place pushes pass the probe, and the spaces exist.
Pushable(d, to) ==
  \A w \in DOMAIN to :
    /\ w \in Windows /\ Valid(d, w)
    /\ \E m \in Monitors : \E i \in DOMAIN d.spaces[m] : to[w] = <<m, i>>

LEMMA PlaceWin ==
  ASSUME NEW d \in Desk, NEW to, NEW w \in Windows
  PROVE  Place(d, to).win[w] = IF w \in DOMAIN to THEN Marked(d.win[w]) ELSE d.win[w]
  <1> DEFINE win == [v \in Windows |->
                       IF v \in DOMAIN to
                       THEN [d.win[v] EXCEPT !.prop = TrackedProp(d.win[v])]
                       ELSE d.win[v]]
  <1>1. Place(d, to).win = win
    BY DEF Place, Desk
  <1>2. win[w] = IF w \in DOMAIN to THEN Marked(d.win[w]) ELSE d.win[w]
    BY DEF Marked
  <1>3. QED
    BY <1>1, <1>2

LEMMA PlaceKept ==
  ASSUME NEW d, Kept(d), NEW to, Pushable(d, to) PROVE Kept(Place(d, to))
  <1> DEFINE e == Place(d, to)
  <1>1. d \in Desk /\ Sound(d) /\ DOMAIN to \subseteq Windows
    BY DEF Kept, Tidy, Sound, Pushable
  <1>2. Keeps(d, e) /\ Tidy(e)
    BY <1>1, PlaceKeeps, PlaceTidy DEF Kept
  <1>3. ASSUME NEW w \in Windows PROVE Booked(e.win[w], Places(e, w))
    <2>1. Booked(d.win[w], Places(d, w))
      BY DEF Kept, Books
    <2>2. CASE w \in DOMAIN to
      <3>1. e.win[w] = Marked(d.win[w])
        BY <1>1, <2>2, PlaceWin
      <3>2. Places(e, w) # {}
        BY <1>1, <2>2, PlacePlaces DEF Pushable
      <3>3. IsValid(d.win[w])
        BY <2>2 DEF Pushable, Valid
      <3> HIDE DEF e
      <3>4. QED
        BY <2>1, <3>1, <3>2, <3>3, MarkedBooked
    <2>3. CASE w \notin DOMAIN to
      BY <1>1, <2>1, <2>3, PlaceWin, PlacePlaces
    <2>4. QED
      BY <2>2, <2>3
  <1>4. QED
    BY <1>2, <1>3, KeptFrom DEF Books

LEMMA DetachKept ==
  ASSUME NEW d, Kept(d), NEW w \in Windows,
         Orderly /\ Tracked(d, w) => ~MustRestoreBeforeUntrack(d.win[w])
  PROVE  Kept(Detach(d, w))
  <1> DEFINE e == Detach(d, w)
  <1>1. CASE ~Tracked(d, w)
    BY <1>1 DEF Detach
  <1>2. CASE Tracked(d, w)
    <2>1. d \in Desk /\ Keeps(d, e) /\ Tidy(e)
      BY DetachKeeps, DetachTidy DEF Kept, Tidy, Sound
    <2>2. /\ e.spaces = Dropped(d.spaces, {w})
          /\ \A v \in Windows : e.win[v] = IF v = w THEN Forgotten(d.win[w]) ELSE d.win[v]
      BY <1>2, <2>1 DEF Detach, Desk
    <2> HIDE DEF e
    <2>3. ASSUME NEW v \in Windows PROVE Booked(e.win[v], Places(e, v))
      <3>1. Booked(d.win[v], Places(d, v))
        BY DEF Kept, Books
      <3>2. Places(e, v) = IF v = w THEN {} ELSE Places(d, v)
        BY <2>1, <2>2, DroppedPlaces
      <3>3. CASE v = w
        <4>1. Orderly => "SYSTEM_HIDDEN" \notin d.win[v].prop
          BY <1>2, <3>1, <3>3, TrackedIsNoSystem DEF Tracked
        <4>2. QED
          BY <1>2, <2>2, <3>1, <3>2, <3>3, <4>1, ForgottenBooked
      <3>4. CASE v # w
        BY <2>2, <3>1, <3>2, <3>4
      <3>5. QED
        BY <3>3, <3>4
    <2>4. QED
      BY <2>1, <2>3, KeptFrom DEF Books, e
  <1>3. QED
    BY <1>1, <1>2

LEMMA RemoveWindowKept ==
  ASSUME NEW d, Kept(d), NEW w \in Windows,
         Orderly /\ Tracked(d, w) => ~MustRestoreBeforeUntrack(d.win[w])
  PROVE  Kept(RemoveWindow(d, w))
  <1> DEFINE e == Detach(d, w)
             f == [e EXCEPT !.pinned = @ \ {w}, !.focus = @ \ {w}]
  <1>1. Kept(e)
    BY DetachKept
  <1>2. f = RemoveWindow(d, w)
    BY DEF RemoveWindow
  <1> HIDE DEF e
  <1>3. e \in Desk
    BY <1>1 DEF Kept, Tidy, Sound
  <1>4. Keeps(e, f) /\ f.spaces = e.spaces /\ f.win = e.win
    BY <1>3 DEF Keeps, SameShape, Desk
  <1> HIDE DEF f
  <1>5. QED
    BY <1>1, <1>2, <1>4, SameKept

\* track_window restores what it cannot manage before it forgets it.
LEMMA UntrackedKept ==
  ASSUME NEW d, Kept(d), NEW w \in Windows, proxy \in Proxies
  PROVE  Kept(Untracked(d, w))
  <1> DEFINE x == Show(d.win[w], proxy)
             shown == [d EXCEPT !.win[w] = x]
             restored == IF MustRestoreBeforeUntrack(d.win[w]) THEN shown ELSE d
  <1>1. Untracked(d, w) = RemoveWindow(restored, w)
    BY DEF Untracked
  <1>2. d \in Desk /\ Booked(d.win[w], Places(d, w)) /\ d.win[w] \in Window
    BY DEF Kept, Books, Tidy, Sound, Desk
  <1>3. CASE MustRestoreBeforeUntrack(d.win[w])
    <2>1. Booked(x, Places(d, w))
      BY <1>2, ShowBooked
    <2>2. Orderly => ~HasHiddenBit(x)
      BY <1>2, ShowFrees DEF Booked, Sane
    <2> HIDE DEF x
    <2>3. Kept(shown) /\ shown.win[w] = x
      BY <1>2, <2>1, WinAtKept DEF Desk
    <2> HIDE DEF shown
    <2>4. Kept(RemoveWindow(shown, w))
      BY <2>2, <2>3, RemoveWindowKept DEF MustRestoreBeforeUntrack
    <2>5. QED
      BY <1>1, <1>3, <2>4
  <1>4. CASE ~MustRestoreBeforeUntrack(d.win[w])
    BY <1>1, <1>4, RemoveWindowKept
  <1>5. QED
    BY <1>3, <1>4

LEMMA TrackKept ==
  ASSUME NEW d, Kept(d), NEW w \in Windows, NEW m, NEW i, proxy \in Proxies,
         Orderly => m \in Table(d) \/ MonitorOf(d, w) # NoMonitor
  PROVE  Kept(Track(d, w, m, i))
  <1> DEFINE at == IF m \in Table(d) THEN m ELSE MonitorOf(d, w)
             clamped == IF i \in DOMAIN d.spaces[at] THEN i ELSE Len(d.spaces[at])
             to == [x \in {w} |-> <<at, clamped>>]
  <1>1. d \in Desk
    BY DEF Kept, Tidy, Sound
  <1>2. CASE Table(d) = {} \/ ~Valid(d, w)
    BY <1>2, UntrackedKept DEF Track
  <1>3. CASE ~(Table(d) = {} \/ ~Valid(d, w)) /\ at = NoMonitor
    <2>1. Track(d, w, m, i) = Detach(d, w)
      BY <1>3 DEF Track
    <2>2. ~Orderly
      BY <1>3, SpacesAssumption DEF Table
    <2>3. QED
      BY <2>1, <2>2, DetachKept
  <1>4. CASE ~(Table(d) = {} \/ ~Valid(d, w)) /\ at # NoMonitor
    <2>1. at \in Monitors /\ Len(d.spaces[at]) > 0
      BY <1>4 DEF MonitorOf, Table
    <2>2. Track(d, w, m, i) = Place(d, to)
      BY <1>4 DEF Track
    <2> HIDE DEF at
    <2>3. clamped \in DOMAIN d.spaces[at]
      BY <1>1, <2>1, DomainIsLen
    <2> HIDE DEF clamped
    <2>4. Pushable(d, to)
      BY <1>4, <2>1, <2>3 DEF Pushable
    <2>5. QED
      BY <2>2, <2>4, PlaceKept
  <1>5. QED
    BY <1>2, <1>3, <1>4

LEMMA AtCurrentKept ==
  ASSUME NEW d, Kept(d), NEW S \in SUBSET Windows,
         \A w \in S : Valid(d, w) /\ MonitorOf(d, w) # NoMonitor
  PROVE  Kept(AtCurrent(d, S))
  <1> DEFINE to == [w \in S |-> <<d.win[w].mon, d.current[d.win[w].mon]>>]
  <1>1. ASSUME NEW w \in S
        PROVE  \E m \in Monitors : \E i \in DOMAIN d.spaces[m] : to[w] = <<m, i>>
    <2>1. d.win[w].mon \in Monitors /\ Len(d.spaces[d.win[w].mon]) > 0
      BY DEF MonitorOf, Table
    <2>2. d.current[d.win[w].mon] \in DOMAIN d.spaces[d.win[w].mon]
      BY <2>1 DEF Kept, Tidy, Sound, Bounded
    <2>3. QED
      BY <2>1, <2>2
  <1>2. DOMAIN to = S
    OBVIOUS
  <1> HIDE DEF to
  <1>3. Pushable(d, to)
    BY <1>1, <1>2 DEF Pushable
  <1>4. QED
    BY <1>3, PlaceKept DEF AtCurrent, to

LEMMA PruneKept ==
  ASSUME NEW d, Kept(d) PROVE Kept(Prune(d))
  <1> DEFINE dead == {w \in Windows : ~d.win[w].live}
             e == Prune(d)
  <1>1. d \in Desk /\ Keeps(d, e) /\ Tidy(e)
    BY PruneKeeps, PruneTidy DEF Kept, Tidy, Sound
  <1>2. e = [d EXCEPT !.spaces = Dropped(d.spaces, dead), !.pinned = d.pinned \ dead]
    BY DEF Prune
  <1> HIDE DEF e, dead
  <1>3. e.spaces = Dropped(d.spaces, dead) /\ e.win = d.win
    BY <1>1, <1>2 DEF Desk
  <1>4. ASSUME NEW w \in Windows PROVE Booked(e.win[w], Places(e, w))
    <2>1. Booked(d.win[w], Places(d, w))
      BY DEF Kept, Books
    <2>2. Places(e, w) = IF w \in dead THEN {} ELSE Places(d, w)
      BY <1>1, <1>3, DroppedPlaces
    <2>3. w \in dead <=> ~d.win[w].live
      BY DEF dead
    <2>4. QED
      BY <1>3, <2>1, <2>2, <2>3 DEF Booked
  <1>5. QED
    BY <1>1, <1>4, KeptFrom DEF Books, e

LEMMA ScanKept ==
  ASSUME NEW d, Kept(d) PROVE Kept(Scan(d))
  <1> DEFINE p       == Prune(d)
             seen    == {w \in Windows : p.win[w].live /\ ~HasHiddenBit(p.win[w])}
             system  == {w \in seen \cap SystemWindows :
                           p.win[w].titled /\ "TRACKED" \notin p.win[w].prop}
             hide    == {w \in system : /\ "SYSTEM_HIDDEN" \notin p.win[w].prop
                                        /\ SystemWindowIsShowing(p.win[w])}
             found   == {w \in seen \ system : Valid(p, w) /\ MonitorOf(p, w) # NoMonitor}
             drifted == {w \in found : Tracked(p, w) /\ Home(p, w)[1] # p.win[w].mon}
             adopt   == {w \in found : ~Tracked(p, w)}
                          \cup (IF MayRehome(TRUE) THEN drifted ELSE {})
             win     == [w \in Windows |->
                           IF w \in hide THEN HideSystem(p.win[w]) ELSE p.win[w]]
             swept   == [p EXCEPT !.win = win]
  <1>1. Kept(p)
    BY PruneKept
  <1>2. Scan(d) = AtCurrent(swept, adopt)
    BY DEF Scan
  <1>3. \A w \in hide : p.win[w].live /\ ~HasHiddenBit(p.win[w])
                          /\ "TRACKED" \notin p.win[w].prop
    OBVIOUS
  <1>4. \A w \in adopt : /\ w \in Windows /\ w \notin hide
                         /\ Valid(p, w) /\ MonitorOf(p, w) # NoMonitor
    OBVIOUS
  <1> HIDE DEF hide, adopt, p
  <1>5. p \in Desk /\ \A w \in Windows : Booked(p.win[w], Places(p, w)) /\ p.win[w] \in Window
    BY <1>1 DEF Kept, Books, Tidy, Sound, Desk
  <1>6. win \in [Windows -> Window]
    BY <1>5, HideSystemType
  <1>7. \A w \in Windows : Booked(win[w], Places(p, w))
    BY <1>3, <1>5, HideSystemBooked
  <1>8. \A w \in adopt : win[w] = p.win[w]
    BY <1>4
  <1> HIDE DEF win
  <1>9. Kept(swept)
    BY <1>1, <1>6, <1>7, WinKept
  <1>10. swept.win = win /\ swept.spaces = p.spaces
    BY <1>5 DEF Desk
  <1> HIDE DEF swept
  <1>11. \A w \in adopt : Valid(swept, w) /\ MonitorOf(swept, w) # NoMonitor
    BY <1>4, <1>8, <1>10 DEF Valid, MonitorOf, Table
  <1>12. adopt \in SUBSET Windows
    BY <1>4
  <1>13. QED
    BY <1>2, <1>9, <1>11, <1>12, AtCurrentKept

-----------------------------------------------------------------------------
(* Visibility passes and switching *)

LEMMA RefreshKept ==
  ASSUME NEW d, Kept(d), NEW M \in SUBSET Monitors, showAll \in BOOLEAN, Steady
  PROVE  Kept(Refresh(d, M))
  <1> DEFINE up  == UNION {Up(d, m) : m \in M}
             on  == UNION {On(d, m) : m \in M}
             win == [w \in Windows |->
                       IF ~Valid(d, w) \/ w \notin on THEN d.win[w]
                       ELSE IF w \in up THEN Show(d.win[w], proxy)
                       ELSE Hide(d.win[w], showAll, proxy)]
  <1>1. Sound(d) /\ proxy \in Proxies
        /\ \A w \in Windows : Booked(d.win[w], Places(d, w)) /\ d.win[w] \in Window
    BY DEF Kept, Books, Tidy, Sound, Desk, Steady
  <1>2. \A w \in on : Places(d, w) # {}
    BY <1>1, OnIsTracked
  <1>3. Refresh(d, M) = [d EXCEPT !.win = win]
    BY DEF Refresh
  <1> HIDE DEF up, on
  <1>4. win \in [Windows -> Window]
    BY <1>1, ShowType, HideType
  <1>5. \A w \in Windows : Booked(win[w], Places(d, w))
    <2>1. SUFFICES ASSUME NEW w \in Windows PROVE Booked(win[w], Places(d, w))
      OBVIOUS
    <2>2. Booked(Show(d.win[w], proxy), Places(d, w))
      BY <1>1, ShowBooked
    <2>3. w \in on => Booked(Hide(d.win[w], showAll, proxy), Places(d, w))
      BY <1>1, <1>2, HideBooked
    <2>4. QED
      BY <1>1, <2>2, <2>3
  <1> HIDE DEF win
  <1>6. QED
    BY <1>3, <1>4, <1>5, WinKept

LEMMA FocusedKept ==
  ASSUME NEW d, Kept(d), NEW w \in Windows \cup {NoWindow} PROVE Kept(Focused(d, w))
  <1>1. d \in Desk
    BY DEF Kept, Tidy, Sound
  <1>2. Focused(d, w).spaces = d.spaces /\ Focused(d, w).win = d.win
    BY <1>1 DEF Focused, Desk
  <1>3. QED
    BY <1>1, <1>2, FocusedKeeps, SameKept

\* The desk that switch_space hands to its visibility pass.
Turned(d, m, i) ==
  [d EXCEPT !.current[m] = i,
            !.focus = IF d.current[m] = i THEN d.focus
                      ELSE (d.focus \ d.spaces[m][d.current[m]])
                             \cup (d.spaces[m][d.current[m]] \cap {d.fg})]

LEMMA TurnedKept ==
  ASSUME NEW d, Kept(d), NEW m \in Monitors, NEW i \in DOMAIN d.spaces[m]
  PROVE  Kept(Turned(d, m, i))
  <1> DEFINE left     == d.spaces[m][d.current[m]]
             remember == IF d.current[m] = i THEN d.focus
                         ELSE (d.focus \ left) \cup (left \cap {d.fg})
             e == [d EXCEPT !.current[m] = i, !.focus = remember]
  <1>1. d \in Desk /\ Sound(d) /\ i \in Nat
    BY DomainIsLen DEF Kept, Tidy, Sound
  <1>2. Turned(d, m, i) = e
    BY DEF Turned
  <1>3. remember \in SUBSET Windows
    <2>1. d.current[m] \in DOMAIN d.spaces[m]
      BY <1>1, DomainIsLen DEF Sound, Bounded
    <2>2. left \in SUBSET Windows /\ d.focus \in SUBSET Windows
      BY <1>1, <2>1, DomainIsLen DEF Desk
    <2>3. QED
      BY <2>2
  <1> HIDE DEF remember
  <1>4. e.spaces = d.spaces /\ e.win = d.win /\ e \in Desk
        /\ \A n \in Monitors : e.current[n] = IF n = m THEN i ELSE d.current[n]
    BY <1>1, <1>3 DEF Desk
  <1> HIDE DEF e
  <1>5. Sound(e)
    BY <1>1, <1>4 DEF Sound, Bounded
  <1>6. Apart(e)
    BY <1>4, SameSpacesThins, ThinsApart DEF Kept, Tidy
  <1>7. Books(e) /\ Full(e)
    BY <1>4, SamePlaces DEF Kept, Books, Full
  <1>8. QED
    BY <1>2, <1>5, <1>6, <1>7 DEF Kept, Tidy

LEMMA SwitchKept ==
  ASSUME NEW d, Kept(d), NEW m \in Monitors, NEW i \in DOMAIN d.spaces[m],
         showAll \in BOOLEAN, Steady
  PROVE  Kept(Switch(d, m, i))
  <1>1. Switch(d, m, i) = Refresh(Turned(d, m, i), {m})
    BY DEF Switch, Turned
  <1>2. QED
    BY <1>1, TurnedKept, RefreshKept

LEMMA SwitchFromKept ==
  ASSUME NEW d, Kept(d), NEW m \in Monitors, NEW i \in DOMAIN d.spaces[m],
         NEW a \in Windows \cup {NoWindow}, SwitchFrom(d, m, i, a),
         showAll \in BOOLEAN, Steady
  PROVE  Kept(desk')
  <1>1. PICK scanned \in {d, Scan(d)} :
          LET switched == Switch(scanned, m, i)
          IN  IF a # NoWindow THEN desk' = Focused(switched, a)
              ELSE \E w \in Landing(switched, m) : desk' = Focused(switched, w)
    BY DEF SwitchFrom
  <1> DEFINE switched == Switch(scanned, m, i)
  <1>2. Sound(d) /\ d \in Desk /\ proxy \in Proxies
    BY DEF Kept, Tidy, Sound, Steady
  <1>3. Keeps(d, scanned) /\ Kept(scanned)
    BY <1>2, ScanKeeps, KeepsSelf, ScanKept
  <1>4. i \in DOMAIN scanned.spaces[m] /\ Len(scanned.spaces[m]) > 0
    <2>1. scanned \in Desk /\ Len(scanned.spaces[m]) = Len(d.spaces[m])
      BY <1>3 DEF Keeps, SameShape
    <2>2. QED
      BY <1>2, <2>1, DomainIsLen
  <1>5. Kept(switched)
    BY <1>3, <1>4, SwitchKept
  <1>6. m \in Table(switched) /\ Sound(switched)
    BY <1>2, <1>3, <1>4, SwitchSound DEF Table, Kept, Tidy
  <1> HIDE DEF switched
  <1>7. PICK w \in Windows \cup {NoWindow} : desk' = Focused(switched, w)
    BY <1>1, <1>6, LandingType DEF switched
  <1>8. QED
    BY <1>5, <1>7, FocusedKept

-----------------------------------------------------------------------------
(* Methods that change the rows of spaces *)

LEMMA BookedElsewhere ==
  ASSUME NEW x, NEW P, NEW Q, Booked(x, P), P = {} <=> Q = {} PROVE Booked(x, Q)
  BY DEF Booked

\* Renumbering the spaces of a display does not untrack any window.
LEMMA SameOnTracks ==
  ASSUME NEW d, NEW e, Sound(d), Sound(e), \A n \in Monitors : On(e, n) = On(d, n), NEW w
  PROVE  Places(e, w) = {} <=> Places(d, w) = {}
  <1>1. ASSUME NEW f, Sound(f)
        PROVE  Places(f, w) # {} <=> \E n \in Monitors : w \in On(f, n)
    <2>1. (\E n \in Monitors : w \in On(f, n)) => Places(f, w) # {}
      BY <1>1, OnIsTracked
    <2>2. Places(f, w) # {} => \E n \in Monitors : w \in On(f, n)
      BY DEF Places, On
    <2>3. QED
      BY <2>1, <2>2
  <1>2. QED
    BY <1>1

LEMMA RowKept ==
  ASSUME NEW d, NEW e, Kept(d), Tidy(e), e.win = d.win,
         \A n \in Monitors : On(e, n) = On(d, n),
         \A n \in Monitors : Len(d.spaces[n]) > 0 => Len(e.spaces[n]) > 0
  PROVE  Kept(e)
  <1>1. Sound(d) /\ Sound(e)
    BY DEF Kept, Tidy
  <1>2. \A w \in Windows : Booked(e.win[w], Places(e, w))
    BY <1>1, SameOnTracks, BookedElsewhere DEF Kept, Books
  <1>3. QED
    BY <1>2 DEF Kept, Books, Full

\* A tracked window that is alive and titled, and still fails the probe, has
\* been hidden by its application: nobody else's cloak is on it.
LEMMA RejectedIsNotHidden ==
  ASSUME NEW x, NEW P, Booked(x, P), P # {}, Orderly, ~IsValid(x)
  PROVE  ~MustRestoreBeforeUntrack(x)
  <1>1. CASE x.live
    <2>1. Safe(x) /\ x \in Window /\ "SYSTEM_HIDDEN" \notin x.prop
      BY TrackedIsNoSystem DEF Booked, Sane
    <2>2. ~ExternallyCloaked(x)
      BY <2>1 DEF Safe, Recorded, ExternallyCloaked, Window, Layers
    <2>3. ~HasHiddenBit(x)
      BY <1>1, <2>1, <2>2 DEF IsValid, Safe
    <2>4. QED
      BY <2>3 DEF MustRestoreBeforeUntrack
  <1>2. CASE ~x.live
    BY <1>2 DEF MustRestoreBeforeUntrack
  <1>3. QED
    BY <1>1, <1>2

LEMMA MigratedKept ==
  ASSUME NEW d, Kept(d), NEW m \in Monitors, NEW i \in DOMAIN d.spaces[m],
         NEW j \in DOMAIN d.spaces[m], proxy \in Proxies
  PROVE  /\ Kept(Migrated(d, m, i, j))
         /\ i # j => Migrated(d, m, i, j).spaces[m][i] = {}
  <1> DEFINE stays == {w \in d.spaces[m][i] : Valid(d, w)}
             goes  == d.spaces[m][i] \ stays
             to    == [w \in stays |-> <<m, j>>]
             moved == Place(d, to)
             win   == [w \in Windows |->
                         IF w \notin goes THEN moved.win[w]
                         ELSE IF MustRestoreBeforeUntrack(d.win[w])
                         THEN Forgotten(Show(d.win[w], proxy))
                         ELSE Forgotten(d.win[w])]
             e     == Migrated(d, m, i, j)
  <1>1. /\ d \in Desk /\ Sound(d) /\ d.spaces[m][i] \subseteq Windows
        /\ \A w \in Windows : Booked(d.win[w], Places(d, w)) /\ d.win[w] \in Window
    BY DomainIsLen DEF Kept, Books, Tidy, Sound, Desk
  <1>2. DOMAIN to = stays /\ \A w \in stays : to[w] = <<m, j>>
    OBVIOUS
  <1>3. \A w \in goes : w \in Windows /\ Places(d, w) # {}
    BY <1>1, ListIsPlace
  <1>4. e = [moved EXCEPT !.spaces = Dropped(@, goes), !.pinned = @ \ goes,
                          !.focus = @ \ goes, !.win = win]
    BY DEF Migrated
  <1>5. stays \subseteq Windows /\ \A w \in stays : Valid(d, w) /\ w \notin goes
    BY <1>1
  <1>6. stays \cup goes = d.spaces[m][i]
    OBVIOUS
  <1> HIDE DEF to, stays, goes, e
  <1>7. Pushable(d, to)
    BY <1>2, <1>5 DEF Pushable
  <1>8. Kept(moved)
    BY <1>7, PlaceKept
  <1>9. \A w \in goes : moved.win[w] = d.win[w]
    BY <1>1, <1>2, <1>3, <1>5, PlaceWin
  <1>10. \A k \in DOMAIN d.spaces[m] :
           moved.spaces[m][k] = (d.spaces[m][k] \ stays) \cup {w \in stays : to[w] = <<m, k>>}
    BY <1>1, <1>2, PlaceSpaces
  <1>11. DOMAIN moved.spaces[m] = DOMAIN d.spaces[m]
    BY <1>1, PlaceSpaces
  <1> HIDE DEF moved
  <1>12. moved \in Desk
    BY <1>8 DEF Kept, Tidy, Sound
  <1> HIDE DEF win
  <1>13. e.spaces = Dropped(moved.spaces, goes) /\ e.win = win
    BY <1>4, <1>12 DEF Desk
  <1>14. ASSUME NEW w \in Windows PROVE Booked(win[w], Places(e, w))
    <2>1. Places(e, w) = IF w \in goes THEN {} ELSE Places(moved, w)
      BY <1>12, <1>13, DroppedPlaces
    <2>2. CASE w \in goes
      <3>1. Booked(d.win[w], Places(d, w)) /\ Places(d, w) # {}
        BY <1>1, <1>3, <2>2
      <3>2. Orderly => "SYSTEM_HIDDEN" \notin d.win[w].prop
        BY <3>1, TrackedIsNoSystem
      <3>3. Booked(Forgotten(Show(d.win[w], proxy)), {})
        BY <3>1, <3>2, LetGoBooked
      <3>4. ~MustRestoreBeforeUntrack(d.win[w]) => Booked(Forgotten(d.win[w]), {})
        BY <3>1, <3>2, ForgottenBooked
      <3>5. QED
        BY <2>1, <2>2, <3>3, <3>4 DEF win
    <2>3. CASE w \notin goes
      BY <1>8, <2>1, <2>3 DEF win, Kept, Books
    <2>4. QED
      BY <2>2, <2>3
  <1>15. Keeps(d, e) /\ Tidy(e)
    BY <1>1, MigratedKeeps, MigratedTidy DEF Kept, e
  <1>16. Kept(e)
    BY <1>13, <1>14, <1>15, KeptFrom DEF Books
  <1>17. ASSUME i # j PROVE e.spaces[m][i] = {}
    <2>1. \A w \in stays : to[w] # <<m, i>>
      BY <1>2, <1>17
    <2>2. moved.spaces[m][i] = d.spaces[m][i] \ stays
      BY <1>10, <2>1
    <2>3. e.spaces[m][i] = moved.spaces[m][i] \ goes
      BY <1>11, <1>13 DEF Dropped
    <2>4. QED
      BY <1>6, <2>2, <2>3
  <1>18. QED
    BY <1>16, <1>17 DEF e

LEMMA ShortenedKept ==
  ASSUME NEW d, Kept(d), NEW m \in Monitors, NEW i \in DOMAIN d.spaces[m],
         Len(d.spaces[m]) > 1, proxy \in Proxies
  PROVE  Kept(Shortened(d, m, i))
  <1> DEFINE j   == RemovalMigrationTarget(i)
             e   == Migrated(d, m, i, j)
             f   == Shortened(d, m, i)
             old == e.spaces[m]
             row == RemoveAt(old, i)
  <1>1. d \in Desk /\ Tidy(d)
    BY DEF Kept, Tidy, Sound
  <1>2. j \in DOMAIN d.spaces[m] /\ i # j
    <2>1. Len(d.spaces[m]) \in Nat /\ DOMAIN d.spaces[m] = 1..Len(d.spaces[m])
      BY <1>1, DomainIsLen
    <2>2. QED
      BY <2>1 DEF RemovalMigrationTarget
  <1>3. f = [e EXCEPT !.spaces[m] = row, !.current[m] = RemapAfterRemoval(@, i)]
    BY DEF Shortened
  <1>4. Tidy(f)
    BY <1>1, ShortenedTidy
  <1> HIDE DEF j, f
  <1>5. Kept(e) /\ e.spaces[m][i] = {} /\ Keeps(d, e)
    BY <1>1, <1>2, MigratedKept, MigratedKeeps
  <1> HIDE DEF e
  <1>6. /\ e \in Desk /\ Len(old) \in Nat /\ DOMAIN old = 1..Len(old)
        /\ i \in 1..Len(old) /\ old \in Seq(SUBSET Windows) /\ Len(old) > 1
    <2>1. e \in Desk /\ Len(old) = Len(d.spaces[m])
      BY <1>5 DEF Keeps, SameShape
    <2>2. /\ Len(old) \in Nat /\ DOMAIN old = 1..Len(old)
          /\ i \in 1..Len(old)
      BY <1>1, <2>1, DomainIsLen
    <2>3. QED
      BY <2>1, <2>2 DEF Desk
  <1>7. /\ f.spaces[m] = row /\ f.win = e.win
        /\ \A n \in Monitors : n # m => f.spaces[n] = e.spaces[n]
    <2> HIDE DEF row
    <2>1. QED
      BY <1>3, <1>6 DEF Desk
  <1>8. old[i] = {}
    BY <1>5
  <1> HIDE DEF old
  <1>9. /\ Len(row) = Len(old) - 1 /\ DOMAIN row = 1..(Len(old) - 1)
        /\ \A k \in 1..(Len(old) - 1) : row[k] = IF k < i THEN old[k] ELSE old[k + 1]
    <2>1. /\ row \in Seq(SUBSET Windows) /\ Len(row) = Len(old) - 1
          /\ \A k \in 1..(Len(old) - 1) : row[k] = IF k < i THEN old[k] ELSE old[k + 1]
      BY <1>6, RemoveAtElements
    <2>2. QED
      BY <1>6, <2>1
  <1> HIDE DEF row
  <1>10. UNION {row[k] : k \in DOMAIN row} = UNION {old[k] : k \in DOMAIN old}
    <2>1. ASSUME NEW k \in DOMAIN row PROVE \E l \in DOMAIN old : row[k] = old[l]
      <3>1. k \in 1..(Len(old) - 1)
        BY <1>9, <2>1
      <3>2. k \in DOMAIN old /\ k + 1 \in DOMAIN old
        BY <1>6, <3>1
      <3>3. row[k] = old[k] \/ row[k] = old[k + 1]
        BY <1>9, <3>1
      <3>4. QED
        BY <3>2, <3>3
    <2>2. ASSUME NEW k \in DOMAIN old, NEW w \in old[k]
          PROVE  \E l \in DOMAIN row : w \in row[l]
      <3>1. k # i
        BY <1>8, <2>2
      <3>2. CASE k < i
        <4>1. k \in 1..(Len(old) - 1) /\ row[k] = old[k]
          BY <1>6, <1>9, <3>2
        <4>2. QED
          BY <1>9, <2>2, <4>1
      <3>3. CASE k > i
        <4>1. k - 1 \in 1..(Len(old) - 1) /\ row[k - 1] = old[k]
          BY <1>6, <1>9, <3>3
        <4>2. QED
          BY <1>9, <2>2, <4>1
      <3>4. QED
        BY <1>6, <3>1, <3>2, <3>3
    <2>3. QED
      BY <2>1, <2>2
  <1>11. \A n \in Monitors : On(f, n) = On(e, n)
    <2>1. On(f, m) = On(e, m)
      BY <1>7, <1>10, Zenon DEF On, old
    <2>2. \A n \in Monitors : n # m => On(f, n) = On(e, n)
      BY <1>7 DEF On
    <2>3. QED
      BY <2>1, <2>2
  <1>12. \A n \in Monitors : Len(e.spaces[n]) > 0 => Len(f.spaces[n]) > 0
    BY <1>6, <1>7, <1>9
  <1>13. QED
    BY <1>4, <1>5, <1>7, <1>11, <1>12, RowKept DEF f

\* Every space is still in the row after it has been reordered.
LEMMA ReorderKept ==
  ASSUME NEW d, NEW e, Kept(d), Tidy(e), NEW m \in Monitors,
         NEW i \in DOMAIN d.spaces[m], NEW j \in DOMAIN d.spaces[m], NEW now,
         e = [d EXCEPT !.spaces[m] = InsertAt(RemoveAt(@, i), j, @[i]), !.current[m] = now]
  PROVE  Kept(e)
  <1> DEFINE old == d.spaces[m]
             cut == RemoveAt(old, i)
             row == InsertAt(cut, j, old[i])
             S   == SUBSET Windows
  <1>1. d \in Desk
    BY DEF Kept, Tidy, Sound
  <1>2. /\ Len(old) \in Nat /\ DOMAIN old = 1..Len(old)
        /\ i \in 1..Len(old) /\ j \in 1..Len(old)
        /\ old \in Seq(S) /\ old[i] \in S
    BY <1>1, DomainIsLen DEF Desk
  <1>3. /\ e.spaces[m] = row /\ e.win = d.win
        /\ \A n \in Monitors : n # m => e.spaces[n] = d.spaces[n]
    <2>1. e.spaces = [d.spaces EXCEPT ![m] = row] /\ e.win = d.win
      BY <1>1 DEF Desk
    <2> HIDE DEF row
    <2>2. QED
      BY <1>1, <2>1 DEF Desk
  <1> HIDE DEF old, S
  <1>4. /\ cut \in Seq(S) /\ Len(cut) = Len(old) - 1
        /\ \A k \in 1..(Len(old) - 1) : cut[k] = IF k < i THEN old[k] ELSE old[k + 1]
    BY <1>2, RemoveAtElements
  <1> HIDE DEF cut
  <1>5. /\ row \in Seq(S) /\ Len(row) = Len(old)
        /\ \A k \in 1..Len(old) :
             row[k] = IF k < j THEN cut[k] ELSE IF k = j THEN old[i] ELSE cut[k - 1]
    <2> DEFINE x == old[i]
    <2>1. /\ cut \in Seq(S) /\ x \in S /\ j \in 1..Len(old)
          /\ Len(old) \in Nat /\ Len(cut) = Len(old) - 1
      BY <1>2, <1>4
    <2> HIDE DEF x
    <2>2. /\ InsertAt(cut, j, x) \in Seq(S) /\ Len(InsertAt(cut, j, x)) = Len(old)
          /\ \A k \in 1..Len(old) :
               InsertAt(cut, j, x)[k] =
                 IF k < j THEN cut[k] ELSE IF k = j THEN x ELSE cut[k - 1]
      BY ONLY <2>1, MovedElements
    <2>3. QED
      BY <2>2 DEF x
  <1>6. DOMAIN row = 1..Len(old)
    BY <1>2, <1>5
  <1> HIDE DEF row
  <1>7. ASSUME NEW k \in 1..Len(old) PROVE \E l \in 1..Len(old) : row[k] = old[l]
    <2>1. CASE k = j
      BY <1>2, <1>5, <2>1
    <2>2. ASSUME NEW c \in 1..(Len(old) - 1) PROVE \E l \in 1..Len(old) : cut[c] = old[l]
      <3>1. c \in 1..Len(old) /\ c + 1 \in 1..Len(old)
        BY <1>2
      <3>2. cut[c] = old[c] \/ cut[c] = old[c + 1]
        BY <1>4
      <3>3. QED
        BY <3>1, <3>2
    <2>3. CASE k < j
      <3>1. k \in 1..(Len(old) - 1) /\ row[k] = cut[k]
        BY <1>2, <1>5, <2>3
      <3>2. QED
        BY <2>2, <3>1
    <2>4. CASE k > j
      <3>1. k - 1 \in 1..(Len(old) - 1) /\ row[k] = cut[k - 1]
        BY <1>2, <1>5, <2>4
      <3>2. QED
        BY <2>2, <3>1
    <2>5. QED
      BY <1>2, <2>1, <2>3, <2>4
  <1>8. ASSUME NEW l \in 1..Len(old) PROVE \E k \in 1..Len(old) : row[k] = old[l]
    <2>1. CASE l = i
      <3>1. row[j] = old[l]
        BY <1>2, <1>5, <2>1
      <3>2. QED
        BY <1>2, <3>1
    <2>2. ASSUME NEW c \in 1..(Len(old) - 1) PROVE \E k \in 1..Len(old) : row[k] = cut[c]
      <3>1. CASE c < j
        <4>1. c \in 1..Len(old) /\ row[c] = cut[c]
          BY <1>2, <1>5, <3>1
        <4>2. QED
          BY <4>1
      <3>2. CASE c >= j
        <4>1. c + 1 \in 1..Len(old) /\ ~(c + 1 < j) /\ c + 1 # j /\ (c + 1) - 1 = c
          BY <1>2, <3>2
        <4>2. row[c + 1] = cut[c]
          BY <1>5, <4>1
        <4>3. QED
          BY <4>1, <4>2
      <3>3. QED
        BY <1>2, <3>1, <3>2
    <2>3. CASE l < i
      <3>1. l \in 1..(Len(old) - 1) /\ cut[l] = old[l]
        BY <1>2, <1>4, <2>3
      <3>2. QED
        BY <2>2, <3>1
    <2>4. CASE l > i
      <3>1. l - 1 \in 1..(Len(old) - 1) /\ ~(l - 1 < i) /\ (l - 1) + 1 = l
        BY <1>2, <2>4
      <3>2. cut[l - 1] = old[l]
        BY <1>4, <3>1
      <3>3. QED
        BY <2>2, <3>1, <3>2
    <2>5. QED
      BY <1>2, <2>1, <2>3, <2>4
  <1>9. UNION {row[k] : k \in DOMAIN row} = UNION {old[l] : l \in DOMAIN old}
    <2>1. DOMAIN row = 1..Len(old) /\ DOMAIN old = 1..Len(old)
      BY <1>2, <1>6
    <2>2. \A k \in DOMAIN row : \E l \in DOMAIN old : row[k] = old[l]
      BY <1>7, <2>1
    <2>3. \A l \in DOMAIN old : \E k \in DOMAIN row : row[k] = old[l]
      BY <1>8, <2>1
    <2>4. QED
      BY ONLY <2>2, <2>3
  <1>10. \A n \in Monitors : On(e, n) = On(d, n)
    <2>1. On(e, m) = On(d, m)
      BY <1>3, <1>9, Zenon DEF On, old
    <2>2. \A n \in Monitors : n # m => On(e, n) = On(d, n)
      BY <1>3 DEF On
    <2>3. QED
      BY <2>1, <2>2
  <1>11. Len(e.spaces[m]) = Len(d.spaces[m])
    BY <1>3, <1>5 DEF old
  <1>12. \A n \in Monitors : Len(d.spaces[n]) > 0 => Len(e.spaces[n]) > 0
    BY <1>3, <1>11
  <1>13. QED
    BY <1>3, <1>10, <1>12, RowKept

LEMMA AddedKept ==
  ASSUME NEW d, Kept(d), NEW m \in Table(d), Len(d.spaces[m]) < MaxSpaces
  PROVE  Kept(Added(d, m))
  <1> DEFINE old == d.spaces[m]
             row == Append(old, {})
             f   == Added(d, m)
  <1>1. d \in Desk /\ m \in Monitors /\ old \in Seq(SUBSET Windows)
    BY DEF Kept, Tidy, Sound, Desk, Table
  <1>2. Tidy(f)
    BY AddedTidy DEF Kept
  <1>3. (\A n \in Monitors : f.spaces[n] = IF n = m THEN row ELSE d.spaces[n]) /\ f.win = d.win
    BY <1>1 DEF Added, Desk
  <1> HIDE DEF old, f
  <1>4. /\ Len(old) \in Nat /\ DOMAIN old = 1..Len(old) /\ DOMAIN row = 1..(Len(old) + 1)
        /\ Len(row) = Len(old) + 1
        /\ row[Len(old) + 1] = {} /\ \A k \in 1..Len(old) : row[k] = old[k]
    BY <1>1
  <1> HIDE DEF row
  <1>5. UNION {row[k] : k \in DOMAIN row} = UNION {old[k] : k \in DOMAIN old}
    <2>1. ASSUME NEW k \in DOMAIN old PROVE k \in DOMAIN row /\ row[k] = old[k]
      BY <1>4
    <2>2. ASSUME NEW k \in DOMAIN row, NEW w \in row[k] PROVE k \in DOMAIN old /\ row[k] = old[k]
      BY <1>4, <2>2
    <2>3. QED
      BY <2>1, <2>2
  <1>6. \A n \in Monitors : On(f, n) = On(d, n)
    <2>1. On(f, m) = On(d, m)
      <3>1. f.spaces[m] = row
        BY <1>1, <1>3
      <3>2. QED
        BY <1>5, <3>1, Zenon DEF On, old
    <2>2. \A n \in Monitors : n # m => On(f, n) = On(d, n)
      BY <1>3 DEF On
    <2>3. QED
      BY <2>1, <2>2
  <1>7. \A n \in Monitors : Len(d.spaces[n]) > 0 => Len(f.spaces[n]) > 0
    BY <1>3, <1>4
  <1>8. QED
    BY <1>2, <1>3, <1>6, <1>7, RowKept DEF f

\* What a change of displays loosens is shown before it is forgotten, and
\* what fails the probe is not hidden.  The desk need not be one of a running
\* daemon: SpaceManager::new builds its table the same way.
LEMMA RebuiltKept ==
  ASSUME NEW d, Tidy(d), Books(d), plugged \in SUBSET Monitors, proxy \in Proxies,
         "topology" \notin Env => plugged = Monitors
  PROVE  Kept(Rebuilt(d))
  <1> DEFINE gone    == Table(d) \ plugged
             fresh   == plugged \ Table(d)
             loosed  == UNION {On(d, m) : m \in gone}
             restore == {w \in loosed : Valid(d, w)}
             row     == [i \in 1..DefaultSpaces |-> {}]
             rows    == [m \in Monitors |->
                           IF m \in fresh THEN row
                           ELSE IF m \in gone THEN <<>> ELSE d.spaces[m]]
             win     == [w \in Windows |->
                           IF w \notin loosed THEN d.win[w]
                           ELSE IF w \in restore THEN Forgotten(Show(d.win[w], proxy))
                           ELSE Forgotten(d.win[w])]
             f == Rebuilt(d)
  <1>1. d \in Desk /\ Sound(d) /\ Apart(d)
    BY DEF Tidy, Sound
  <1>2. Tidy(f)
    BY RebuiltTidy
  <1>3. f.spaces = rows /\ f.win = win
    BY <1>1 DEF Rebuilt, Desk
  <1>4. DOMAIN row = 1..DefaultSpaces /\ (\A i \in 1..DefaultSpaces : row[i] = {})
        /\ Len(row) = DefaultSpaces
    <2>1. DefaultSpaces \in Nat /\ row \in [1..DefaultSpaces -> SUBSET Windows]
      BY SpacesAssumption
    <2>2. QED
      BY <2>1
  <1>5. \A w \in loosed : \E m \in gone : \E i \in DOMAIN d.spaces[m] : w \in d.spaces[m][i]
    BY DEF On
  <1>6. \A m \in gone : \A i \in DOMAIN d.spaces[m] : \A w \in d.spaces[m][i] : w \in loosed
    BY DEF On
  <1>7. \A m \in fresh : m \in Monitors /\ Len(d.spaces[m]) = 0 /\ d.spaces[m] = <<>>
    BY <1>1, EmptySeq DEF Table, Desk
  <1>8. gone \subseteq Monitors /\ gone \cap fresh = {}
    BY DEF Table
  <1>9. \A m \in gone : m \notin plugged
    OBVIOUS
  <1>10. \A m \in plugged : m \in fresh \/ Len(d.spaces[m]) > 0
    BY DEF Table
  <1>11. \A w \in loosed : w \in restore <=> Valid(d, w)
    OBVIOUS
  <1> HIDE DEF f, row, loosed, gone, fresh, restore
  <1>12. \A m \in Monitors : rows[m] = IF m \in fresh THEN row
                                       ELSE IF m \in gone THEN <<>> ELSE d.spaces[m]
    OBVIOUS
  <1> HIDE DEF rows
  <1>13. ASSUME NEW w, w \in loosed PROVE Places(f, w) = {} /\ Places(d, w) # {}
    <2>1. PICK m \in gone : \E i \in DOMAIN d.spaces[m] : w \in d.spaces[m][i]
      BY <1>5, <1>13
    <2>2. PICK i \in DOMAIN d.spaces[m] : w \in d.spaces[m][i]
      BY <2>1
    <2>3. w \in Windows /\ m \in Monitors
      BY <1>1, <1>8, <2>2, DomainIsLen
    <2>4. ASSUME NEW n \in Monitors, NEW k \in DOMAIN rows[n] PROVE w \notin rows[n][k]
      <3>1. CASE n \in fresh
        BY <1>4, <1>12, <3>1, <2>4
      <3>2. CASE n \notin fresh /\ n \in gone
        BY <1>12, <3>2, <2>4
      <3>3. CASE n \notin fresh /\ n \notin gone
        <4>1. rows[n] = d.spaces[n] /\ n # m
          BY <1>12, <3>3
        <4>2. QED
          BY <1>1, <2>2, <2>3, <2>4, <4>1 DEF Apart
      <3>4. QED
        BY <3>1, <3>2, <3>3
    <2>5. Places(f, w) = {}
      BY <1>3, <2>4 DEF Places
    <2>6. QED
      BY <1>1, <2>2, <2>3, <2>5, ListIsPlace
  <1>14. ASSUME NEW w, w \notin loosed PROVE Places(f, w) = Places(d, w)
    <2>1. ASSUME NEW n \in Monitors, NEW k
          PROVE  (k \in DOMAIN rows[n] /\ w \in rows[n][k])
                   <=> (k \in DOMAIN d.spaces[n] /\ w \in d.spaces[n][k])
      <3>1. CASE n \in fresh
        BY <1>4, <1>7, <1>12, <3>1
      <3>2. CASE n \notin fresh /\ n \in gone
        BY <1>6, <1>12, <1>14, <3>2
      <3>3. CASE n \notin fresh /\ n \notin gone
        BY <1>12, <3>3
      <3>4. QED
        BY <3>1, <3>2, <3>3
    <2>2. QED
      BY <1>3, <2>1 DEF Places
  <1>15. ASSUME NEW w \in Windows PROVE Booked(win[w], Places(f, w))
    <2>1. Booked(d.win[w], Places(d, w))
      BY DEF Books
    <2>2. CASE w \in loosed
      <3>1. Places(f, w) = {} /\ Places(d, w) # {}
        BY <1>13, <2>2
      <3>2. Orderly => "SYSTEM_HIDDEN" \notin d.win[w].prop
        BY <2>1, <3>1, TrackedIsNoSystem
      <3>3. Booked(Forgotten(Show(d.win[w], proxy)), {})
        BY <2>1, <3>2, LetGoBooked
      <3>4. ~Valid(d, w) => Booked(Forgotten(d.win[w]), {})
        BY <2>1, <3>1, <3>2, RejectedIsNotHidden, ForgottenBooked DEF Valid
      <3>5. QED
        BY <1>11, <2>2, <3>1, <3>3, <3>4
    <2>3. CASE w \notin loosed
      BY <1>14, <2>1, <2>3
    <2>4. QED
      BY <2>2, <2>3
  <1>16. Full(f)
    <2>1. ASSUME "topology" \notin Env, NEW m \in Monitors PROVE Len(f.spaces[m]) > 0
      <3>1. m \in plugged /\ m \notin gone
        BY <1>9, <2>1
      <3>2. f.spaces[m] = IF m \in fresh THEN row ELSE d.spaces[m]
        BY <1>3, <1>12, <3>1
      <3>3. DefaultSpaces > 0
        BY SpacesAssumption
      <3>4. QED
        BY <1>4, <1>10, <3>1, <3>2, <3>3
    <2>2. QED
      BY <2>1 DEF Full
  <1>17. QED
    BY <1>2, <1>3, <1>15, <1>16 DEF Kept, Books, f

-----------------------------------------------------------------------------
(* Pins, the taskbar setting, and the end of the daemon *)

LEMMA PinKept ==
  ASSUME NEW d, Kept(d), NEW w \in Windows, proxy \in Proxies PROVE Kept(Pin(d, w))
  <1> DEFINE x == Show(d.win[w], proxy)
             e == [d EXCEPT !.win[w] = x]
             f == [e EXCEPT !.pinned = d.pinned \cup {w}]
  <1>1. d \in Desk /\ Booked(d.win[w], Places(d, w))
    BY DEF Kept, Books, Tidy, Sound
  <1>2. Booked(x, Places(d, w))
    BY <1>1, ShowBooked
  <1>3. CASE w \notin d.pinned
    <2>1. Pin(d, w) = f
      BY <1>1, <1>3 DEF Pin, Desk
    <2> HIDE DEF x
    <2>2. Kept(e)
      BY <1>2, WinAtKept
    <2>3. e.spaces = d.spaces /\ e.pinned = d.pinned
      BY <1>1 DEF Desk
    <2> HIDE DEF e
    <2>4. e \in Desk
      BY <2>2 DEF Kept, Tidy, Sound
    <2>5. Keeps(e, f) /\ f.spaces = e.spaces /\ f.win = e.win
      BY <1>1, <2>4 DEF Keeps, SameShape, Desk
    <2> HIDE DEF f
    <2>6. QED
      BY <2>1, <2>2, <2>5, SameKept
  <1>4. CASE w \in d.pinned
    BY <1>4 DEF Pin
  <1>5. QED
    BY <1>3, <1>4

LEMMA UnpinKept ==
  ASSUME NEW d, Kept(d), NEW w \in Windows, Tracked(d, w), proxy \in Proxies
  PROVE  Kept(Unpin(d, w))
  <1> DEFINE loose == [d EXCEPT !.pinned = @ \ {w}]
             home  == Home(d, w)
  <1>1. d \in Desk
    BY DEF Kept, Tidy, Sound
  <1>2. Keeps(d, loose) /\ loose.spaces = d.spaces /\ loose.win = d.win
    BY <1>1 DEF Keeps, SameShape, Desk
  <1>3. Unpin(d, w) = IF home[2] = d.current[home[1]] THEN loose
                      ELSE Track(loose, w, home[1], d.current[home[1]])
    BY DEF Unpin
  <1> HIDE DEF loose
  <1>4. Kept(loose)
    BY <1>2, SameKept
  <1>5. home[1] \in Table(loose)
    <2>1. home[1] \in Monitors /\ home[2] \in DOMAIN d.spaces[home[1]]
      BY HomeIsPlace
    <2>2. Len(d.spaces[home[1]]) > 0
      <3> HIDE DEF home
      <3>1. QED
        BY <1>1, <2>1, DomainIsLen
    <2>3. QED
      BY <1>2, <2>1, <2>2 DEF Table
  <1> HIDE DEF home
  <1>6. Kept(Track(loose, w, home[1], d.current[home[1]]))
    BY <1>4, <1>5, TrackKept
  <1>7. QED
    BY <1>3, <1>4, <1>6

\* set_show_all_taskbar's pass: shown, and hidden again in the other mode.
LEMMA RehideKept ==
  ASSUME NEW d, Kept(d), NEW a \in BOOLEAN, Steady
  PROVE  Kept([d EXCEPT !.win = [w \in Windows |->
                 IF /\ Valid(d, w)
                    /\ \E m \in Table(d) : w \in On(d, m) \ Up(d, m)
                 THEN Hide(Show(d.win[w], proxy), a, proxy)
                 ELSE d.win[w]]])
  <1> DEFINE off == {w \in Windows : Valid(d, w) /\ \E m \in Table(d) : w \in On(d, m) \ Up(d, m)}
             win == [w \in Windows |-> IF w \in off THEN Hide(Show(d.win[w], proxy), a, proxy)
                                       ELSE d.win[w]]
  <1>1. Sound(d) /\ proxy \in Proxies
        /\ \A w \in Windows : Booked(d.win[w], Places(d, w)) /\ d.win[w] \in Window
    BY DEF Kept, Books, Tidy, Sound, Desk, Steady
  <1>2. \A w \in off : w \in Windows /\ Places(d, w) # {}
    BY <1>1, OnIsTracked DEF Table
  <1>3. [w \in Windows |-> IF /\ Valid(d, w)
                              /\ \E m \in Table(d) : w \in On(d, m) \ Up(d, m)
                           THEN Hide(Show(d.win[w], proxy), a, proxy)
                           ELSE d.win[w]] = win
    OBVIOUS
  <1> HIDE DEF off
  <1>4. win \in [Windows -> Window]
    BY <1>1, ShowType, HideType
  <1>5. ASSUME NEW w \in Windows PROVE Booked(win[w], Places(d, w))
    <2>1. CASE w \in off
      <3> DEFINE x == Show(d.win[w], proxy)
      <3>1. Booked(x, Places(d, w)) /\ Places(d, w) # {}
        BY <1>1, <1>2, <2>1, ShowBooked
      <3>2. win[w] = Hide(x, a, proxy)
        BY <2>1
      <3> HIDE DEF x, win
      <3>3. QED
        BY <3>1, <3>2, HideBooked
    <2>2. CASE w \notin off
      BY <1>1, <2>2
    <2>3. QED
      BY <2>1, <2>2
  <1> HIDE DEF win
  <1>6. Kept([d EXCEPT !.win = win])
    BY <1>4, <1>5, WinKept
  <1>7. QED
    BY <1>3, <1>6

\* windows_show_all leaves every window sane, and in an orderly environment
\* with no property and nothing of the daemon's on it.
LEMMA ReleasedGivesBack ==
  ASSUME NEW d, Kept(d), proxy \in Proxies, NEW w \in Windows
  PROVE  LET x == Released(d).win[w] IN
           Sane(x) /\ (Orderly => x.prop = {} /\ Free(x))
  <1> DEFINE managed == {v \in Windows : Tracked(d, v) /\ Valid(d, v)}
             freed(v) == IF v \in managed THEN Forgotten(Show(d.win[v], proxy)) ELSE d.win[v]
             win == [v \in Windows |-> Reclaim(freed(v), proxy)]
  <1>1. d \in Desk /\ Booked(d.win[w], Places(d, w))
    BY DEF Kept, Books, Tidy, Sound
  <1>2. Released(d).win = win
    BY <1>1 DEF Released, Desk
  <1>3. w \in managed => Places(d, w) # {}
    BY DEF Tracked
  <1> HIDE DEF managed
  <1>4. Sane(freed(w))
    <2>1. CASE w \in managed
      <3>1. Booked(Forgotten(Show(d.win[w], proxy)), {})
        BY <1>1, <1>3, <2>1, TrackedIsNoSystem, LetGoBooked
      <3>2. QED
        BY <2>1, <3>1 DEF Booked
    <2>2. CASE w \notin managed
      BY <1>1, <2>2 DEF Booked
    <2>3. QED
      BY <2>1, <2>2
  <1>5. win[w] = Reclaim(freed(w), proxy)
    OBVIOUS
  <1> HIDE DEF freed, win
  <1>6. QED
    BY <1>2, <1>4, <1>5, ReclaimBooked DEF Booked

-----------------------------------------------------------------------------
(* The invariant.  While the daemon runs its books are right; while it does   *)
(* not, nothing is listed, and after an orderly exit nothing is hidden.       *)

Given == /\ Steady
         /\ "topology" \notin Env => plugged = Monitors

AtRest ==
  /\ \A w \in Windows : Sane(desk.win[w]) /\ Places(desk, w) = {}
  /\ Orderly /\ phase = "exited" =>
       \A w \in Windows : desk.win[w].prop = {} /\ Free(desk.win[w])

HidingInv ==
  /\ TypedBoundedApart
  /\ Given
  /\ Running => Kept(desk)
  /\ ~Running => AtRest

LEMMA CommandKept ==
  ASSUME HidingInv, Command PROVE Kept(desk')
  <1>1. TypedBoundedApart /\ Steady /\ showAll \in BOOLEAN /\ proxy \in Proxies
    BY TidyParts DEF HidingInv, Given, Flags, Steady
  <1>2. Tidy(desk) /\ Sound(desk) /\ desk \in Desk
    BY <1>1, TidyParts DEF Tidy, Sound
  <1>3. Running => Kept(desk)
    BY DEF HidingInv
  <1>4. ASSUME NEW m \in Monitors, NEW i \in Indices,
               GoToSpace(m, i) \/ TraySwitch(m, i)
        PROVE  Kept(desk')
    <2>1. i \in DOMAIN desk.spaces[m] /\ SwitchFrom(desk, m, i, NoWindow) /\ Running
      BY <1>4 DEF GoToSpace, TraySwitch
    <2>2. QED
      BY <1>1, <1>3, <2>1, SwitchFromKept
  <1>5. ASSUME NEW m \in Monitors, NEW i \in Indices, MoveToSpace(m, i)
        PROVE  Kept(desk')
    <2> DEFINE d == Track(desk, desk.fg, m, i)
    <2>1. /\ desk.fg \in Windows /\ i \in DOMAIN desk.spaces[m] /\ m \in Table(desk)
          /\ SwitchFrom(d, m, i, desk.fg) /\ Running
      BY <1>2, <1>5 DEF MoveToSpace, Desk
    <2>2. Keeps(desk, d) /\ Kept(d)
      BY <1>1, <1>2, <1>3, <2>1, TrackKeeps, TrackKept
    <2> HIDE DEF d
    <2>3. i \in DOMAIN d.spaces[m]
      BY <1>2, <2>1, <2>2, DomainIsLen DEF Keeps, SameShape
    <2>4. QED
      BY <1>1, <2>1, <2>2, <2>3, SwitchFromKept
  <1>6. ASSUME NEW m \in Monitors, NEW i \in Indices, RemoveSpace(m, i)
        PROVE  Kept(desk')
    <2> DEFINE d == Shortened(desk, m, i)
    <2>1. /\ i \in DOMAIN desk.spaces[m] /\ Len(desk.spaces[m]) > 1
          /\ SwitchFrom(d, m, d.current[m], NoWindow) /\ Running
      BY <1>6 DEF RemoveSpace
    <2>2. Kept(d) /\ d.current[m] \in DOMAIN d.spaces[m]
      BY <1>1, <1>2, <1>3, <2>1, ShortenedSound, ShortenedKept
    <2> HIDE DEF d
    <2>3. QED
      BY <1>1, <2>1, <2>2, SwitchFromKept
  <1>7. ASSUME NEW m \in Monitors, NEW i \in Indices, NEW j \in Indices,
               ReorderSpace(m, i, j)
        PROVE  Kept(desk')
    <2> DEFINE now == RemapAfterReorder(desk.current[m], i, j)
    <2>1. /\ i \in DOMAIN desk.spaces[m] /\ j \in DOMAIN desk.spaces[m] /\ Running
          /\ desk' = [desk EXCEPT !.spaces[m] = InsertAt(RemoveAt(@, i), j, @[i]),
                                  !.current[m] = now]
      BY <1>7 DEF ReorderSpace
    <2>2. Tidy(desk')
      BY <1>1, <1>7, CommandTidy DEF Command
    <2> HIDE DEF now
    <2>3. QED
      BY <1>3, <2>1, <2>2, ReorderKept
  <1>8. ASSUME NEW m \in Monitors, AddSpace(m) PROVE Kept(desk')
    BY <1>3, <1>8, AddedKept DEF AddSpace
  <1>9. ASSUME NEW w \in Windows, NEW m \in Monitors, NEW i \in Indices,
               MoveWindowToSpace(w, m, i)
        PROVE  Kept(desk')
    BY <1>1, <1>3, <1>9, TrackKept DEF MoveWindowToSpace
  <1>10. ASSUME NEW w \in Windows, NEW m \in Monitors, NEW i \in Indices,
                NEW s \in BOOLEAN, RestoreWorkspaceRules(w, m, i, s)
         PROVE  Kept(desk')
    <2>1. PICK minimized \in BOOLEAN, landed \in {desk.win[w].mon} \cup ({m} \cap plugged) :
            LET put    == [desk EXCEPT !.win[w] =
                             [@ EXCEPT !.visible = "yes", !.iconic = minimized,
                                       !.mon = landed]]
                placed == Track(put, w, m, i)
                pinned == IF s /\ Tracked(placed, w) THEN Pin(placed, w) ELSE placed
            IN  \E scanned \in (IF Table(pinned) = {} THEN {pinned}
                                ELSE {pinned, Scan(pinned)}) :
                  LET shown == Refresh(scanned, Table(scanned))
                  IN  \E f \in {NoWindow} \cup UNION {Landing(shown, n) : n \in Table(shown)} :
                        desk' = Focused(shown, f)
      BY <1>10 DEF RestoreWorkspaceRules
    <2> DEFINE x      == [desk.win[w] EXCEPT !.visible = "yes", !.iconic = minimized,
                                             !.mon = landed]
               put    == [desk EXCEPT !.win[w] = x]
               placed == Track(put, w, m, i)
               pinned == IF s /\ Tracked(placed, w) THEN Pin(placed, w) ELSE placed
    <2>2. Kept(desk) /\ "rules" \in Env /\ Booked(desk.win[w], Places(desk, w))
      BY <1>3, <1>10 DEF RestoreWorkspaceRules, Kept, Books
    <2>3. Booked(x, Places(desk, w))
      <3>1. desk.win[w] \in Window /\ landed \in Monitors
        BY <1>2 DEF Desk, Window
      <3>2. /\ x \in Window /\ x.live = desk.win[w].live /\ x.titled = desk.win[w].titled
            /\ x.visible = "yes" /\ x.cloak = desk.win[w].cloak /\ x.prop = desk.win[w].prop
        BY <3>1 DEF Window
      <3> HIDE DEF x
      <3>3. QED
        BY <2>2, <3>2
        DEF Booked, Sane, Blank, Safe, Recorded, HasHiddenBit, Undisturbed
    <2> HIDE DEF x
    <2>4. Kept(put)
      BY <2>2, <2>3, WinAtKept
    <2> HIDE DEF put
    <2>5. Orderly => m \in Table(put)
      BY <2>2, <2>4 DEF Orderly, Kept, Full, Table
    <2>6. Kept(placed)
      BY <1>1, <2>4, <2>5, TrackKept
    <2> HIDE DEF placed
    <2>7. Kept(pinned)
      BY <1>1, <2>6, PinKept
    <2> HIDE DEF pinned
    <2>8. PICK scanned \in {pinned, Scan(pinned)} :
            LET shown == Refresh(scanned, Table(scanned))
            IN  \E f \in {NoWindow} \cup UNION {Landing(shown, n) : n \in Table(shown)} :
                  desk' = Focused(shown, f)
      <3>1. \E scanned \in (IF Table(pinned) = {} THEN {pinned}
                            ELSE {pinned, Scan(pinned)}) :
              LET shown == Refresh(scanned, Table(scanned))
              IN  \E f \in {NoWindow} \cup UNION {Landing(shown, n) : n \in Table(shown)} :
                    desk' = Focused(shown, f)
        BY <2>1 DEF pinned, placed, put, x
      <3>2. QED
        BY <3>1
    <2> DEFINE shown == Refresh(scanned, Table(scanned))
    <2>9. Kept(scanned)
      BY <2>7, <2>8, ScanKept
    <2>10. Kept(shown) /\ Sound(shown)
      <3>1. Table(scanned) \in SUBSET Monitors
        BY DEF Table
      <3>2. QED
        BY <1>1, <2>9, <3>1, RefreshKept DEF Kept, Tidy
    <2> HIDE DEF shown
    <2>11. PICK f \in {NoWindow} \cup UNION {Landing(shown, n) : n \in Table(shown)} :
             desk' = Focused(shown, f)
      BY <2>8 DEF shown
    <2>12. f \in Windows \cup {NoWindow}
      BY <2>10, <2>11, LandingType
    <2>13. QED
      BY <2>10, <2>11, <2>12, FocusedKept
  <1>11. ASSUME NEW w \in Windows, NEW m \in Monitors, MoveWindowToNewSpace(w, m)
         PROVE  Kept(desk')
    <2> DEFINE d == Added(desk, m)
    <2>1. Kept(d) /\ m \in Table(desk) /\ desk' = Track(d, w, m, Len(d.spaces[m]))
      BY <1>3, <1>11, AddedKept DEF MoveWindowToNewSpace
    <2>2. m \in Table(d)
      <3>1. m \in Monitors /\ desk.spaces[m] \in Seq(SUBSET Windows)
        BY <1>2, <2>1 DEF Table, Desk
      <3>2. d.spaces[m] = Append(desk.spaces[m], {})
        BY <1>2, <3>1 DEF Added, Desk
      <3>3. Len(d.spaces[m]) > 0
        BY <3>1, <3>2
      <3>4. QED
        BY <3>1, <3>3 DEF Table
    <2> HIDE DEF d
    <2>3. QED
      BY <1>1, <2>1, <2>2, TrackKept
  <1>12. ASSUME NEW w \in Windows, TogglePin(w) PROVE Kept(desk')
    BY <1>1, <1>3, <1>12, PinKept, UnpinKept DEF TogglePin
  <1>13. ASSUME SetShowAllTaskbar PROVE Kept(desk')
    <2>1. /\ Running
          /\ desk' = [desk EXCEPT !.win = [w \in Windows |->
               IF /\ Valid(desk, w)
                  /\ \E m \in Table(desk) : w \in On(desk, m) \ Up(desk, m)
               THEN Hide(Show(desk.win[w], proxy), ~showAll, proxy)
               ELSE desk.win[w]]]
      BY <1>13 DEF SetShowAllTaskbar
    <2> DEFINE a == ~showAll
    <2>2. a \in BOOLEAN
      OBVIOUS
    <2>3. desk' = [desk EXCEPT !.win = [w \in Windows |->
               IF /\ Valid(desk, w)
                  /\ \E m \in Table(desk) : w \in On(desk, m) \ Up(desk, m)
               THEN Hide(Show(desk.win[w], proxy), a, proxy)
               ELSE desk.win[w]]]
      BY <2>1
    <2> HIDE DEF a
    <2>4. QED
      BY <1>1, <1>3, <2>1, <2>2, <2>3, RehideKept
  <1>14. QED
    BY <1>4, <1>5, <1>6, <1>7, <1>8, <1>9, <1>10, <1>11, <1>12, <1>13 DEF Command

LEMMA EventKept ==
  ASSUME HidingInv, Event PROVE Kept(desk')
  <1>1. TypedBoundedApart /\ Steady /\ showAll \in BOOLEAN /\ proxy \in Proxies
    BY TidyParts DEF HidingInv, Given, Flags, Steady
  <1>2. Sound(desk) /\ desk \in Desk
    BY <1>1, TidyParts DEF Tidy, Sound
  <1>3. Running => Kept(desk)
    BY DEF HidingInv
  <1>4. \A d, w : MonitorOf(d, w) # NoMonitor => MonitorOf(d, w) \in Table(d)
    BY DEF MonitorOf
  <1>5. ASSUME NEW w \in Windows, Activated(w) PROVE Kept(desk')
    <2> DEFINE adopted == IF Tracked(desk, w) THEN desk ELSE AtCurrent(desk, {w})
               home    == Home(adopted, w)
               sits    == MonitorOf(adopted, w)
               moved   == sits \notin {NoMonitor, home[1]} /\ MayRehome(TRUE)
               rehomed == Track(adopted, w, sits, adopted.current[sits])
    <2>1. /\ Running
          /\ Tracked(desk, w) \/ (Valid(desk, w) /\ MonitorOf(desk, w) # NoMonitor)
          /\ \/ moved /\ desk' = rehomed
             \/ SwitchFrom(adopted, home[1], home[2], w)
             \/ desk' = adopted
      BY <1>5 DEF Activated
    <2>2. Kept(adopted) /\ Tracked(adopted, w)
      BY <1>2, <1>3, <2>1, AdoptedIsTracked, AtCurrentKept
    <2> HIDE DEF adopted
    <2>3. CASE moved /\ desk' = rehomed
      <3>1. sits # NoMonitor
        BY <2>3
      <3>2. QED
        BY <1>1, <2>2, <2>3, <3>1, TrackKept
    <2>4. CASE SwitchFrom(adopted, home[1], home[2], w)
      <3>1. home[1] \in Monitors /\ home[2] \in DOMAIN adopted.spaces[home[1]]
        BY <2>2, HomeIsPlace
      <3> HIDE DEF home
      <3>2. QED
        BY <1>1, <2>2, <2>4, <3>1, SwitchFromKept
    <2>5. QED
      BY <2>1, <2>2, <2>3, <2>4
  <1>6. ASSUME NEW w \in Windows, WindowDestroyed(w) PROVE Kept(desk')
    <2>1. ~MustRestoreBeforeUntrack(desk.win[w])
      BY <1>6 DEF WindowDestroyed, MustRestoreBeforeUntrack
    <2>2. QED
      BY <1>3, <1>6, <2>1, RemoveWindowKept DEF WindowDestroyed
  <1>7. ASSUME NEW w \in Windows, AdoptUntracked(w) PROVE Kept(desk')
    BY <1>3, <1>7, AtCurrentKept DEF AdoptUntracked
  <1>8. ASSUME NEW w \in Windows, MoveSizeEnd(w) PROVE Kept(desk')
    BY <1>1, <1>3, <1>8, TrackKept DEF MoveSizeEnd
  <1>9. ASSUME ScanWindows PROVE Kept(desk')
    BY <1>3, <1>9, ScanKept DEF ScanWindows
  <1>10. ASSUME CloseVerify PROVE Kept(desk')
    BY <1>3, <1>10, PruneKept DEF CloseVerify
  <1>11. QED
    BY <1>5, <1>6, <1>7, <1>8, <1>9, <1>10 DEF Event

LEMMA TimerKept ==
  ASSUME HidingInv, Timer PROVE desk' = desk \/ (Running /\ Kept(desk'))
  <1>1. TypedBoundedApart /\ Tidy(desk) /\ Flags /\ (Running => Kept(desk))
        /\ ("topology" \notin Env => plugged = Monitors)
    BY TidyParts DEF HidingInv, Given
  <1>2. CASE SettleElapses \/ SuppressionElapses \/ DisplayChange \/ SessionChange
    BY <1>2 DEF SettleElapses, SuppressionElapses, DisplayChange, SessionChange
  <1>3. CASE Reconcile
    <2> DEFINE d == Rebuilt(desk)
    <2>1. Running /\ desk' = Scan(d)
      BY <1>3 DEF Reconcile
    <2>2. Kept(d)
      BY <1>1, <2>1, RebuiltKept DEF Kept, Flags
    <2> HIDE DEF d
    <2>3. QED
      BY <2>1, <2>2, ScanKept
  <1>4. QED
    BY <1>2, <1>3 DEF Timer

\* A daemon that has ended lists nothing.
LEMMA EndedPlaces ==
  ASSUME NEW d \in Desk, NEW w PROVE Ended(d).win = d.win /\ Places(Ended(d), w) = {}
  <1>1. Ended(d).win = d.win /\ \A m \in Monitors : Ended(d).spaces[m] = <<>>
    BY DEF Ended, Desk
  <1>2. \A m \in Monitors : \A i \in DOMAIN Ended(d).spaces[m] : FALSE
    BY <1>1
  <1>3. QED
    BY <1>1, <1>2 DEF Places

LEMMA ExitAtRest ==
  ASSUME HidingInv, Exit, NEW w \in Windows
  PROVE  LET x == desk'.win[w] IN
           /\ Sane(x) /\ Places(desk', w) = {}
           /\ Orderly => x.prop = {} /\ Free(x)
  <1>1. Kept(desk) /\ desk \in Desk /\ proxy \in Proxies
    BY TidyParts DEF HidingInv, Exit, Kept, Tidy, Sound, Flags
  <1> DEFINE d == Released(desk)
  <1>2. d \in Desk
    BY <1>1, ReleasedKeeps DEF Keeps
  <1>3. Sane(d.win[w]) /\ (Orderly => d.win[w].prop = {} /\ Free(d.win[w]))
    BY <1>1, ReleasedGivesBack
  <1>4. desk' = Ended(d)
    BY DEF Exit
  <1> HIDE DEF d
  <1>5. desk'.win = d.win /\ Places(desk', w) = {}
    BY <1>2, <1>4, EndedPlaces
  <1>6. QED
    BY <1>3, <1>5

LEMMA CrashAtRest ==
  ASSUME HidingInv, Crash, NEW w \in Windows
  PROVE  Sane(desk'.win[w]) /\ Places(desk', w) = {}
  <1>1. Kept(desk) /\ desk \in Desk
    BY DEF HidingInv, Crash, Kept, Tidy, Sound
  <1>2. desk'.win = desk.win /\ Places(desk', w) = {}
    BY <1>1, EndedPlaces DEF Crash
  <1>3. QED
    BY <1>1, <1>2 DEF Kept, Books, Booked

LEMMA StartKept ==
  ASSUME HidingInv, Start PROVE Kept(desk')
  <1> DEFINE win == [w \in Windows |-> Reclaim(desk.win[w], proxy)]
             d == [desk EXCEPT !.win = win]
             e == Rebuilt(d)
  <1>1. /\ Tidy(desk) /\ desk \in Desk /\ proxy \in Proxies
        /\ plugged \in SUBSET Monitors
        /\ "topology" \notin Env => plugged = Monitors
        /\ \A w \in Windows : Sane(desk.win[w]) /\ Places(desk, w) = {}
    BY TidyParts DEF HidingInv, Given, AtRest, Start, Tidy, Sound, Flags
  <1>2. win \in [Windows -> Window]
    BY <1>1, ReclaimType DEF Desk
  <1>3. \A w \in Windows : Booked(win[w], {})
    BY <1>1, ReclaimBooked
  <1>4. desk' = Scan(e)
    BY DEF Start
  <1> HIDE DEF win
  <1>5. Tidy(d) /\ d.win = win /\ d.spaces = desk.spaces
    BY <1>1, <1>2, WinTidy DEF Desk
  <1> HIDE DEF d
  <1>6. Books(d)
    BY <1>1, <1>3, <1>5, SamePlaces DEF Books
  <1>7. Kept(e)
    BY <1>1, <1>5, <1>6, RebuiltKept
  <1> HIDE DEF e
  <1>8. QED
    BY <1>4, <1>7, ScanKept

-----------------------------------------------------------------------------
(* What users, applications and the system do to windows *)

\* y is x moved, retitled, minimized, restored, hidden or shown.
Touched(x, y) ==
  /\ y \in Window
  /\ y.live = x.live /\ y.prop = x.prop /\ y.cloak = x.cloak
  /\ y.elevated = x.elevated
  /\ y.visible \in {x.visible, "yes", "app"}
  /\ "title" \notin Env => y.titled = x.titled
  /\ "hide" \notin Env => y.visible = x.visible
  /\ "taskbar" \notin Env /\ "FORCED_MINIMIZED" \in x.prop /\ x.iconic => y.iconic

\* The handle is given to a new window that is not listed.
Opened(x, y, places) ==
  /\ y \in Window
  /\ ~x.live /\ places = {}
  /\ y.prop = x.prop /\ y.cloak = x.cloak /\ y.visible = x.visible
  /\ y.titled = x.titled /\ y.elevated = x.elevated

Altered(x, y, places) == Touched(x, y) \/ Opened(x, y, places) \/ y = Dead(x)

LEMMA AlteredBooked ==
  ASSUME NEW x, NEW y, NEW places, Sane(x), Altered(x, y, places)
  PROVE  /\ Sane(y)
         /\ Booked(x, places) => Booked(y, places)
         /\ x.prop = {} /\ Free(x) => y.prop = {} /\ Free(y)
  <1>1. CASE Touched(x, y)
    <2>1. y \in Window /\ Blank(y)
      BY <1>1 DEF Sane, Blank, Touched
    <2>2. ASSUME Orderly PROVE Safe(y)
      <3>1. Safe(x) /\ y.titled = x.titled
        BY <1>1, <2>2 DEF Sane, Touched, Orderly
      <3>2. QED
        BY <1>1, <3>1 DEF Touched, Safe, Recorded, HasHiddenBit
    <2>3. ASSUME Orderly, Undisturbed PROVE Effective(y)
      <3>1. Effective(x)
        BY <2>3 DEF Sane
      <3>2. CASE "hide" \in Env
        <4>1. Elevated = {}
          BY <2>3, <3>2 DEF Undisturbed
        <4>2. QED
          BY <1>1, <2>3, <3>1, <4>1 DEF Touched, Effective, Undisturbed
      <3>3. CASE "hide" \notin Env
        BY <1>1, <2>3, <3>1, <3>3 DEF Touched, Effective, Undisturbed
      <3>4. QED
        BY <3>2, <3>3
    <2>4. QED
      BY <1>1, <2>1, <2>2, <2>3 DEF Sane, Touched, Booked, Free
  <1>2. CASE Opened(x, y, places)
    <2>1. y \in Window /\ Blank(y) /\ y.prop = {} /\ y.cloak = {} /\ y.visible # "us"
      BY <1>2 DEF Sane, Blank, Opened
    <2>2. ASSUME Orderly PROVE Safe(y)
      BY <1>2, <2>1, <2>2 DEF Sane, Opened, Safe, Recorded, HasHiddenBit, Layers
    <2>3. ASSUME Orderly, Undisturbed PROVE Effective(y)
      BY <1>2, <2>1, <2>3 DEF Sane, Opened, Effective
    <2>4. QED
      BY <1>2, <2>1, <2>2, <2>3 DEF Sane, Opened, Booked, Free
  <1>3. CASE y = Dead(x)
    <2>1. /\ y \in Window /\ ~y.live /\ y.titled /\ y.prop = {} /\ y.cloak = {}
          /\ y.visible = "yes" /\ y.elevated = x.elevated
      BY <1>3 DEF Sane, Dead, Window
    <2>2. (Orderly => Safe(y)) /\ Blank(y) /\ Free(y)
      BY <2>1 DEF Sane, Blank, Safe, Recorded, HasHiddenBit, Layers, Free
    <2>3. Orderly /\ Undisturbed => Effective(y)
      BY <2>1 DEF Sane, Effective
    <2>4. QED
      BY <2>1, <2>2, <2>3 DEF Sane, Booked
  <1>4. QED
    BY <1>1, <1>2, <1>3 DEF Altered

LEMMA SameIsTouched ==
  ASSUME NEW x \in Window PROVE Touched(x, x)
  BY DEF Touched

LEMMA WindowsAltered ==
  ASSUME TypedBoundedApart, Environment, "recycle" \notin Env, NEW v \in Windows
  PROVE  Altered(desk.win[v], desk'.win[v], Places(desk, v))
  <1>1. desk \in Desk /\ desk.win[v] \in Window /\ plugged \in SUBSET Monitors
    BY TidyParts DEF Tidy, Sound, Desk, Flags
  <1>2. desk'.win[v] = desk.win[v] => Altered(desk.win[v], desk'.win[v], Places(desk, v))
    BY <1>1, SameIsTouched DEF Altered
  <1>3. ASSUME NEW w \in Windows, NEW x, Alter(w, x)
        PROVE  /\ v # w => desk'.win[v] = desk.win[v]
               /\ v = w => desk'.win[v] = x
    BY <1>1, <1>3 DEF Alter, Desk
  <1>4. ASSUME NEW w \in Windows, NEW x, Touched(desk.win[w], x), Alter(w, x)
        PROVE  Altered(desk.win[v], desk'.win[v], Places(desk, v))
    BY <1>2, <1>3, <1>4 DEF Altered
  <1>5. ASSUME NEW w \in Windows, Open(w)
        PROVE  Altered(desk.win[v], desk'.win[v], Places(desk, v))
    <2>1. PICK m \in plugged : Alter(w, [desk.win[w] EXCEPT !.live = TRUE, !.mon = m])
      BY <1>5 DEF Open
    <2> DEFINE x == [desk.win[w] EXCEPT !.live = TRUE, !.mon = m]
    <2>2. m \in Monitors /\ desk.win[w] \in Window
      BY <1>1 DEF Desk
    <2>3. Places(desk, w) = {} /\ ~desk.win[w].live
      BY <1>5 DEF Open, Tracked
    <2>4. Opened(desk.win[w], x, Places(desk, w))
      BY <2>2, <2>3 DEF Opened, Window
    <2>5. Alter(w, x)
      BY <2>1
    <2> HIDE DEF x
    <2>6. QED
      BY <1>2, <1>3, <2>4, <2>5 DEF Altered
  <1>6. ASSUME NEW w \in Windows, Close(w)
        PROVE  Altered(desk.win[v], desk'.win[v], Places(desk, v))
    <2>1. /\ v # w => desk'.win[v] = desk.win[v]
          /\ v = w => desk'.win[v] = Dead(desk.win[v])
      BY <1>1, <1>6 DEF Close, Desk
    <2>2. QED
      BY <1>2, <2>1 DEF Altered
  <1>7. ASSUME NEW w \in Windows,
               \/ Retitle(w) \/ AppHide(w) \/ AppShow(w)
               \/ Minimize(w) \/ Restore(w) \/ \E m \in Monitors : Drag(w, m)
        PROVE  Altered(desk.win[v], desk'.win[v], Places(desk, v))
    <2> DEFINE x == desk.win[w]
    <2>1. x \in Window
      BY <1>1 DEF Desk
    <2>2. CASE Retitle(w)
      <3>1. Touched(x, [x EXCEPT !.titled = ~@])
        BY <2>1, <2>2 DEF Touched, Window, Retitle
      <3>2. Alter(w, [x EXCEPT !.titled = ~@])
        BY <2>2 DEF Retitle
      <3>3. QED
        BY <1>4, <3>1, <3>2
    <2>3. CASE AppHide(w)
      <3>1. Touched(x, [x EXCEPT !.visible = "app"])
        BY <2>1, <2>3 DEF Touched, Window, AppHide
      <3>2. QED
        BY <1>4, <2>3, <3>1 DEF AppHide
    <2>4. CASE AppShow(w)
      <3>1. Touched(x, [x EXCEPT !.visible = "yes"])
        BY <2>1, <2>4 DEF Touched, Window, AppShow
      <3>2. QED
        BY <1>4, <2>4, <3>1 DEF AppShow
    <2>5. CASE Minimize(w)
      <3>1. Touched(x, [x EXCEPT !.iconic = TRUE])
        BY <2>1, <2>5 DEF Touched, Window, Minimize
      <3>2. QED
        BY <1>4, <2>5, <3>1 DEF Minimize
    <2>6. CASE Restore(w)
      <3>1. Touched(x, [x EXCEPT !.iconic = FALSE])
        BY <2>1, <2>6 DEF Touched, Window, Restore
      <3>2. QED
        BY <1>4, <2>6, <3>1 DEF Restore
    <2>7. CASE \E m \in Monitors : Drag(w, m)
      <3>1. PICK m \in Monitors : Drag(w, m)
        BY <2>7
      <3>2. Touched(x, [x EXCEPT !.mon = m])
        BY <2>1 DEF Touched, Window
      <3>3. QED
        BY <1>4, <3>1, <3>2 DEF Drag
    <2>8. QED
      BY <1>7, <2>2, <2>3, <2>4, <2>5, <2>6, <2>7
  <1>8. ASSUME NEW w \in Windows \cup {NoWindow}, Focus(w)
        PROVE  Altered(desk.win[v], desk'.win[v], Places(desk, v))
    <2>1. desk'.win = desk.win
      BY <1>1, <1>8 DEF Focus, Desk
    <2>2. QED
      BY <1>2, <2>1
  <1>9. ASSUME NEW p \in Proxies, ShellChanges(p)
        PROVE  Altered(desk.win[v], desk'.win[v], Places(desk, v))
    BY <1>2, <1>9 DEF ShellChanges
  <1>10. ASSUME NEW S \in SUBSET Monitors, PlugOrUnplug(S)
         PROVE  Altered(desk.win[v], desk'.win[v], Places(desk, v))
    <2>1. PICK to \in [Windows -> Monitors] :
            desk' = [desk EXCEPT !.win = [w \in Windows |-> [@[w] EXCEPT !.mon = to[w]]]]
      BY <1>10 DEF PlugOrUnplug
    <2>2. desk'.win[v] = [desk.win[v] EXCEPT !.mon = to[v]]
      BY <1>1, <2>1 DEF Desk
    <2>3. Touched(desk.win[v], desk'.win[v])
      BY <1>1, <2>2 DEF Touched, Window
    <2>4. QED
      BY <2>3 DEF Altered
  <1>11. QED
    BY <1>5, <1>6, <1>7, <1>8, <1>9, <1>10 DEF Environment

\* What is out of the daemon's hands leaves its books right.
LEMMA EnvironmentKept ==
  ASSUME HidingInv, Environment, "recycle" \notin Env
  PROVE  /\ Running => Kept(desk')
         /\ \A w \in Windows :
              LET x == desk.win[w]
                  y == desk'.win[w]
              IN  ~Running => /\ Sane(y) /\ Places(desk', w) = {}
                              /\ x.prop = {} /\ Free(x) => y.prop = {} /\ Free(y)
  <1>1. TypedBoundedApart /\ TypedAndBounded /\ Tidy(desk)
    BY TidyParts DEF HidingInv, TypedBoundedApart
  <1>2. Sound(desk') /\ desk'.spaces = desk.spaces
    BY <1>1, EnvironmentSound, EnvironmentSpaces
  <1>3. Tidy(desk')
    BY <1>1, <1>2, SameSpacesThins, ThinsApart DEF Tidy
  <1>4. \A w \in Windows : /\ Altered(desk.win[w], desk'.win[w], Places(desk, w))
                           /\ Places(desk', w) = Places(desk, w)
    BY <1>1, <1>2, WindowsAltered, SamePlaces
  <1>5. ASSUME Running PROVE Kept(desk')
    <2>1. Kept(desk)
      BY <1>5 DEF HidingInv
    <2>2. Full(desk')
      BY <1>2, <2>1 DEF Kept, Full
    <2>3. Books(desk')
      BY <1>4, <2>1, AlteredBooked DEF Kept, Books, Booked
    <2>4. QED
      BY <1>3, <2>2, <2>3 DEF Kept
  <1>6. ASSUME NEW w \in Windows, ~Running
        PROVE  /\ Sane(desk'.win[w]) /\ Places(desk', w) = {}
               /\ desk.win[w].prop = {} /\ Free(desk.win[w]) =>
                    desk'.win[w].prop = {} /\ Free(desk'.win[w])
    BY <1>4, <1>6, AlteredBooked DEF HidingInv, AtRest
  <1>7. QED
    BY <1>5, <1>6

-----------------------------------------------------------------------------
(* What a step does to the displays, the shell cloak and the daemon's phase *)

LEMMA Frame ==
  ASSUME Next
  PROVE  /\ plugged' = plugged \/ "topology" \in Env
         /\ proxy' = proxy \/ "shell" \in Env
         /\ Command \/ Event \/ Timer \/ Environment => phase' = phase
         /\ Command \/ Event \/ Timer \/ Life => plugged' = plugged
  <1> DEFINE Calm == plugged' = plugged /\ proxy' = proxy /\ phase' = phase
  <1>1. ASSUME Command PROVE Calm
    <2>1. ASSUME NEW m \in Monitors, NEW i \in Indices,
                 GoToSpace(m, i) \/ TraySwitch(m, i) \/ MoveToSpace(m, i) \/ RemoveSpace(m, i)
          PROVE  Calm
      BY <2>1 DEF World, GoToSpace, TraySwitch, MoveToSpace, RemoveSpace
    <2>2. ASSUME NEW m \in Monitors, NEW i \in Indices, NEW j \in Indices,
                 ReorderSpace(m, i, j)
          PROVE  Calm
      BY <2>2 DEF World, ReorderSpace
    <2>3. ASSUME NEW m \in Monitors, AddSpace(m) PROVE Calm
      BY <2>3 DEF World, AddSpace
    <2>4. ASSUME NEW w \in Windows, NEW m \in Monitors, NEW i \in Indices,
                 MoveWindowToSpace(w, m, i) \/ \E s \in BOOLEAN : RestoreWorkspaceRules(w, m, i, s)
          PROVE  Calm
      <3>1. UNCHANGED World
        BY <2>4, Zenon DEF MoveWindowToSpace, RestoreWorkspaceRules
      <3>2. QED
        BY <3>1 DEF World
    <2>5. CASE SetShowAllTaskbar
      BY <2>5 DEF SetShowAllTaskbar
    <2>6. ASSUME NEW w \in Windows, NEW m \in Monitors, MoveWindowToNewSpace(w, m)
          PROVE  Calm
      BY <2>6 DEF World, MoveWindowToNewSpace
    <2>7. ASSUME NEW w \in Windows, TogglePin(w) PROVE Calm
      BY <2>7 DEF World, TogglePin
    <2>8. QED
      BY <1>1, <2>1, <2>2, <2>3, <2>4, <2>5, <2>6, <2>7 DEF Command
  <1>2. ASSUME Event PROVE Calm
    <2>1. ASSUME NEW w \in Windows, Activated(w) PROVE Calm
      BY <2>1 DEF World, Activated
    <2>2. ASSUME NEW w \in Windows,
                 WindowDestroyed(w) \/ AdoptUntracked(w) \/ MoveSizeEnd(w)
          PROVE  Calm
      BY <2>2 DEF World, WindowDestroyed, AdoptUntracked, MoveSizeEnd
    <2>3. ASSUME ScanWindows \/ CloseVerify PROVE Calm
      BY <2>3 DEF World, ScanWindows, CloseVerify
    <2>4. QED
      BY <1>2, <2>1, <2>2, <2>3 DEF Event
  <1>3. ASSUME Timer PROVE Calm
    BY <1>3
    DEF Timer, World, SettleElapses, SuppressionElapses, DisplayChange,
        SessionChange, Reconcile
  <1>4. ASSUME Life PROVE plugged' = plugged /\ proxy' = proxy
    BY <1>4 DEF Life, Exit, Crash, Start
  <1>5. ASSUME Environment
        PROVE  /\ plugged' = plugged \/ "topology" \in Env
               /\ proxy' = proxy \/ "shell" \in Env
               /\ phase' = phase
    <2>1. CASE \E w \in Windows :
                 Open(w) \/ Close(w) \/ Retitle(w) \/ AppHide(w) \/ AppShow(w)
                   \/ Minimize(w) \/ Restore(w)
      BY <2>1
      DEF OnlyDesk, Alter, Open, Close, Retitle, AppHide, AppShow, Minimize, Restore
    <2>2. CASE \E w \in Windows, m \in Monitors : Drag(w, m)
      BY <2>2 DEF OnlyDesk, Alter, Drag
    <2>3. CASE \E w \in Windows \cup {NoWindow} : Focus(w)
      BY <2>3 DEF OnlyDesk, Focus
    <2>4. CASE \E p \in Proxies : ShellChanges(p)
      BY <2>4 DEF ShellChanges
    <2>5. CASE \E S \in SUBSET Monitors : PlugOrUnplug(S)
      BY <2>5 DEF PlugOrUnplug
    <2>6. QED
      BY <1>5, <2>1, <2>2, <2>3, <2>4, <2>5 DEF Environment
  <1> HIDE DEF Calm
  <1>6. Calm => plugged' = plugged /\ proxy' = proxy /\ phase' = phase
    BY DEF Calm
  <1>7. QED
    BY <1>1, <1>2, <1>3, <1>4, <1>5, <1>6 DEF Next

\* The books of the next state are those of the next desk, as far as the shell
\* cloak has not changed.
LEMMA SaneNext ==
  ASSUME proxy' = proxy \/ ~Orderly, NEW w
  PROVE  /\ Sane(desk'.win[w]) => Sane(desk.win[w])'
         /\ Orderly' <=> Orderly
         /\ Free(desk.win[w])' <=> Free(desk'.win[w])
         /\ Places(desk, w)' = Places(desk', w)
  <1>1. Orderly' <=> Orderly
    BY DEF Orderly
  <1>2. Free(desk.win[w])' <=> Free(desk'.win[w])
    BY DEF Free
  <1>3. Places(desk, w)' = Places(desk', w)
    BY DEF Places
  <1>4. Sane(desk'.win[w]) => Sane(desk.win[w])'
    BY <1>1 DEF Sane, Blank, Safe, Effective, Undisturbed, Recorded, HasHiddenBit, Window
  <1>5. QED
    BY <1>1, <1>2, <1>3, <1>4

LEMMA TidyNext == Tidy(desk') <=> Tidy(desk)'
  BY DEF Tidy, Sound, Desk, Bounded, Apart, Window

LEMMA KeptNext ==
  ASSUME Kept(desk'), proxy' = proxy \/ ~Orderly PROVE Kept(desk)'
  <1>1. Tidy(desk)'
    BY TidyNext DEF Kept
  <1>2. Full(desk)'
    BY DEF Kept, Full
  <1>3. Books(desk)'
    <2>1. \A w \in Windows : Booked(desk'.win[w], Places(desk', w))
      BY DEF Kept, Books
    <2>2. ASSUME NEW w \in Windows PROVE Booked(desk.win[w], Places(desk, w))'
      BY <2>1, SaneNext DEF Booked
    <2>3. QED
      BY <2>2 DEF Books
  <1>4. QED
    BY <1>1, <1>2, <1>3 DEF Kept

LEMMA AtRestNext ==
  ASSUME proxy' = proxy \/ ~Orderly,
         \A w \in Windows :
           /\ Sane(desk'.win[w]) /\ Places(desk', w) = {}
           /\ Orderly /\ phase' = "exited" => desk'.win[w].prop = {} /\ Free(desk'.win[w])
  PROVE  AtRest'
  <1>1. \A w \in Windows : (Sane(desk.win[w]) /\ Places(desk, w) = {})'
    BY SaneNext
  <1>2. (Orderly /\ phase = "exited" =>
           \A w \in Windows : desk.win[w].prop = {} /\ Free(desk.win[w]))'
    BY SaneNext
  <1>3. QED
    BY <1>1, <1>2 DEF AtRest

\* Handlers run only in a daemon that runs.
LEMMA HandlersRun ==
  ASSUME Command \/ Event PROVE Running
  <1>1. ASSUME Command PROVE Running
    <2>1. \A m, i : GoToSpace(m, i) \/ TraySwitch(m, i) \/ MoveToSpace(m, i)
                      \/ RemoveSpace(m, i) \/ AddSpace(m) => Running
      BY DEF GoToSpace, TraySwitch, MoveToSpace, RemoveSpace, AddSpace
    <2>2. \A m, i, j : ReorderSpace(m, i, j) => Running
      BY DEF ReorderSpace
    <2>3. \A w, m, i : MoveWindowToSpace(w, m, i) \/ MoveWindowToNewSpace(w, m)
                         \/ TogglePin(w) \/ SetShowAllTaskbar => Running
      BY DEF MoveWindowToSpace, MoveWindowToNewSpace, TogglePin, SetShowAllTaskbar
    <2>4. \A w, m, i, s : RestoreWorkspaceRules(w, m, i, s) => Running
      BY DEF RestoreWorkspaceRules
    <2>5. QED
      BY <1>1, <2>1, <2>2, <2>3, <2>4 DEF Command
  <1>2. ASSUME Event PROVE Running
    BY <1>2, Zenon
    DEF Event, Activated, WindowDestroyed, AdoptUntracked, MoveSizeEnd, ScanWindows,
        CloseVerify
  <1>3. QED
    BY <1>1, <1>2

LEMMA InitHiding == Init => HidingInv
  <1> SUFFICES ASSUME Init PROVE HidingInv
    OBVIOUS
  <1>1. TypedAndBounded
    BY InitSound
  <1>2. PICK live \in [Windows -> BOOLEAN], at \in [Windows -> Monitors] :
          desk = [win     |-> [w \in Windows |-> NewWindow(w, live[w], at[w])],
                  spaces  |-> [m \in Monitors |-> <<>>],
                  current |-> [m \in Monitors |-> 1],
                  pinned  |-> {}, focus |-> {}, fg |-> NoWindow]
    BY DEF Init
  <1>3. /\ \A m \in Monitors : desk.spaces[m] = <<>>
        /\ \A w \in Windows : desk.win[w] = NewWindow(w, live[w], at[w])
    BY <1>2
  <1>4. \A m \in Monitors : \A i \in DOMAIN desk.spaces[m] : FALSE
    BY <1>3
  <1>5. TypedBoundedApart
    BY <1>1, <1>4 DEF TypedBoundedApart, Apart
  <1>6. Given /\ ~Running /\ proxy # "stuck"
    BY DEF Init, Given, Steady, Proxies, Running
  <1>7. ASSUME NEW w \in Windows
        PROVE  /\ Sane(desk.win[w]) /\ Places(desk, w) = {}
               /\ desk.win[w].prop = {} /\ Free(desk.win[w])
    <2> DEFINE x == desk.win[w]
    <2>1. /\ x \in Window /\ x.prop = {} /\ x.cloak = {} /\ x.visible = "yes"
          /\ x.titled /\ x.elevated = (w \in Elevated)
      <3>1. desk \in Desk
        BY <1>1 DEF TypedAndBounded, TypeOK
      <3>2. x = NewWindow(w, live[w], at[w]) /\ x \in Window
        BY <1>3, <3>1 DEF Desk
      <3> HIDE DEF x
      <3>3. QED
        BY <3>2 DEF NewWindow
    <2>2. Places(desk, w) = {}
      BY <1>4 DEF Places
    <2> HIDE DEF x
    <2>3. Safe(x) /\ Blank(x) /\ Free(x)
      BY <1>6, <2>1 DEF Blank, Safe, Recorded, HasHiddenBit, Layers, Free
    <2>4. Effective(x)
      BY <2>1 DEF Effective
    <2>5. Sane(x)
      BY <2>1, <2>3, <2>4 DEF Sane
    <2>6. QED
      BY <2>1, <2>2, <2>3, <2>5 DEF x
  <1>8. AtRest
    BY <1>7 DEF AtRest
  <1>9. QED
    BY <1>5, <1>6, <1>8 DEF HidingInv

LEMMA StepHiding ==
  ASSUME "recycle" \notin Env, HidingInv, [Next]_vars PROVE HidingInv'
  <1>1. TypedBoundedApart'
    BY StepApart DEF HidingInv
  <1>2. CASE UNCHANGED vars
    <2>1. desk' = desk /\ plugged' = plugged /\ proxy' = proxy /\ phase' = phase
      BY <1>2 DEF vars
    <2>2. Given'
      BY <2>1 DEF HidingInv, Given, Steady, Orderly
    <2>3. (Running => Kept(desk))'
      BY <2>1, KeptNext DEF HidingInv, Running
    <2>4. (~Running => AtRest)'
      BY <2>1, AtRestNext DEF HidingInv, Running, AtRest
    <2>5. QED
      BY <1>1, <2>2, <2>3, <2>4 DEF HidingInv
  <1>3. CASE Next
    <2>1. /\ plugged' = plugged \/ "topology" \in Env
          /\ proxy' = proxy \/ "shell" \in Env
          /\ Command \/ Event \/ Timer \/ Environment => phase' = phase
      BY <1>3, Frame
    <2>2. proxy' = proxy \/ ~Orderly
      BY <2>1 DEF Orderly
    <2>3. Given'
      <3>1. proxy' \in Proxies
        BY <1>1 DEF TypedBoundedApart, TypedAndBounded, TypeOK
      <3>2. QED
        BY <2>1, <2>2, <3>1 DEF HidingInv, Given, Steady, Orderly
    <2>4. CASE Command \/ Event
      <3>1. Kept(desk') /\ Running /\ phase' = phase
        BY <2>1, <2>4, CommandKept, EventKept, HandlersRun
      <3>2. Running' /\ Kept(desk)'
        BY <2>2, <3>1, KeptNext DEF Running
      <3>3. QED
        BY <1>1, <2>3, <3>2 DEF HidingInv
    <2>5. CASE Timer
      <3>1. phase' = phase /\ (desk' = desk \/ (Running /\ Kept(desk')))
        BY <2>1, <2>5, TimerKept
      <3>2. (Running => Kept(desk))'
        BY <2>2, <3>1, KeptNext DEF HidingInv, Running
      <3>3. (~Running => AtRest)'
        BY <2>2, <3>1, AtRestNext DEF HidingInv, Running, AtRest
      <3>4. QED
        BY <1>1, <2>3, <3>2, <3>3 DEF HidingInv
    <2>6. CASE Environment
      <3>1. phase' = phase
        BY <2>1, <2>6
      <3>2. (Running => Kept(desk))'
        BY <2>2, <2>6, <3>1, EnvironmentKept, KeptNext DEF Running
      <3>3. (~Running => AtRest)'
        <4>1. ASSUME ~Running PROVE AtRest'
          BY <2>2, <2>6, <3>1, <4>1, EnvironmentKept, AtRestNext DEF HidingInv, AtRest
        <4>2. QED
          BY <3>1, <4>1 DEF Running
      <3>4. QED
        BY <1>1, <2>3, <3>2, <3>3 DEF HidingInv
    <2>7. CASE Exit
      <3>1. phase' = "exited" /\ AtRest'
        BY <2>2, <2>7, ExitAtRest, AtRestNext DEF Exit
      <3>2. QED
        BY <1>1, <2>3, <3>1 DEF HidingInv, Running
    <2>8. CASE Crash
      <3>1. phase' = "crashed"
        BY <2>8 DEF Crash
      <3>2. AtRest'
        BY <2>2, <2>8, <3>1, CrashAtRest, AtRestNext
      <3>3. QED
        BY <1>1, <2>3, <3>1, <3>2 DEF HidingInv, Running
    <2>9. CASE Start
      <3>1. phase' = "running" /\ Kept(desk)'
        BY <2>2, <2>9, StartKept, KeptNext DEF Start
      <3>2. QED
        BY <1>1, <2>3, <3>1 DEF HidingInv, Running
    <2>10. QED
      BY <1>3, <2>4, <2>5, <2>6, <2>7, <2>8, <2>9 DEF Next, Life
  <1>4. QED
    BY <1>2, <1>3

-----------------------------------------------------------------------------
(* The theorems *)

\* The strengthened invariant: while the daemon runs, every window's property
\* agrees with the lists and with what was done to the window, and no attached
\* display is without spaces; while it does not, nothing is listed, and after
\* an orderly exit nothing is hidden.
THEOREM HidingAlwaysKept ==
  ASSUME "recycle" \notin Env PROVE Spec => []HidingInv
  <1>1. HidingInv /\ [Next]_vars => HidingInv'
    BY StepHiding
  <1>2. QED
    BY <1>1, InitHiding, PTL DEF Spec

\* Whatever tracks, moves, hides, shows and forgets windows (track_window,
\* detach_window, set_window_visibility, reclaim_orphaned_windows), the TRACKED
\* bit is on a live window exactly when a space lists it, as long as a handle
\* is not reused before its death has been noticed.
THEOREM MarkedIffTrackedCorrect ==
  ASSUME "recycle" \notin Env PROVE Spec => []MarkedIffTracked
  <1>1. HidingInv => MarkedIffTracked
    BY DEF HidingInv, Kept, Books, Booked, MarkedIffTracked, Tracked
  <1>2. QED
    BY <1>1, HidingAlwaysKept, PTL

\* Whichever of the three ways set_window_visibility hides a window in, the
\* record of it is in the window's property as long as it is hidden, and no
\* window is under both cloaks: there is always a way back.
THEOREM HidingRecordedCorrect ==
  ASSUME Orderly PROVE Spec => []HidingRecorded
  <1>1. HidingInv => HidingRecorded
    <2> SUFFICES ASSUME HidingInv, NEW w \in Windows, desk.win[w].live
                 PROVE  Recorded(desk.win[w]) /\ desk.win[w].cloak # Layers
      BY DEF HidingRecorded
    <2>1. Sane(desk.win[w])
      BY DEF HidingInv, Kept, Books, Booked, AtRest
    <2>2. QED
      BY <2>1 DEF Sane, Safe
  <1>2. "recycle" \notin Env
    BY DEF Orderly
  <1>3. QED
    BY <1>1, <1>2, HidingAlwaysKept, PTL

\* A daemon that ends in order (windows_show_all) leaves no property, no cloak
\* and no window it has hidden, on whichever space each of them was.
THEOREM ExitReleasesCorrect ==
  ASSUME Orderly PROVE Spec => []ExitReleases
  <1>1. HidingInv => ExitReleases
    BY DEF HidingInv, AtRest, Running, ExitReleases, Free
  <1>2. "recycle" \notin Env
    BY DEF Orderly
  <1>3. QED
    BY <1>1, <1>2, HidingAlwaysKept, PTL

-----------------------------------------------------------------------------
(* A daemon that starts *)

\* The windows of S are on the spaces that their displays show.
LEMMA AtCurrentLands ==
  ASSUME NEW d, Sound(d), NEW S, NEW w \in S, MonitorOf(d, w) # NoMonitor
  PROVE  LET m == d.win[w].mon
             e == AtCurrent(d, S)
         IN  w \in e.spaces[m][e.current[m]]
  <1> DEFINE to == [v \in S |-> <<d.win[v].mon, d.current[d.win[v].mon]>>]
             m  == d.win[w].mon
             e  == AtCurrent(d, S)
  <1>1. d \in Desk /\ m \in Monitors /\ d.current[m] \in DOMAIN d.spaces[m]
    BY DEF Sound, MonitorOf, Table, Bounded
  <1>2. w \in DOMAIN to /\ to[w] = <<m, d.current[m]>>
    OBVIOUS
  <1>3. e = Place(d, to)
    BY DEF AtCurrent
  <1>4. e.current = d.current
    BY <1>1, <1>3 DEF Place, Desk
  <1> HIDE DEF to, e
  <1>5. e.spaces[m][d.current[m]] =
          (d.spaces[m][d.current[m]] \ DOMAIN to)
            \cup {v \in DOMAIN to : to[v] = <<m, d.current[m]>>}
    <2>1. \A i \in DOMAIN d.spaces[m] :
            Place(d, to).spaces[m][i] =
              (d.spaces[m][i] \ DOMAIN to) \cup {v \in DOMAIN to : to[v] = <<m, i>>}
      BY <1>1, PlaceSpaces, Zenon
    <2>2. Place(d, to).spaces[m][d.current[m]] =
            (d.spaces[m][d.current[m]] \ DOMAIN to)
              \cup {v \in DOMAIN to : to[v] = <<m, d.current[m]>>}
      BY ONLY <1>1, <2>1, Zenon
    <2>3. QED
      BY ONLY <1>3, <2>2, Zenon
  <1>6. QED
    BY <1>2, <1>4, <1>5 DEF e

\* A window with no property, and not hidden, is adopted by the scan where the
\* user sees it, or hidden as a system window.
LEMMA ScanAdopts ==
  ASSUME NEW d, Kept(d), NEW w \in Windows, d.win[w].prop = {}, Free(d.win[w])
  PROVE  LET e == Scan(d)
             x == e.win[w]
         IN  /\ "SYSTEM_HIDDEN" \notin x.prop => Free(x)
             /\ Valid(e, w) /\ x.mon \in Table(d) =>
                  w \in e.spaces[x.mon][e.current[x.mon]]
  <1> DEFINE p       == Prune(d)
             seen    == {v \in Windows : p.win[v].live /\ ~HasHiddenBit(p.win[v])}
             system  == {v \in seen \cap SystemWindows :
                           p.win[v].titled /\ "TRACKED" \notin p.win[v].prop}
             hide    == {v \in system : /\ "SYSTEM_HIDDEN" \notin p.win[v].prop
                                        /\ SystemWindowIsShowing(p.win[v])}
             found   == {v \in seen \ system : Valid(p, v) /\ MonitorOf(p, v) # NoMonitor}
             drifted == {v \in found : Tracked(p, v) /\ Home(p, v)[1] # p.win[v].mon}
             adopt   == {v \in found : ~Tracked(p, v)}
                          \cup (IF MayRehome(TRUE) THEN drifted ELSE {})
             win     == [v \in Windows |->
                           IF v \in hide THEN HideSystem(p.win[v]) ELSE p.win[v]]
             swept   == [p EXCEPT !.win = win]
             e       == Scan(d)
             x       == e.win[w]
             y       == d.win[w]
  <1>1. Kept(p) /\ d \in Desk /\ p \in Desk /\ Keeps(d, p)
    BY PruneKept, PruneKeeps DEF Kept, Tidy, Sound
  <1>2. p.win = d.win
    BY <1>1 DEF Prune, Desk
  <1>3. e = AtCurrent(swept, adopt)
    BY DEF Scan
  <1>4. y \in Window /\ ~HasHiddenBit(y) /\ y.cloak = {} /\ y.visible # "us"
        /\ "SYSTEM_HIDDEN" \notin y.prop /\ "TRACKED" \notin y.prop
    BY <1>1 DEF Desk, HasHiddenBit, Free
  <1>5. y.live => Places(p, w) = {}
    BY <1>1, <1>2 DEF Kept, Books, Booked
  <1>6. w \in hide <=> y.live /\ y.titled /\ w \in SystemWindows /\ y.visible = "yes"
    BY <1>2, <1>4 DEF SystemWindowIsShowing
  <1>7. w \in adopt <=> /\ y.live /\ (y.titled => w \notin SystemWindows)
                        /\ Valid(p, w) /\ MonitorOf(p, w) # NoMonitor
    BY <1>2, <1>4, <1>5 DEF Tracked
  <1>8. \A v \in adopt : v \in Windows
    OBVIOUS
  <1> HIDE DEF hide, adopt, p
  <1>9. win \in [Windows -> Window]
    BY <1>1, HideSystemType DEF Desk
  <1>10. win[w] = IF w \in hide THEN HideSystem(y) ELSE y
    BY <1>2
  <1> HIDE DEF win
  <1>11. Keeps(p, swept) /\ swept \in Desk /\ swept.win = win /\ swept.spaces = p.spaces
    BY <1>1, <1>9, WinKeeps DEF Keeps, Desk
  <1>12. Sound(swept)
    BY <1>1, <1>11, KeepsSound DEF Kept, Tidy
  <1> HIDE DEF swept
  <1>13. x = IF w \in adopt THEN Marked(win[w]) ELSE win[w]
    <2> DEFINE to == [v \in adopt |-> <<swept.win[v].mon, swept.current[swept.win[v].mon]>>]
    <2>1. e = Place(swept, to) /\ DOMAIN to = adopt
      BY <1>3 DEF AtCurrent
    <2> HIDE DEF to
    <2>2. QED
      BY <1>11, <2>1, PlaceWin
  <1> HIDE DEF e
  <1>14. CASE w \in hide
    <2>1. x = HideSystem(y) /\ y.visible = "yes"
      BY <1>6, <1>7, <1>10, <1>13, <1>14
    <2>2. "SYSTEM_HIDDEN" \in x.prop /\ x.visible = "app" /\ ~HasHiddenBit(x)
      BY <1>4, <2>1 DEF HideSystem, Window, HasHiddenBit, HIDDEN_MASK
    <2> HIDE DEF x
    <2>3. ~IsValid(x)
      BY <2>2 DEF IsValid
    <2>4. QED
      BY <2>2, <2>3 DEF Valid, x, e
  <1>15. CASE w \notin hide /\ w \in adopt
    <2>1. x = Marked(y) /\ win[w] = y
      BY <1>10, <1>13, <1>15
    <2>2. x.cloak = {} /\ x.visible # "us" /\ x.mon = y.mon
      BY <1>4, <2>1 DEF Marked, Window
    <2>3. MonitorOf(swept, w) # NoMonitor
      BY <1>2, <1>7, <1>11, <1>15, <2>1 DEF MonitorOf, Table
    <2>4. w \in e.spaces[y.mon][e.current[y.mon]]
      BY <1>3, <1>11, <1>12, <1>15, <2>1, <2>3, AtCurrentLands
    <2> HIDE DEF x, y
    <2>5. QED
      BY <2>2, <2>4 DEF Free, x, e
  <1>16. CASE w \notin hide /\ w \notin adopt
    <2>1. x = y
      BY <1>10, <1>13, <1>16
    <2>2. ASSUME Valid(e, w), x.mon \in Table(d) PROVE FALSE
      <3>1. IsValid(y) /\ y.live /\ y.titled /\ y.visible = "yes"
        BY <1>4, <2>1, <2>2 DEF Valid, IsValid
      <3>2. Valid(p, w) /\ w \notin SystemWindows
        BY <1>2, <1>6, <1>16, <3>1 DEF Valid
      <3>3. y.mon \in Monitors /\ y.mon \in Table(p)
        BY <1>1, <2>1, <2>2 DEF Table, Keeps, SameShape
      <3>4. MonitorOf(p, w) # NoMonitor
        BY <1>2, <3>3, SpacesAssumption DEF MonitorOf
      <3>5. QED
        BY <1>7, <1>16, <3>1, <3>2, <3>4
    <2>3. QED
      BY <2>1, <2>2 DEF Free, e
  <1>17. QED
    BY <1>14, <1>15, <1>16

\* The monitor table of a rebuilt desk is the attached displays.
LEMMA RebuiltTable ==
  ASSUME NEW d, Sound(d), plugged \in SUBSET Monitors
  PROVE  plugged \subseteq Table(Rebuilt(d))
  <1> DEFINE gone  == Table(d) \ plugged
             fresh == plugged \ Table(d)
             row   == [i \in 1..DefaultSpaces |-> {}]
             f     == Rebuilt(d)
  <1>1. d \in Desk
    BY DEF Sound
  <1>2. Len(row) > 0
    <2>1. DefaultSpaces \in Nat /\ DefaultSpaces > 0 /\ row \in [1..DefaultSpaces -> {{}}]
      BY SpacesAssumption
    <2>2. row \in Seq({{}}) /\ Len(row) = DefaultSpaces
      BY <2>1
    <2>3. QED
      BY <2>1, <2>2
  <1> HIDE DEF row
  <1>3. f.spaces = [m \in Monitors |-> IF m \in fresh THEN row
                                      ELSE IF m \in gone THEN <<>> ELSE d.spaces[m]]
    BY <1>1 DEF Rebuilt, Desk, row
  <1> HIDE DEF f
  <1>4. \A m \in plugged : Len(f.spaces[m]) > 0
    BY <1>2, <1>3 DEF Table
  <1>5. QED
    BY <1>4 DEF Table, f

\* Of a desk on which nothing is listed no window is loosed.
LEMMA RebuiltWin ==
  ASSUME NEW d, Sound(d), NEW w \in Windows, Places(d, w) = {}
  PROVE  Rebuilt(d).win[w] = d.win[w]
  <1> DEFINE loosed  == UNION {On(d, m) : m \in Table(d) \ plugged}
             win     == [v \in Windows |->
                           IF v \notin loosed THEN d.win[v]
                           ELSE IF v \in {u \in loosed : Valid(d, u)}
                           THEN Forgotten(Show(d.win[v], proxy))
                           ELSE Forgotten(d.win[v])]
  <1>1. w \notin loosed
    BY OnIsTracked DEF Table
  <1>2. Rebuilt(d).win = win
    BY DEF Rebuilt, Sound, Desk
  <1> HIDE DEF loosed
  <1>3. QED
    BY <1>1, <1>2

LEMMA StartBringsBack ==
  ASSUME HidingInv, Orderly, Start, NEW w \in Windows
  PROVE  LET x == desk'.win[w]
         IN  /\ "SYSTEM_HIDDEN" \notin x.prop => Free(x)
             /\ Valid(desk', w) /\ x.mon \in plugged =>
                  w \in desk'.spaces[x.mon][desk'.current[x.mon]]
  <1> DEFINE win == [v \in Windows |-> Reclaim(desk.win[v], proxy)]
             d == [desk EXCEPT !.win = win]
             e == Rebuilt(d)
  <1>1. /\ Tidy(desk) /\ desk \in Desk /\ proxy \in Proxies
        /\ plugged \in SUBSET Monitors
        /\ "topology" \notin Env => plugged = Monitors
        /\ \A v \in Windows : Sane(desk.win[v]) /\ Places(desk, v) = {}
    BY TidyParts DEF HidingInv, Given, AtRest, Start, Tidy, Sound, Flags
  <1>2. win \in [Windows -> Window]
    BY <1>1, ReclaimType DEF Desk
  <1>3. \A v \in Windows : Booked(win[v], {}) /\ win[v].prop = {} /\ Free(win[v])
    BY <1>1, ReclaimBooked
  <1>4. desk' = Scan(e)
    BY DEF Start
  <1> HIDE DEF win
  <1>5. Tidy(d) /\ Sound(d) /\ d.win = win /\ d.spaces = desk.spaces
    BY <1>1, <1>2, WinTidy DEF Desk, Tidy
  <1> HIDE DEF d
  <1>6. Books(d) /\ Places(d, w) = {}
    BY <1>1, <1>3, <1>5, SamePlaces DEF Books
  <1>7. Kept(e) /\ plugged \subseteq Table(e)
    BY <1>1, <1>5, <1>6, RebuiltKept, RebuiltTable
  <1>8. e.win[w] = win[w]
    BY <1>5, <1>6, RebuiltWin
  <1> HIDE DEF e
  <1>9. e.win[w].prop = {} /\ Free(e.win[w])
    BY <1>3, <1>8
  <1>10. QED
    BY <1>4, <1>7, <1>9, ScanAdopts

\* Whatever the last daemon had hidden when it was killed, and wherever it had
\* listed it, the next one brings back and tracks on the space its display
\* shows (reclaim_orphaned_windows, SpaceManager::new).
THEOREM StartRecoversCorrect ==
  ASSUME Orderly PROVE Spec => StartRecovers
  <1>1. ASSUME HidingInv, Next, ~Running, Running'
        PROVE  \A w \in Windows :
                 LET x == desk'.win[w] IN
                   /\ x.live /\ x.titled /\ "SYSTEM_HIDDEN" \notin x.prop =>
                        x.cloak = {} /\ x.visible # "us"
                   /\ Valid(desk', w) /\ x.mon \in plugged =>
                        w \in desk'.spaces[x.mon][desk'.current[x.mon]]
    <2>1. Start
      BY <1>1, Frame DEF Next, Life, Exit, Crash, Running
    <2>2. QED
      BY <1>1, <2>1, StartBringsBack DEF Free
  <1>2. HidingInv /\ [Next]_vars =>
          [~Running /\ Running' => \A w \in Windows :
             LET x == desk'.win[w] IN
                 /\ x.live /\ x.titled /\ "SYSTEM_HIDDEN" \notin x.prop =>
                      x.cloak = {} /\ x.visible # "us"
                 /\ Valid(desk', w) /\ x.mon \in plugged =>
                      w \in desk'.spaces[x.mon][desk'.current[x.mon]]]_vars
    BY <1>1, Zenon
  <1>3. "recycle" \notin Env
    BY DEF Orderly
  <1>4. Spec => []HidingInv
    BY <1>3, HidingAlwaysKept
  <1>5. QED
    BY <1>2, <1>4, PTL DEF Spec, StartRecovers

-----------------------------------------------------------------------------
(* Pins.  What the manager does on its own unpins the dead; to track a window *)
(* that fails the probe is to forget it, with its pin.                        *)

SameLives(d, e) == \A w \in Windows : e.win[w].live = d.win[w].live

UnpinsDead(d, e) == SameLives(d, e) /\ \A w \in d.pinned \ e.pinned : ~d.win[w].live

UnpinsInvalid(d, e) == SameLives(d, e) /\ \A w \in d.pinned \ e.pinned : ~Valid(d, w)

LEMMA UnpinsCompose ==
  ASSUME NEW d \in Desk, NEW e, NEW f
  PROVE  /\ UnpinsDead(d, e) /\ UnpinsDead(e, f) => UnpinsDead(d, f)
         /\ UnpinsInvalid(d, e) /\ UnpinsDead(e, f) => UnpinsInvalid(d, f)
         /\ UnpinsDead(d, e) => UnpinsInvalid(d, e)
         /\ UnpinsDead(d, d)
  <1>1. \A w \in d.pinned : w \in Windows
    BY DEF Desk
  <1>2. QED
    BY <1>1 DEF UnpinsDead, UnpinsInvalid, SameLives, Valid, IsValid

LEMMA SamePins ==
  ASSUME NEW d, NEW e, d.pinned \subseteq e.pinned, SameLives(d, e)
  PROVE  UnpinsDead(d, e)
  BY DEF UnpinsDead

LEMMA HideLive ==
  ASSUME NEW x \in Window, NEW a, NEW p
  PROVE  Hide(x, a, p).live = x.live
  BY DEF Hide, Window

LEMMA PlacePins ==
  ASSUME NEW d \in Desk, NEW to PROVE UnpinsDead(d, Place(d, to))
  <1>1. Place(d, to).pinned = d.pinned
    BY DEF Place, Desk
  <1>2. \A w \in Windows : Marked(d.win[w]).live = d.win[w].live
    BY DEF Marked, Desk, Window
  <1>3. SameLives(d, Place(d, to))
    BY <1>2, PlaceWin DEF SameLives
  <1>4. QED
    BY <1>1, <1>3, SamePins

LEMMA PrunePins ==
  ASSUME NEW d \in Desk PROVE UnpinsDead(d, Prune(d))
  <1>1. Prune(d).win = d.win /\ Prune(d).pinned = d.pinned \ {w \in Windows : ~d.win[w].live}
    BY DEF Prune, Desk
  <1>2. QED
    BY <1>1 DEF UnpinsDead, SameLives

LEMMA ScanPins ==
  ASSUME NEW d \in Desk PROVE UnpinsDead(d, Scan(d))
  <1> DEFINE p       == Prune(d)
             seen    == {w \in Windows : p.win[w].live /\ ~HasHiddenBit(p.win[w])}
             system  == {w \in seen \cap SystemWindows :
                           p.win[w].titled /\ "TRACKED" \notin p.win[w].prop}
             hide    == {w \in system : /\ "SYSTEM_HIDDEN" \notin p.win[w].prop
                                        /\ SystemWindowIsShowing(p.win[w])}
             found   == {w \in seen \ system : Valid(p, w) /\ MonitorOf(p, w) # NoMonitor}
             drifted == {w \in found : Tracked(p, w) /\ Home(p, w)[1] # p.win[w].mon}
             adopt   == {w \in found : ~Tracked(p, w)}
                          \cup (IF MayRehome(TRUE) THEN drifted ELSE {})
             win     == [w \in Windows |->
                           IF w \in hide THEN HideSystem(p.win[w]) ELSE p.win[w]]
             swept   == [p EXCEPT !.win = win]
  <1>1. Keeps(d, p) /\ p \in Desk /\ UnpinsDead(d, p)
    BY PruneKeeps, PrunePins DEF Keeps
  <1>2. Scan(d) = AtCurrent(swept, adopt)
    BY DEF Scan
  <1> HIDE DEF hide, adopt, p
  <1>3. win \in [Windows -> Window]
    BY <1>1, HideSystemType DEF Desk
  <1>4. \A w \in Windows : win[w].live = p.win[w].live
    BY <1>1 DEF HideSystem, Desk, Window
  <1> HIDE DEF win
  <1>5. swept \in Desk /\ swept.win = win /\ swept.pinned = p.pinned
    BY <1>1, <1>3 DEF Desk
  <1> HIDE DEF swept
  <1>6. UnpinsDead(p, swept)
    BY <1>4, <1>5, SamePins DEF SameLives
  <1>7. UnpinsDead(swept, AtCurrent(swept, adopt))
    BY <1>5, PlacePins DEF AtCurrent
  <1>8. QED
    BY <1>1, <1>2, <1>6, <1>7, UnpinsCompose

LEMMA RefreshPins ==
  ASSUME NEW d \in Desk, NEW M PROVE UnpinsDead(d, Refresh(d, M))
  <1> DEFINE up  == UNION {Up(d, m) : m \in M}
             on  == UNION {On(d, m) : m \in M}
             win == [w \in Windows |->
                       IF ~Valid(d, w) \/ w \notin on THEN d.win[w]
                       ELSE IF w \in up THEN Show(d.win[w], proxy)
                       ELSE Hide(d.win[w], showAll, proxy)]
  <1>1. \A w \in Windows : d.win[w] \in Window
    BY DEF Desk
  <1>2. Refresh(d, M).win = win /\ Refresh(d, M).pinned = d.pinned
    BY DEF Refresh, Desk
  <1> HIDE DEF up, on
  <1>3. \A w \in Windows : win[w].live = d.win[w].live
    BY <1>1, ShowKeeps, HideLive
  <1> HIDE DEF win
  <1>4. QED
    BY <1>2, <1>3, SamePins DEF SameLives

LEMMA FocusedPins ==
  ASSUME NEW d \in Desk, NEW w PROVE UnpinsDead(d, Focused(d, w))
  <1>1. Focused(d, w).win = d.win /\ Focused(d, w).pinned = d.pinned
    BY DEF Focused, Desk
  <1>2. QED
    BY <1>1, SamePins DEF SameLives

LEMMA SwitchFromPins ==
  ASSUME NEW d, Sound(d), NEW m \in Monitors, NEW i \in DOMAIN d.spaces[m],
         NEW a \in Windows \cup {NoWindow}, SwitchFrom(d, m, i, a),
         showAll \in BOOLEAN, proxy \in Proxies
  PROVE  UnpinsDead(d, desk')
  <1>1. PICK scanned \in {d, Scan(d)} :
          LET switched == Switch(scanned, m, i)
          IN  IF a # NoWindow THEN desk' = Focused(switched, a)
              ELSE \E w \in Landing(switched, m) : desk' = Focused(switched, w)
    BY DEF SwitchFrom
  <1> DEFINE next(left) == [scanned EXCEPT !.current[m] = i, !.focus = left]
  <1>2. d \in Desk /\ scanned \in Desk /\ UnpinsDead(d, scanned)
    BY ScanKeeps, ScanPins, UnpinsCompose DEF Sound, Keeps
  <1>3. PICK left \in SUBSET Windows : Switch(scanned, m, i) = Refresh(next(left), {m})
    <2> DEFINE left     == scanned.spaces[m][scanned.current[m]]
               remember == IF scanned.current[m] = i THEN scanned.focus
                           ELSE (scanned.focus \ left) \cup (left \cap {scanned.fg})
    <2>1. Switch(scanned, m, i) = Refresh(next(remember), {m})
      BY DEF Switch
    <2>2. remember \in SUBSET Windows
      <3>1. scanned.focus \in SUBSET Windows /\ scanned.fg \in Windows \cup {NoWindow}
        BY <1>2 DEF Desk
      <3>2. Sound(scanned) /\ Len(scanned.spaces[m]) > 0
        BY <1>2, ScanKeeps, KeepsSound, KeepsSelf, DomainIsLen DEF Keeps, SameShape
      <3>3. left \in SUBSET Windows
        BY <1>2, <3>2 DEF Sound, Bounded, Table, Desk
      <3> HIDE DEF left
      <3>4. QED
        BY <3>1, <3>3
    <2>3. QED
      BY <2>1, <2>2
  <1> DEFINE e == next(left)
  <1>4. e \in Desk /\ e.win = scanned.win /\ e.pinned = scanned.pinned
    <2>1. i \in Nat
      BY <1>2, DomainIsLen
    <2>2. QED
      BY <1>2, <2>1 DEF Desk
  <1> HIDE DEF e
  <1>5. UnpinsDead(scanned, e)
    BY <1>4, SamePins DEF SameLives
  <1> DEFINE switched == Refresh(e, {m})
  <1>6. UnpinsDead(e, switched) /\ Switch(scanned, m, i) = switched
    BY <1>3, <1>4, RefreshPins DEF e
  <1>7. switched \in Desk
    BY <1>4, RefreshKeeps DEF Keeps
  <1> HIDE DEF switched
  <1>8. \E w : desk' = Focused(switched, w)
    BY <1>1, <1>6
  <1>9. UnpinsDead(switched, desk')
    BY <1>7, <1>8, FocusedPins
  <1>10. QED
    BY <1>2, <1>4, <1>5, <1>6, <1>7, <1>9, UnpinsCompose

\* The methods that forget one window unpin no other.
UnpinsOnly(d, e, w) == SameLives(d, e) /\ d.pinned \ e.pinned \subseteq {w}

LEMMA WinAtPins ==
  ASSUME NEW d \in Desk, NEW w \in Windows, NEW x, x.live = d.win[w].live
  PROVE  UnpinsDead(d, [d EXCEPT !.win[w] = x])
  <1> DEFINE e == [d EXCEPT !.win[w] = x]
  <1>1. e.pinned = d.pinned /\ \A v \in Windows : e.win[v] = IF v = w THEN x ELSE d.win[v]
    BY DEF Desk
  <1> HIDE DEF e
  <1>2. UnpinsDead(d, e)
    BY <1>1, SamePins DEF SameLives
  <1>3. QED
    BY <1>2 DEF e

LEMMA DetachPins ==
  ASSUME NEW d \in Desk, NEW w \in Windows PROVE UnpinsDead(d, Detach(d, w))
  <1> DEFINE x == Forgotten(d.win[w])
             e == [d EXCEPT !.spaces = Dropped(@, {w}), !.win[w] = x]
  <1>1. x.live = d.win[w].live
    BY DEF Forgotten, Desk, Window
  <1> HIDE DEF x
  <1>2. e.pinned = d.pinned /\ \A v \in Windows : e.win[v] = IF v = w THEN x ELSE d.win[v]
    BY DEF Desk
  <1>3. Detach(d, w) = d \/ Detach(d, w) = e
    BY DEF Detach, x
  <1> HIDE DEF e
  <1>4. UnpinsDead(d, e)
    BY <1>1, <1>2, SamePins DEF SameLives
  <1>5. QED
    BY <1>3, <1>4, UnpinsCompose

LEMMA RemoveWindowPins ==
  ASSUME NEW d \in Desk, NEW w \in Windows PROVE UnpinsOnly(d, RemoveWindow(d, w), w)
  <1> DEFINE e == Detach(d, w)
  <1>1. e \in Desk /\ SameLives(d, e) /\ e.pinned = d.pinned
    BY DetachKeeps, DetachPins DEF Keeps, UnpinsDead, Detach, Desk
  <1> HIDE DEF e
  <1> DEFINE f == [e EXCEPT !.pinned = @ \ {w}, !.focus = @ \ {w}]
  <1>2. f.win = e.win /\ f.pinned = e.pinned \ {w}
    BY <1>1 DEF Desk
  <1>3. RemoveWindow(d, w) = f
    BY DEF RemoveWindow, e
  <1> HIDE DEF f
  <1>4. QED
    BY <1>1, <1>2, <1>3 DEF UnpinsOnly, SameLives

LEMMA UntrackedPins ==
  ASSUME NEW d \in Desk, NEW w \in Windows, proxy \in Proxies
  PROVE  UnpinsOnly(d, Untracked(d, w), w)
  <1> DEFINE e == IF MustRestoreBeforeUntrack(d.win[w])
                  THEN [d EXCEPT !.win[w] = Show(@, proxy)] ELSE d
  <1>1. Show(d.win[w], proxy) \in Window /\ Show(d.win[w], proxy).live = d.win[w].live
    BY ShowType, ShowKeeps DEF Desk
  <1>2. e \in Desk
    BY <1>1, WinAtKeeps DEF Keeps
  <1>3. SameLives(d, e)
    BY <1>1, WinAtPins DEF UnpinsDead, SameLives
  <1>4. e.pinned = d.pinned
    BY DEF Desk
  <1>5. Untracked(d, w) = RemoveWindow(e, w)
    BY DEF Untracked
  <1> HIDE DEF e
  <1>6. QED
    BY <1>2, <1>3, <1>4, <1>5, RemoveWindowPins DEF UnpinsOnly, SameLives

LEMMA TrackPins ==
  ASSUME NEW d \in Desk, NEW w \in Windows, NEW m, NEW i, proxy \in Proxies
  PROVE  /\ UnpinsOnly(d, Track(d, w, m, i), w)
         /\ Table(d) # {} /\ Valid(d, w) => UnpinsDead(d, Track(d, w, m, i))
         /\ Table(d) # {} => UnpinsInvalid(d, Track(d, w, m, i))
  <1>1. ASSUME NEW e, UnpinsDead(d, e), e.pinned = d.pinned
        PROVE  UnpinsOnly(d, e, w) /\ UnpinsInvalid(d, e)
    <2>1. UnpinsInvalid(d, e)
      BY <1>1, UnpinsCompose
    <2>2. UnpinsOnly(d, e, w)
      BY <1>1 DEF UnpinsOnly, UnpinsDead
    <2>3. QED
      BY <2>1, <2>2
  <1>2. \A to : UnpinsDead(d, Place(d, to)) /\ Place(d, to).pinned = d.pinned
    <2>1. \A to : UnpinsDead(d, Place(d, to))
      BY PlacePins
    <2>2. \A to : Place(d, to).pinned = d.pinned
      BY DEF Place, Desk
    <2>3. QED
      BY <2>1, <2>2
  <1>3. UnpinsDead(d, Detach(d, w)) /\ Detach(d, w).pinned = d.pinned
    BY DetachPins DEF Detach, Desk
  <1>4. UnpinsOnly(d, Untracked(d, w), w)
    BY UntrackedPins
  <1>5. ~Valid(d, w) => UnpinsInvalid(d, Untracked(d, w))
    BY <1>4 DEF UnpinsOnly, UnpinsInvalid
  <1>6. QED
    BY <1>1, <1>2, <1>3, <1>4, <1>5 DEF Track

LEMMA MigratedPins ==
  ASSUME NEW d \in Desk, NEW m \in Monitors, NEW i \in DOMAIN d.spaces[m], NEW j,
         proxy \in Proxies
  PROVE  UnpinsInvalid(d, Migrated(d, m, i, j))
  <1> DEFINE stays == {w \in d.spaces[m][i] : Valid(d, w)}
             goes  == d.spaces[m][i] \ stays
             to    == [w \in stays |-> <<m, j>>]
             moved == Place(d, to)
             win   == [w \in Windows |->
                         IF w \notin goes THEN moved.win[w]
                         ELSE IF MustRestoreBeforeUntrack(d.win[w])
                         THEN Forgotten(Show(d.win[w], proxy))
                         ELSE Forgotten(d.win[w])]
             e == Migrated(d, m, i, j)
  <1>1. moved.pinned = d.pinned
    BY DEF Place, Desk
  <1>2. SameLives(d, moved)
    BY PlacePins DEF UnpinsDead
  <1>3. e.pinned = moved.pinned \ goes /\ e.win = win
    BY DEF Migrated, Place, Desk
  <1>4. \A w \in goes : ~Valid(d, w)
    OBVIOUS
  <1>5. \A w \in Windows :
          /\ Forgotten(d.win[w]).live = d.win[w].live
          /\ Forgotten(Show(d.win[w], proxy)).live = d.win[w].live
    <2>1. \A x \in Window : Forgotten(x).live = x.live
      BY DEF Forgotten, Window
    <2>2. \A w \in Windows : /\ d.win[w] \in Window /\ Show(d.win[w], proxy) \in Window
                             /\ Show(d.win[w], proxy).live = d.win[w].live
      BY ShowType, ShowKeeps DEF Desk
    <2>3. QED
      BY <2>1, <2>2
  <1> HIDE DEF goes, moved
  <1>6. \A w \in Windows : win[w].live = d.win[w].live
    BY <1>2, <1>5 DEF SameLives
  <1> HIDE DEF win, e
  <1>7. QED
    BY <1>1, <1>3, <1>4, <1>6 DEF UnpinsInvalid, SameLives, e

LEMMA ShortenedPins ==
  ASSUME NEW d \in Desk, NEW m \in Monitors, NEW i \in DOMAIN d.spaces[m],
         proxy \in Proxies
  PROVE  UnpinsInvalid(d, Shortened(d, m, i))
  <1> DEFINE e == Migrated(d, m, i, RemovalMigrationTarget(i))
             f == [e EXCEPT !.spaces[m] = RemoveAt(@, i),
                            !.current[m] = RemapAfterRemoval(@, i)]
  <1>1. e \in Desk /\ UnpinsInvalid(d, e)
    BY MigratedKeeps, MigratedPins DEF Keeps
  <1> HIDE DEF e
  <1>2. f.win = e.win /\ f.pinned = e.pinned
    BY <1>1 DEF Desk
  <1>3. Shortened(d, m, i) = f
    BY DEF Shortened, e
  <1> HIDE DEF f
  <1>4. QED
    BY <1>1, <1>2, <1>3 DEF UnpinsInvalid, SameLives

LEMMA RebuiltPins ==
  ASSUME NEW d \in Desk, proxy \in Proxies PROVE UnpinsDead(d, Rebuilt(d))
  <1> DEFINE gone    == Table(d) \ plugged
             loosed  == UNION {On(d, m) : m \in gone}
             restore == {w \in loosed : Valid(d, w)}
             win     == [w \in Windows |->
                           IF w \notin loosed THEN d.win[w]
                           ELSE IF w \in restore THEN Forgotten(Show(d.win[w], proxy))
                           ELSE Forgotten(d.win[w])]
             e == Rebuilt(d)
  <1>1. e.win = win /\ e.pinned = {w \in d.pinned : d.win[w].live}
    BY DEF Rebuilt, Desk
  <1>2. \A x \in Window : Forgotten(x).live = x.live
    BY DEF Forgotten, Window
  <1>3. \A w \in Windows : /\ d.win[w] \in Window /\ Show(d.win[w], proxy) \in Window
                           /\ Show(d.win[w], proxy).live = d.win[w].live
    BY ShowType, ShowKeeps DEF Desk
  <1> HIDE DEF loosed, restore
  <1>4. \A w \in Windows : win[w].live = d.win[w].live
    BY <1>2, <1>3
  <1> HIDE DEF win, e
  <1>5. QED
    BY <1>1, <1>4 DEF UnpinsDead, SameLives, e

LEMMA PinPins ==
  ASSUME NEW d \in Desk, NEW w \in Windows, proxy \in Proxies
  PROVE  UnpinsDead(d, Pin(d, w))
  <1> DEFINE x == Show(d.win[w], proxy)
             e == [d EXCEPT !.pinned = @ \cup {w}, !.win[w] = x]
  <1>1. x.live = d.win[w].live
    BY ShowKeeps DEF Desk
  <1> HIDE DEF x
  <1>2. /\ e.pinned = d.pinned \cup {w}
        /\ \A v \in Windows : e.win[v] = IF v = w THEN x ELSE d.win[v]
    BY DEF Desk
  <1>3. Pin(d, w) = d \/ Pin(d, w) = e
    BY DEF Pin, x
  <1> HIDE DEF e
  <1>4. UnpinsDead(d, e)
    BY <1>1, <1>2, SamePins DEF SameLives
  <1>5. QED
    BY <1>3, <1>4, UnpinsCompose

LEMMA UnpinPins ==
  ASSUME NEW d \in Desk, NEW w \in Windows, proxy \in Proxies
  PROVE  UnpinsOnly(d, Unpin(d, w), w)
  <1> DEFINE e == [d EXCEPT !.pinned = @ \ {w}]
  <1>1. e \in Desk /\ e.win = d.win /\ e.pinned = d.pinned \ {w}
    BY DEF Desk
  <1>2. Unpin(d, w) = e \/ \E m, i : Unpin(d, w) = Track(e, w, m, i)
    BY DEF Unpin
  <1> HIDE DEF e
  <1>3. UnpinsOnly(d, e, w)
    BY <1>1 DEF UnpinsOnly, SameLives
  <1>4. \A m, i : UnpinsOnly(e, Track(e, w, m, i), w)
    BY <1>1, TrackPins
  <1>5. \A m, i : UnpinsOnly(d, Track(e, w, m, i), w)
    BY <1>1, <1>4 DEF UnpinsOnly, SameLives
  <1>6. QED
    BY <1>2, <1>3, <1>5

\* Rules are restored while a display is attached.
RulesHaveDisplays == "rules" \in Env => "topology" \notin Env

LEMMA CommandPins ==
  ASSUME HidingInv, RulesHaveDisplays, Command, NEW v \in desk.pinned \ desk'.pinned
  PROVE  ~Valid(desk, v) \/ TogglePin(v)
  <1>1. Sound(desk) /\ desk \in Desk /\ showAll \in BOOLEAN /\ proxy \in Proxies
    BY TidyParts DEF HidingInv, Tidy, Sound, Flags
  <1>2. ASSUME UnpinsInvalid(desk, desk') PROVE ~Valid(desk, v)
    BY <1>2 DEF UnpinsInvalid
  <1>3. ASSUME UnpinsDead(desk, desk') PROVE ~Valid(desk, v)
    BY <1>1, <1>2, <1>3, UnpinsCompose
  <1>4. ASSUME desk.pinned \subseteq desk'.pinned PROVE FALSE
    BY <1>4
  <1>5. ASSUME NEW m \in Monitors, NEW i \in Indices,
               GoToSpace(m, i) \/ TraySwitch(m, i)
        PROVE  ~Valid(desk, v)
    <2>1. i \in DOMAIN desk.spaces[m] /\ SwitchFrom(desk, m, i, NoWindow)
      BY <1>5 DEF GoToSpace, TraySwitch
    <2>2. QED
      BY <1>1, <1>3, <2>1, SwitchFromPins
  <1>6. ASSUME NEW m \in Monitors, NEW i \in Indices, MoveToSpace(m, i)
        PROVE  ~Valid(desk, v)
    <2> DEFINE d == Track(desk, desk.fg, m, i)
    <2>1. /\ desk.fg \in Windows /\ Valid(desk, desk.fg)
          /\ i \in DOMAIN desk.spaces[m] /\ m \in Table(desk)
          /\ SwitchFrom(d, m, i, desk.fg)
      BY <1>1, <1>6 DEF MoveToSpace, Desk
    <2>2. Keeps(desk, d) /\ UnpinsDead(desk, d)
      BY <1>1, <2>1, TrackKeeps, TrackPins
    <2> HIDE DEF d
    <2>3. Sound(d) /\ i \in DOMAIN d.spaces[m]
      BY <1>1, <2>1, <2>2, KeepsSound, DomainIsLen DEF Keeps, SameShape
    <2>4. UnpinsDead(d, desk')
      BY <1>1, <2>1, <2>3, SwitchFromPins
    <2>5. UnpinsDead(desk, desk')
      BY <1>1, <2>2, <2>4, UnpinsCompose
    <2>6. QED
      BY <1>3, <2>5
  <1>7. ASSUME NEW m \in Monitors, NEW i \in Indices, RemoveSpace(m, i)
        PROVE  ~Valid(desk, v)
    <2> DEFINE d == Shortened(desk, m, i)
    <2>1. /\ i \in DOMAIN desk.spaces[m] /\ Len(desk.spaces[m]) > 1
          /\ SwitchFrom(d, m, d.current[m], NoWindow)
      BY <1>7 DEF RemoveSpace
    <2>2. Sound(d) /\ d.current[m] \in DOMAIN d.spaces[m] /\ UnpinsInvalid(desk, d)
      BY <1>1, <2>1, ShortenedSound, ShortenedPins
    <2> HIDE DEF d
    <2>3. UnpinsDead(d, desk')
      BY <1>1, <2>1, <2>2, SwitchFromPins
    <2>4. UnpinsInvalid(desk, desk')
      BY <1>1, <2>2, <2>3, UnpinsCompose
    <2>5. QED
      BY <1>2, <2>4
  <1>8. ASSUME NEW m \in Monitors, NEW i \in Indices, NEW j \in Indices,
               ReorderSpace(m, i, j)
        PROVE  FALSE
    <2>1. PICK row, now :
            desk' = [desk EXCEPT !.spaces[m] = row, !.current[m] = now]
      BY <1>8, Zenon DEF ReorderSpace
    <2>2. desk'.pinned = desk.pinned
      BY <1>1, <2>1 DEF Desk
    <2>3. QED
      BY <1>4, <2>2
  <1>9. ASSUME NEW m \in Monitors, AddSpace(m) PROVE FALSE
    BY <1>1, <1>9 DEF AddSpace, Added, Desk
  <1>10. ASSUME NEW w \in Windows, NEW m \in Monitors, NEW i \in Indices,
                MoveWindowToSpace(w, m, i)
         PROVE  ~Valid(desk, v)
    <2>1. Valid(desk, w) /\ m \in Table(desk) /\ desk' = Track(desk, w, m, i)
      BY <1>10 DEF MoveWindowToSpace, Cards
    <2>2. UnpinsDead(desk, desk')
      BY <1>1, <2>1, TrackPins
    <2>3. QED
      BY <1>3, <2>2
  <1>11. ASSUME NEW w \in Windows, NEW m \in Monitors, NEW i \in Indices,
                NEW s \in BOOLEAN, RestoreWorkspaceRules(w, m, i, s)
         PROVE  ~Valid(desk, v)
    <2>1. PICK minimized \in BOOLEAN, landed \in {desk.win[w].mon} \cup ({m} \cap plugged) :
            LET put    == [desk EXCEPT !.win[w] =
                             [@ EXCEPT !.visible = "yes", !.iconic = minimized,
                                       !.mon = landed]]
                placed == Track(put, w, m, i)
                pinned == IF s /\ Tracked(placed, w) THEN Pin(placed, w) ELSE placed
            IN  \E scanned \in (IF Table(pinned) = {} THEN {pinned}
                                ELSE {pinned, Scan(pinned)}) :
                  LET shown == Refresh(scanned, Table(scanned))
                  IN  \E f \in {NoWindow} \cup UNION {Landing(shown, n) : n \in Table(shown)} :
                        desk' = Focused(shown, f)
      BY <1>11 DEF RestoreWorkspaceRules
    <2> DEFINE x      == [desk.win[w] EXCEPT !.visible = "yes", !.iconic = minimized,
                                             !.mon = landed]
               put    == [desk EXCEPT !.win[w] = x]
               placed == Track(put, w, m, i)
               pinned == IF s /\ Tracked(placed, w) THEN Pin(placed, w) ELSE placed
    <2>2. Kept(desk) /\ "rules" \in Env /\ Valid(desk, w)
      BY <1>11 DEF HidingInv, RestoreWorkspaceRules
    <2>3. x \in Window /\ x.live = desk.win[w].live /\ IsValid(x)
      <3>1. desk.win[w] \in Window /\ landed \in Monitors /\ IsValid(desk.win[w])
        BY <1>1, <2>2, TidyParts DEF Desk, Window, Valid, HidingInv, Flags
      <3>2. /\ x \in Window /\ x.live = desk.win[w].live /\ x.titled = desk.win[w].titled
            /\ x.visible = "yes" /\ x.cloak = desk.win[w].cloak /\ x.prop = desk.win[w].prop
        BY <3>1 DEF Window
      <3> HIDE DEF x
      <3>3. QED
        BY <3>1, <3>2 DEF IsValid, ExternallyCloaked
    <2> HIDE DEF x
    <2>4. /\ UnpinsDead(desk, put) /\ put \in Desk /\ Valid(put, w)
          /\ put.spaces = desk.spaces
      BY <1>1, <2>3, WinAtPins, WinAtKeeps DEF Keeps, Valid, Desk
    <2>5. Table(put) # {}
      BY <2>2, <2>4 DEF RulesHaveDisplays, Kept, Full, Table
    <2> HIDE DEF put
    <2>6. UnpinsDead(put, placed) /\ placed \in Desk
      BY <1>1, <2>4, <2>5, TrackPins, TrackKeeps DEF Keeps
    <2> HIDE DEF placed
    <2>7. UnpinsDead(placed, pinned) /\ pinned \in Desk
      BY <1>1, <2>6, PinPins, PinKeeps, UnpinsCompose DEF Keeps
    <2> HIDE DEF pinned
    <2>8. PICK scanned \in {pinned, Scan(pinned)} :
            LET shown == Refresh(scanned, Table(scanned))
            IN  \E f : desk' = Focused(shown, f)
      <3>1. \E scanned \in (IF Table(pinned) = {} THEN {pinned}
                            ELSE {pinned, Scan(pinned)}) :
              LET shown == Refresh(scanned, Table(scanned))
              IN  \E f \in {NoWindow} \cup UNION {Landing(shown, n) : n \in Table(shown)} :
                    desk' = Focused(shown, f)
        BY <2>1 DEF pinned, placed, put, x
      <3>2. QED
        BY <3>1
    <2> DEFINE shown == Refresh(scanned, Table(scanned))
    <2>9. UnpinsDead(pinned, scanned) /\ scanned \in Desk
      BY <2>7, <2>8, ScanPins, ScanKeeps, UnpinsCompose DEF Keeps
    <2>10. UnpinsDead(scanned, shown) /\ shown \in Desk
      BY <1>1, <2>9, RefreshPins, RefreshKeeps DEF Keeps
    <2> HIDE DEF shown
    <2>11. UnpinsDead(shown, desk')
      BY <2>8, <2>10, FocusedPins DEF shown
    <2>12. UnpinsDead(desk, placed)
      BY <1>1, <2>4, <2>6, UnpinsCompose
    <2>13. UnpinsDead(desk, pinned)
      BY <1>1, <2>7, <2>12, UnpinsCompose
    <2>14. UnpinsDead(desk, scanned)
      BY <1>1, <2>9, <2>13, UnpinsCompose
    <2>15. UnpinsDead(desk, shown)
      BY <1>1, <2>10, <2>14, UnpinsCompose
    <2>16. UnpinsDead(desk, desk')
      BY <1>1, <2>11, <2>15, UnpinsCompose
    <2>17. QED
      BY <1>3, <2>16
  <1>12. ASSUME NEW w \in Windows, NEW m \in Monitors, MoveWindowToNewSpace(w, m)
         PROVE  ~Valid(desk, v)
    <2> DEFINE d == Added(desk, m)
    <2>1. /\ m \in Table(desk) /\ Valid(desk, w) /\ desk' = Track(d, w, m, Len(d.spaces[m]))
          /\ Len(desk.spaces[m]) < MaxSpaces
      BY <1>12 DEF MoveWindowToNewSpace, Cards
    <2>2. Sound(d) /\ d \in Desk
      BY <1>1, <2>1, AddedSound DEF Sound
    <2>3. d.win = desk.win /\ d.pinned = desk.pinned
      BY <1>1 DEF Added, Desk
    <2>4. m \in Table(d)
      <3>1. m \in Monitors /\ desk.spaces[m] \in Seq(SUBSET Windows)
        BY <1>1, <2>1 DEF Table, Desk
      <3>2. d.spaces[m] = Append(desk.spaces[m], {})
        BY <1>1, <3>1 DEF Added, Desk
      <3>3. Len(d.spaces[m]) > 0
        BY <3>1, <3>2
      <3>4. QED
        BY <3>1, <3>3 DEF Table
    <2> HIDE DEF d
    <2>5. UnpinsDead(desk, d) /\ UnpinsDead(d, desk')
      <3>1. UnpinsDead(desk, d)
        BY <2>3, SamePins DEF SameLives
      <3>2. Valid(d, w)
        BY <2>1, <2>3 DEF Valid
      <3>3. QED
        BY <1>1, <2>1, <2>2, <2>4, <3>1, <3>2, TrackPins
    <2>6. UnpinsDead(desk, desk')
      BY <1>1, <2>5, UnpinsCompose
    <2>7. QED
      BY <1>3, <2>6
  <1>13. ASSUME NEW w \in Windows, TogglePin(w)
         PROVE  ~Valid(desk, v) \/ TogglePin(v)
    <2>1. desk' = IF w \in desk.pinned THEN Unpin(desk, w) ELSE Pin(desk, w)
      BY <1>13 DEF TogglePin
    <2>2. CASE w \notin desk.pinned
      BY <1>1, <1>3, <2>1, <2>2, PinPins
    <2>3. CASE w \in desk.pinned
      <3>1. UnpinsOnly(desk, desk', w)
        BY <1>1, <2>1, <2>3, UnpinPins
      <3>2. v = w
        BY <3>1 DEF UnpinsOnly
      <3>3. QED
        BY <1>13, <3>2
    <2>4. QED
      BY <2>2, <2>3
  <1>14. ASSUME SetShowAllTaskbar PROVE FALSE
    BY <1>1, <1>14 DEF SetShowAllTaskbar, Desk
  <1>15. QED
    BY <1>5, <1>6, <1>7, <1>8, <1>9, <1>10, <1>11, <1>12, <1>13, <1>14 DEF Command

LEMMA EventPins ==
  ASSUME HidingInv, Event, NEW v \in desk.pinned \ desk'.pinned
  PROVE  ~Valid(desk, v)
  <1>1. Sound(desk) /\ desk \in Desk /\ showAll \in BOOLEAN /\ proxy \in Proxies
    BY TidyParts DEF HidingInv, Tidy, Sound, Flags
  <1>2. ASSUME UnpinsInvalid(desk, desk') PROVE ~Valid(desk, v)
    BY <1>2 DEF UnpinsInvalid
  <1>3. ASSUME UnpinsDead(desk, desk') PROVE ~Valid(desk, v)
    BY <1>1, <1>2, <1>3, UnpinsCompose
  <1>4. ASSUME NEW w \in Windows, Activated(w) PROVE ~Valid(desk, v)
    <2> DEFINE adopted == IF Tracked(desk, w) THEN desk ELSE AtCurrent(desk, {w})
               home    == Home(adopted, w)
               sits    == MonitorOf(adopted, w)
               moved   == sits \notin {NoMonitor, home[1]} /\ MayRehome(TRUE)
               rehomed == Track(adopted, w, sits, adopted.current[sits])
    <2>1. /\ w \notin desk.pinned
          /\ Tracked(desk, w) \/ MonitorOf(desk, w) # NoMonitor
          /\ \/ desk' = rehomed
             \/ SwitchFrom(adopted, home[1], home[2], w)
             \/ desk' = adopted
      BY <1>4 DEF Activated
    <2>2. Keeps(desk, adopted) /\ Tracked(adopted, w)
      BY <1>1, <2>1, AdoptedIsTracked, AtCurrentKeeps, KeepsSelf
    <2>3. UnpinsDead(desk, adopted) /\ desk.pinned \subseteq adopted.pinned
      <3>1. \A to : Place(desk, to).pinned = desk.pinned
        BY <1>1 DEF Place, Desk
      <3>2. QED
        BY <1>1, <3>1, PlacePins, UnpinsCompose DEF AtCurrent
    <2> HIDE DEF adopted
    <2>4. Sound(adopted) /\ adopted \in Desk
      BY <1>1, <2>2, KeepsSound DEF Sound
    <2>5. CASE desk' = rehomed
      <3>1. UnpinsOnly(adopted, desk', w)
        BY <1>1, <2>4, <2>5, TrackPins
      <3>2. FALSE
        BY <2>1, <2>3, <3>1 DEF UnpinsOnly
      <3>3. QED
        BY <3>2
    <2>6. CASE SwitchFrom(adopted, home[1], home[2], w)
      <3>1. home[1] \in Monitors /\ home[2] \in DOMAIN adopted.spaces[home[1]]
        BY <2>2, HomeIsPlace
      <3> HIDE DEF home
      <3>2. UnpinsDead(adopted, desk')
        BY <1>1, <2>4, <2>6, <3>1, SwitchFromPins
      <3>3. UnpinsDead(desk, desk')
        BY <1>1, <2>3, <3>2, UnpinsCompose
      <3>4. QED
        BY <1>3, <3>3
    <2>7. CASE desk' = adopted
      BY <1>3, <2>3, <2>7
    <2>8. QED
      BY <2>1, <2>5, <2>6, <2>7
  <1>5. ASSUME NEW w \in Windows, WindowDestroyed(w) PROVE ~Valid(desk, v)
    <2>1. ~Valid(desk, w) /\ UnpinsOnly(desk, desk', w)
      BY <1>1, <1>5, RemoveWindowPins DEF WindowDestroyed, Valid, IsValid
    <2>2. QED
      BY <2>1 DEF UnpinsOnly
  <1>6. ASSUME NEW w \in Windows, AdoptUntracked(w) PROVE ~Valid(desk, v)
    BY <1>1, <1>3, <1>6, PlacePins DEF AdoptUntracked, AtCurrent
  <1>7. ASSUME NEW w \in Windows, MoveSizeEnd(w) PROVE ~Valid(desk, v)
    <2>1. /\ MonitorOf(desk, w) # NoMonitor
          /\ \E m, i : desk' = Track(desk, w, m, i)
      BY <1>7 DEF MoveSizeEnd
    <2>2. Table(desk) # {}
      BY <2>1 DEF MonitorOf
    <2>3. UnpinsInvalid(desk, desk')
      BY <1>1, <2>1, <2>2, TrackPins
    <2>4. QED
      BY <1>2, <2>3
  <1>8. ASSUME ScanWindows \/ CloseVerify PROVE ~Valid(desk, v)
    BY <1>1, <1>3, <1>8, ScanPins, PrunePins DEF ScanWindows, CloseVerify
  <1>9. QED
    BY <1>4, <1>5, <1>6, <1>7, <1>8 DEF Event

LEMMA TimerPins ==
  ASSUME HidingInv, Timer, NEW v \in desk.pinned \ desk'.pinned
  PROVE  ~Valid(desk, v)
  <1>1. Sound(desk) /\ desk \in Desk /\ plugged \in SUBSET Monitors /\ proxy \in Proxies
    BY TidyParts DEF HidingInv, Tidy, Sound, Flags
  <1>2. CASE SettleElapses \/ SuppressionElapses \/ DisplayChange \/ SessionChange
    BY <1>2 DEF SettleElapses, SuppressionElapses, DisplayChange, SessionChange
  <1>3. CASE Reconcile
    <2> DEFINE d == Rebuilt(desk)
    <2>1. UnpinsDead(desk, d) /\ d \in Desk /\ desk' = Scan(d)
      BY <1>1, <1>3, RebuiltPins, RebuiltSound DEF Reconcile, Sound
    <2> HIDE DEF d
    <2>2. UnpinsDead(d, desk')
      BY <2>1, ScanPins
    <2>3. UnpinsDead(desk, desk')
      BY <1>1, <2>1, <2>2, UnpinsCompose
    <2>4. UnpinsInvalid(desk, desk')
      BY <1>1, <2>3, UnpinsCompose
    <2>5. QED
      BY <2>4 DEF UnpinsInvalid
  <1>4. QED
    BY <1>2, <1>3 DEF Timer

LEMMA EnvironmentPins ==
  ASSUME TypedAndBounded, Environment PROVE desk'.pinned = desk.pinned
  <1>1. desk \in Desk
    BY DEF TypedAndBounded, TypeOK
  <1>2. ASSUME NEW w, NEW x, Alter(w, x) PROVE desk'.pinned = desk.pinned
    BY <1>1, <1>2 DEF Alter, Desk
  <1>3. ASSUME NEW w, \/ Open(w) \/ Retitle(w) \/ AppHide(w) \/ AppShow(w)
                      \/ Minimize(w) \/ Restore(w) \/ \E m \in Monitors : Drag(w, m)
        PROVE  desk'.pinned = desk.pinned
    <2>1. \E x : Alter(w, x)
      BY <1>3, Zenon DEF Open, Retitle, AppHide, AppShow, Minimize, Restore, Drag
    <2>2. QED
      BY <1>2, <2>1
  <1>4. ASSUME NEW w, Close(w) \/ Focus(w) PROVE desk'.pinned = desk.pinned
    BY <1>1, <1>4 DEF Close, Focus, Desk
  <1>5. ASSUME NEW p, ShellChanges(p) PROVE desk'.pinned = desk.pinned
    BY <1>5 DEF ShellChanges
  <1>6. ASSUME NEW S, PlugOrUnplug(S) PROVE desk'.pinned = desk.pinned
    BY <1>1, <1>6 DEF PlugOrUnplug, Desk
  <1>7. QED
    BY <1>3, <1>4, <1>5, <1>6 DEF Environment

\* Whatever is moved, dragged, re-homed, tracked anew, adopted or migrated
\* (detach_window keeps the pin where remove_window drops it), a window that
\* passes the probe is unpinned by the user alone.  Rules that are restored
\* with no display attached are excepted: they make track_window forget the
\* window they match.
THEOREM PinSurvivesCorrect ==
  ASSUME "recycle" \notin Env, RulesHaveDisplays PROVE Spec => PinSurvives
  <1>1. ASSUME HidingInv, Next, Running, Running', NEW w \in desk.pinned \ desk'.pinned
        PROVE  ~Valid(desk, w) \/ ~desk'.win[w].live \/ TogglePin(w)
    <2>1. CASE Command \/ Event \/ Timer
      BY <1>1, <2>1, CommandPins, EventPins, TimerPins
    <2>2. CASE Environment
      BY <1>1, <2>2, EnvironmentPins DEF HidingInv, TypedBoundedApart
    <2>3. CASE Life
      BY <1>1, <2>3 DEF Life, Exit, Crash, Start, Running
    <2>4. QED
      BY <1>1, <2>1, <2>2, <2>3 DEF Next
  <1>2. HidingInv /\ [Next]_vars =>
          [Running /\ Running' =>
             \A w \in desk.pinned \ desk'.pinned :
               ~Valid(desk, w) \/ ~desk'.win[w].live \/ TogglePin(w)]_vars
    BY <1>1, Zenon
  <1>3. Spec => []HidingInv
    BY HidingAlwaysKept
  <1>4. QED
    BY <1>2, <1>3, PTL DEF Spec, PinSurvives

-----------------------------------------------------------------------------
(* Pinned windows stay up, and manageable ones tracked.  While the daemon     *)
(* runs the TRACKED bit says who is listed, so that most of the argument is   *)
(* about the bits a method writes.                                            *)

\* Where displays come and go, windows keep their titles, no application hides
\* its own and none is on the list of system windows: a window that loses its
\* display when the probe rejects it is adopted by no scan.
Adoptable == "topology" \in Env => SystemWindows = {} /\ "hide" \notin Env

\* As a window looks to the probe, y is no worse than x.
Alike(x, y) ==
  /\ y.live = x.live
  /\ "topology" \in Env /\ SystemWindows = {} =>
       /\ y.titled = x.titled /\ y.mon = x.mon
       /\ y.visible = "app" => x.visible = "app"
       /\ "SYSTEM_HIDDEN" \in y.prop => "SYSTEM_HIDDEN" \in x.prop

Lighter(x, y) == HasHiddenBit(y) => HasHiddenBit(x)

StaysMarked(x, y) == "TRACKED" \in x.prop => "TRACKED" \in y.prop

Firm(y) == ~HasHiddenBit(y) /\ "TRACKED" \in y.prop

\* No window pinned in e is worse off there than it was, pinned, in d.
PinsFollow(d, e) ==
  Orderly => \A w \in e.pinned : e.win[w].live =>
    \/ Firm(e.win[w])
    \/ w \in d.pinned /\ Lighter(d.win[w], e.win[w]) /\ StaysMarked(d.win[w], e.win[w])

\* Between d and e a method has untracked no window ...
Follows(d, e) ==
  /\ PinsFollow(d, e)
  /\ \A w \in Windows : Alike(d.win[w], e.win[w]) /\ StaysMarked(d.win[w], e.win[w])

\* ... or none that passes the probe.
FollowsValid(d, e) ==
  /\ PinsFollow(d, e)
  /\ \A w \in Windows :
       Alike(d.win[w], e.win[w]) /\ (Valid(d, w) => StaysMarked(d.win[w], e.win[w]))

LEMMA PinsCompose ==
  ASSUME NEW d, NEW e, NEW f, PinsFollow(d, e), PinsFollow(e, f),
         \A w \in Windows : f.win[w].live = e.win[w].live,
         f.pinned \subseteq Windows
  PROVE  PinsFollow(d, f)
  BY DEF PinsFollow, Firm, Lighter, StaysMarked

LEMMA FollowsCompose ==
  ASSUME NEW d, NEW e, NEW f \in Desk, Follows(e, f)
  PROVE  /\ Follows(d, e) => Follows(d, f)
         /\ FollowsValid(d, e) => FollowsValid(d, f)
  <1>1. f.pinned \subseteq Windows
    BY DEF Desk
  <1>2. PinsFollow(d, e) => PinsFollow(d, f)
    BY <1>1, PinsCompose DEF Follows, Alike
  <1>3. \A w \in Windows : /\ Alike(d.win[w], e.win[w]) => Alike(d.win[w], f.win[w])
                           /\ StaysMarked(d.win[w], e.win[w]) =>
                                StaysMarked(d.win[w], f.win[w])
    BY DEF Follows, Alike, StaysMarked
  <1>4. QED
    BY <1>2, <1>3 DEF Follows, FollowsValid

LEMMA FollowsIsValid ==
  ASSUME NEW d, NEW e, Follows(d, e) PROVE FollowsValid(d, e)
  BY DEF Follows, FollowsValid

\* The methods that pin nothing and put no bit on a pinned window.
LEMMA FollowsFrom ==
  ASSUME NEW d \in Desk, NEW e, e.pinned \subseteq d.pinned,
         \A w \in Windows : /\ Alike(d.win[w], e.win[w])
                            /\ StaysMarked(d.win[w], e.win[w])
                            /\ w \in e.pinned => Lighter(d.win[w], e.win[w])
  PROVE  Follows(d, e)
  <1>1. \A w \in e.pinned : w \in Windows /\ w \in d.pinned
    BY DEF Desk
  <1>2. PinsFollow(d, e)
    BY <1>1 DEF PinsFollow
  <1>3. QED
    BY <1>2 DEF Follows

LEMMA SameFollows ==
  ASSUME NEW d \in Desk, NEW e, e.win = d.win, e.pinned \subseteq d.pinned
  PROVE  Follows(d, e)
  BY FollowsFrom DEF Alike, StaysMarked, Lighter

-----------------------------------------------------------------------------

LEMMA ShowAlike ==
  ASSUME NEW x \in Window, NEW p
  PROVE  Alike(x, Show(x, p)) /\ StaysMarked(x, Show(x, p)) /\ Lighter(x, Show(x, p))
  <1> DEFINE y == Show(x, p)
  <1>1. /\ y.live = x.live /\ y.titled = x.titled /\ y.mon = x.mon
        /\ "TRACKED" \in y.prop <=> "TRACKED" \in x.prop
        /\ "SYSTEM_HIDDEN" \in y.prop <=> "SYSTEM_HIDDEN" \in x.prop
        /\ x.prop = {} => y = x
    BY ShowKeeps
  <1>2. CASE x.prop = {}
    BY <1>1, <1>2 DEF Alike, StaysMarked, Lighter
  <1>3. CASE x.prop # {}
    <2>1. /\ y.visible = IF ComesBack(x) THEN "yes" ELSE x.visible
          /\ y.prop = ShownProp(x, p)
      BY <1>3, ShowIs
    <2> HIDE DEF y
    <2>2. y.visible = "app" => x.visible = "app"
      BY <2>1
    <2>3. Lighter(x, y)
      BY <2>1 DEF Lighter, ShownProp, SurvivingBit, HasHiddenBit, HIDDEN_MASK
    <2>4. QED
      BY <1>1, <2>2, <2>3 DEF Alike, StaysMarked, y
  <1>4. QED
    BY <1>2, <1>3

LEMMA HideAlike ==
  ASSUME NEW x \in Window, NEW a, NEW p
  PROVE  Alike(x, Hide(x, a, p)) /\ StaysMarked(x, Hide(x, a, p))
  <1> DEFINE y == Hide(x, a, p)
  <1>1. /\ y.live = x.live /\ y.titled = x.titled /\ y.mon = x.mon
        /\ y.visible = "app" => x.visible = "app"
    BY DEF Hide, Window
  <1>2. /\ "TRACKED" \in x.prop => "TRACKED" \in y.prop
        /\ "SYSTEM_HIDDEN" \in y.prop => "SYSTEM_HIDDEN" \in x.prop
    BY DEF Hide, Window
  <1> HIDE DEF y
  <1>3. QED
    BY <1>1, <1>2 DEF Alike, StaysMarked, y

LEMMA MarkedAlike ==
  ASSUME NEW x \in Window
  PROVE  /\ Alike(x, Marked(x)) /\ StaysMarked(x, Marked(x)) /\ Lighter(x, Marked(x))
         /\ "TRACKED" \in Marked(x).prop
         /\ IsValid(x) => IsValid(Marked(x))
  <1> DEFINE y == Marked(x)
  <1>1. /\ y.live = x.live /\ y.titled = x.titled /\ y.mon = x.mon
        /\ y.visible = x.visible /\ y.cloak = x.cloak /\ y.prop = TrackedProp(x)
    BY DEF Marked, Window
  <1>2. /\ "TRACKED" \in y.prop /\ "SYSTEM_HIDDEN" \notin y.prop
        /\ y.prop \cap HIDDEN_MASK = x.prop \cap HIDDEN_MASK
    BY <1>1 DEF TrackedProp, HIDDEN_MASK
  <1>3. y.prop \cap {"CLOAKED", "SHELL_CLOAKED"} = x.prop \cap {"CLOAKED", "SHELL_CLOAKED"}
    BY <1>2 DEF HIDDEN_MASK
  <1> HIDE DEF y
  <1>4. Alike(x, y) /\ StaysMarked(x, y) /\ Lighter(x, y)
    BY <1>1, <1>2 DEF Alike, StaysMarked, Lighter, HasHiddenBit
  <1>5. IsValid(x) => IsValid(y)
    BY <1>1, <1>2, <1>3 DEF IsValid, ExternallyCloaked, HasHiddenBit
  <1>6. QED
    BY <1>2, <1>4, <1>5 DEF y

LEMMA ForgottenAlike ==
  ASSUME NEW x \in Window
  PROVE  /\ Alike(x, Forgotten(x)) /\ Lighter(x, Forgotten(x))
         /\ Forgotten(x).prop = {} /\ Forgotten(x).visible = x.visible
  BY DEF Alike, Lighter, Forgotten, Window, HasHiddenBit

LEMMA AlikeCompose ==
  ASSUME NEW x, NEW y, NEW z, Alike(x, y), Alike(y, z) PROVE Alike(x, z)
  BY DEF Alike

LEMMA LetGoAlike ==
  ASSUME NEW x \in Window, proxy \in Proxies
  PROVE  Alike(x, Forgotten(Show(x, proxy)))
  BY ShowType, ShowAlike, ForgottenAlike, AlikeCompose

-----------------------------------------------------------------------------

LEMMA PlaceFollows ==
  ASSUME NEW d \in Desk, NEW to
  PROVE  /\ Follows(d, Place(d, to))
         /\ \A w \in Windows : Valid(d, w) => Valid(Place(d, to), w)
         /\ \A w \in Windows : w \in DOMAIN to => "TRACKED" \in Place(d, to).win[w].prop
  <1>1. Place(d, to).pinned = d.pinned /\ \A w \in Windows : d.win[w] \in Window
    BY DEF Place, Desk
  <1>2. \A w \in Windows :
          Place(d, to).win[w] = IF w \in DOMAIN to THEN Marked(d.win[w]) ELSE d.win[w]
    BY PlaceWin
  <1>3. \A w \in Windows :
          LET x == d.win[w]
              y == Place(d, to).win[w]
          IN  /\ Alike(x, y) /\ StaysMarked(x, y) /\ Lighter(x, y)
              /\ IsValid(x) => IsValid(y)
              /\ w \in DOMAIN to => "TRACKED" \in y.prop
    <2>1. \A x : Alike(x, x) /\ StaysMarked(x, x) /\ Lighter(x, x)
      BY DEF Alike, StaysMarked, Lighter
    <2>2. QED
      BY <1>1, <1>2, <2>1, MarkedAlike
  <1>4. Follows(d, Place(d, to))
    BY <1>1, <1>3, FollowsFrom
  <1>5. QED
    BY <1>3, <1>4 DEF Valid

LEMMA PruneFollows ==
  ASSUME NEW d \in Desk PROVE Follows(d, Prune(d))
  <1>1. Prune(d).win = d.win /\ Prune(d).pinned \subseteq d.pinned
    BY DEF Prune, Desk
  <1>2. QED
    BY <1>1, SameFollows

LEMMA HideSystemAlike ==
  ASSUME NEW x \in Window
  PROVE  /\ HideSystem(x).live = x.live
         /\ StaysMarked(x, HideSystem(x)) /\ Lighter(x, HideSystem(x))
  BY DEF HideSystem, Window, StaysMarked, Lighter, HasHiddenBit, HIDDEN_MASK

LEMMA ScanFollows ==
  ASSUME NEW d \in Desk PROVE Follows(d, Scan(d))
  <1> DEFINE p       == Prune(d)
             seen    == {w \in Windows : p.win[w].live /\ ~HasHiddenBit(p.win[w])}
             system  == {w \in seen \cap SystemWindows :
                           p.win[w].titled /\ "TRACKED" \notin p.win[w].prop}
             hide    == {w \in system : /\ "SYSTEM_HIDDEN" \notin p.win[w].prop
                                        /\ SystemWindowIsShowing(p.win[w])}
             found   == {w \in seen \ system : Valid(p, w) /\ MonitorOf(p, w) # NoMonitor}
             drifted == {w \in found : Tracked(p, w) /\ Home(p, w)[1] # p.win[w].mon}
             adopt   == {w \in found : ~Tracked(p, w)}
                          \cup (IF MayRehome(TRUE) THEN drifted ELSE {})
             win     == [w \in Windows |->
                           IF w \in hide THEN HideSystem(p.win[w]) ELSE p.win[w]]
             swept   == [p EXCEPT !.win = win]
  <1>1. Keeps(d, p) /\ p \in Desk /\ Follows(d, p)
    BY PruneKeeps, PruneFollows DEF Keeps
  <1>2. Scan(d) = AtCurrent(swept, adopt)
    BY DEF Scan
  <1>3. hide \subseteq SystemWindows /\ adopt \subseteq Windows
    OBVIOUS
  <1> HIDE DEF hide, adopt, p
  <1>4. win \in [Windows -> Window]
    BY <1>1, HideSystemType DEF Desk
  <1>5. \A w \in Windows : /\ Alike(p.win[w], win[w])
                           /\ StaysMarked(p.win[w], win[w])
                           /\ Lighter(p.win[w], win[w])
    <2>1. ASSUME NEW w \in Windows, w \notin hide
          PROVE  win[w] = p.win[w]
      BY <2>1
    <2>2. ASSUME NEW w \in Windows, w \in hide
          PROVE  /\ win[w] = HideSystem(p.win[w])
                 /\ SystemWindows # {} /\ p.win[w] \in Window
      BY <1>1, <1>3, <2>2 DEF Desk
    <2> HIDE DEF win
    <2>3. QED
      BY <2>1, <2>2, HideSystemAlike DEF Alike, StaysMarked, Lighter
  <1> HIDE DEF win
  <1>6. swept \in Desk /\ swept.win = win /\ swept.pinned = p.pinned
    BY <1>1, <1>4 DEF Desk
  <1> HIDE DEF swept
  <1>7. Follows(p, swept)
    BY <1>1, <1>5, <1>6, FollowsFrom
  <1>8. Follows(swept, AtCurrent(swept, adopt)) /\ AtCurrent(swept, adopt) \in Desk
    BY <1>3, <1>6, PlaceFollows, AtCurrentKeeps DEF AtCurrent, Keeps
  <1>9. Follows(d, swept)
    BY <1>1, <1>6, <1>7, FollowsCompose
  <1>10. QED
    BY <1>2, <1>8, <1>9, FollowsCompose

\* A visibility pass hides no pinned window: those of a display are all among
\* what belongs up on it.
LEMMA RefreshFollows ==
  ASSUME NEW d \in Desk, NEW M PROVE Follows(d, Refresh(d, M))
  <1> DEFINE up  == UNION {Up(d, m) : m \in M}
             on  == UNION {On(d, m) : m \in M}
             win == [w \in Windows |->
                       IF ~Valid(d, w) \/ w \notin on THEN d.win[w]
                       ELSE IF w \in up THEN Show(d.win[w], proxy)
                       ELSE Hide(d.win[w], showAll, proxy)]
  <1>1. \A w \in Windows : d.win[w] \in Window
    BY DEF Desk
  <1>2. Refresh(d, M).win = win /\ Refresh(d, M).pinned = d.pinned
    BY DEF Refresh, Desk
  <1>3. \A w \in d.pinned : w \in on => w \in up
    BY DEF Up
  <1> HIDE DEF up, on
  <1>4. \A w \in Windows : /\ Alike(d.win[w], win[w]) /\ StaysMarked(d.win[w], win[w])
                           /\ w \in d.pinned => Lighter(d.win[w], win[w])
    <2> SUFFICES ASSUME NEW w \in Windows
                 PROVE  /\ Alike(d.win[w], win[w]) /\ StaysMarked(d.win[w], win[w])
                        /\ w \in d.pinned => Lighter(d.win[w], win[w])
      OBVIOUS
    <2>1. CASE ~Valid(d, w) \/ w \notin on
      <3>1. win[w] = d.win[w]
        BY <2>1
      <3> HIDE DEF win
      <3>2. QED
        BY <3>1 DEF Alike, StaysMarked, Lighter
    <2>2. CASE ~(~Valid(d, w) \/ w \notin on) /\ w \in up
      <3>1. win[w] = Show(d.win[w], proxy)
        BY <2>2
      <3> HIDE DEF win
      <3>2. QED
        BY <1>1, <3>1, ShowAlike
    <2>3. CASE ~(~Valid(d, w) \/ w \notin on) /\ w \notin up
      <3>1. win[w] = Hide(d.win[w], showAll, proxy) /\ w \notin d.pinned
        BY <1>3, <2>3
      <3> HIDE DEF win
      <3>2. QED
        BY <1>1, <3>1, HideAlike
    <2>4. QED
      BY <2>1, <2>2, <2>3
  <1> HIDE DEF win
  <1>5. QED
    BY <1>2, <1>4, FollowsFrom

LEMMA FocusedFollows ==
  ASSUME NEW d \in Desk, NEW w PROVE Follows(d, Focused(d, w))
  <1>1. Focused(d, w).win = d.win /\ Focused(d, w).pinned = d.pinned
    BY DEF Focused, Desk
  <1>2. QED
    BY <1>1, SameFollows

LEMMA SwitchFromFollows ==
  ASSUME NEW d, Sound(d), NEW m \in Monitors, NEW i \in DOMAIN d.spaces[m],
         NEW a \in Windows \cup {NoWindow}, SwitchFrom(d, m, i, a),
         showAll \in BOOLEAN, proxy \in Proxies
  PROVE  Follows(d, desk')
  <1>1. PICK scanned \in {d, Scan(d)} :
          LET switched == Switch(scanned, m, i)
          IN  IF a # NoWindow THEN desk' = Focused(switched, a)
              ELSE \E w \in Landing(switched, m) : desk' = Focused(switched, w)
    BY DEF SwitchFrom
  <1> DEFINE left     == scanned.spaces[m][scanned.current[m]]
             remember == IF scanned.current[m] = i THEN scanned.focus
                         ELSE (scanned.focus \ left) \cup (left \cap {scanned.fg})
             e        == [scanned EXCEPT !.current[m] = i, !.focus = remember]
             switched == Refresh(e, {m})
  <1>2. Keeps(d, scanned) /\ Follows(d, scanned)
    BY ScanKeeps, ScanFollows, KeepsSelf, SameFollows DEF Sound
  <1>3. scanned \in Desk /\ Sound(scanned)
    BY <1>2, KeepsSound DEF Keeps
  <1>4. Switch(scanned, m, i) = switched
    BY DEF Switch
  <1>5. e \in Desk
    <2>1. i \in Nat
      BY DomainIsLen DEF Sound
    <2>2. left \in SUBSET Windows
      <3>1. scanned.current[m] \in DOMAIN scanned.spaces[m]
        BY <1>2, <1>3, DomainIsLen DEF Sound, Bounded, Keeps, SameShape
      <3>2. QED
        BY <1>3, <3>1, DomainIsLen
    <2> HIDE DEF left
    <2>3. remember \in SUBSET Windows
      BY <1>3, <2>2 DEF Desk
    <2> HIDE DEF remember
    <2>4. QED
      BY <1>3, <2>1, <2>3 DEF Desk
  <1>6. e.win = scanned.win /\ e.pinned = scanned.pinned
    BY <1>3 DEF Desk
  <1> HIDE DEF e
  <1>7. Follows(scanned, e)
    BY <1>3, <1>6, SameFollows
  <1>8. Follows(e, switched) /\ switched \in Desk
    BY <1>5, RefreshFollows, RefreshKeeps DEF Keeps
  <1> HIDE DEF switched
  <1>9. PICK v \in Windows \cup {NoWindow} : desk' = Focused(switched, v)
    <2>1. CASE a # NoWindow
      BY <1>1, <1>4, <2>1
    <2>2. CASE a = NoWindow
      <3>1. Sound(switched) /\ m \in Table(switched)
        BY <1>2, <1>3, <1>4, SwitchSound, DomainIsLen DEF Keeps, SameShape, Table, Sound
      <3>2. PICK v \in Landing(switched, m) : desk' = Focused(switched, v)
        BY <1>1, <1>4, <2>2
      <3>3. QED
        BY <3>1, <3>2, LandingType
    <2>3. QED
      BY <2>1, <2>2
  <1>10. Follows(switched, desk') /\ desk' \in Desk
    BY <1>8, <1>9, FocusedFollows, FocusedKeeps DEF Keeps
  <1>11. Follows(d, e)
    BY <1>2, <1>5, <1>7, FollowsCompose
  <1>12. Follows(d, switched)
    BY <1>8, <1>11, FollowsCompose
  <1>13. QED
    BY <1>10, <1>12, FollowsCompose

\* Two windows records and pins that differ in one window, which is not pinned
\* afterwards.
LEMMA ForgetsInvalid ==
  ASSUME NEW d \in Desk, NEW e, NEW w \in Windows, ~Valid(d, w),
         e.pinned \subseteq d.pinned \ {w},
         \A v \in Windows \ {w} : e.win[v] = d.win[v],
         Alike(d.win[w], e.win[w])
  PROVE  FollowsValid(d, e)
  <1>1. \A v \in Windows : v # w => /\ Alike(d.win[v], e.win[v])
                                    /\ StaysMarked(d.win[v], e.win[v])
                                    /\ Lighter(d.win[v], e.win[v])
    BY DEF Alike, StaysMarked, Lighter
  <1>2. \A v \in e.pinned : v \in Windows /\ v # w /\ v \in d.pinned
    BY DEF Desk
  <1>3. PinsFollow(d, e)
    BY <1>1, <1>2 DEF PinsFollow
  <1>4. QED
    BY <1>1, <1>3 DEF FollowsValid

LEMMA RemoveWindowFields ==
  ASSUME NEW d \in Desk, NEW w \in Windows
  PROVE  LET e == RemoveWindow(d, w) IN
           /\ e.pinned = d.pinned \ {w}
           /\ \A v \in Windows \ {w} : e.win[v] = d.win[v]
           /\ e.win[w] = d.win[w] \/ e.win[w] = Forgotten(d.win[w])
  <1> DEFINE e == Detach(d, w)
             f == [e EXCEPT !.pinned = @ \ {w}, !.focus = @ \ {w}]
  <1>1. /\ e.pinned = d.pinned
        /\ \A v \in Windows \ {w} : e.win[v] = d.win[v]
        /\ e.win[w] = d.win[w] \/ e.win[w] = Forgotten(d.win[w])
    BY DEF Detach, Desk
  <1>2. e \in Desk
    BY DetachKeeps DEF Keeps
  <1> HIDE DEF e
  <1>3. f.pinned = e.pinned \ {w} /\ f.win = e.win
    BY <1>2 DEF Desk
  <1>4. RemoveWindow(d, w) = f
    BY DEF RemoveWindow, e
  <1> HIDE DEF f
  <1>5. QED
    BY <1>1, <1>3, <1>4

LEMMA RemoveWindowFollows ==
  ASSUME NEW d \in Desk, NEW w \in Windows, ~Valid(d, w)
  PROVE  FollowsValid(d, RemoveWindow(d, w))
  <1> DEFINE e == RemoveWindow(d, w)
  <1>1. /\ e.pinned = d.pinned \ {w}
        /\ \A v \in Windows \ {w} : e.win[v] = d.win[v]
        /\ e.win[w] = d.win[w] \/ e.win[w] = Forgotten(d.win[w])
    BY RemoveWindowFields
  <1> HIDE DEF e
  <1>2. d.win[w] \in Window
    BY DEF Desk
  <1>3. Alike(d.win[w], d.win[w]) /\ Alike(d.win[w], Forgotten(d.win[w]))
    BY <1>2, ForgottenAlike DEF Alike
  <1>4. Alike(d.win[w], e.win[w])
    BY <1>1, <1>3
  <1>5. FollowsValid(d, e)
    BY <1>1, <1>4, ForgetsInvalid
  <1>6. QED
    BY <1>5 DEF e

LEMMA UntrackedFollows ==
  ASSUME NEW d \in Desk, NEW w \in Windows, ~Valid(d, w), proxy \in Proxies
  PROVE  FollowsValid(d, Untracked(d, w))
  <1> DEFINE r == IF MustRestoreBeforeUntrack(d.win[w])
                  THEN [d EXCEPT !.win[w] = Show(@, proxy)] ELSE d
             e == RemoveWindow(r, w)
  <1>1. /\ d.win[w] \in Window /\ Show(d.win[w], proxy) \in Window
        /\ Alike(d.win[w], Show(d.win[w], proxy)) /\ Alike(d.win[w], d.win[w])
    BY ShowType, ShowAlike DEF Desk, Alike
  <1>2. /\ r \in Desk /\ r.pinned = d.pinned
        /\ \A v \in Windows \ {w} : r.win[v] = d.win[v]
        /\ r.win[w] = d.win[w] \/ r.win[w] = Show(d.win[w], proxy)
    BY <1>1, WinAtKeeps DEF Keeps, Desk
  <1> HIDE DEF r
  <1>3. /\ e.pinned = r.pinned \ {w}
        /\ \A v \in Windows \ {w} : e.win[v] = r.win[v]
        /\ e.win[w] = r.win[w] \/ e.win[w] = Forgotten(r.win[w])
    BY <1>2, RemoveWindowFields
  <1>4. Untracked(d, w) = e
    BY DEF Untracked, r
  <1> HIDE DEF e
  <1>5. Alike(d.win[w], r.win[w]) /\ r.win[w] \in Window
    BY <1>1, <1>2
  <1>6. Alike(d.win[w], e.win[w])
    BY <1>3, <1>5, ForgottenAlike, AlikeCompose
  <1>7. FollowsValid(d, e)
    BY <1>2, <1>3, <1>6, ForgetsInvalid
  <1>8. QED
    BY <1>4, <1>7

\* track_window lets go only of what the probe rejects, as long as there is a
\* display to track the window on.
LEMMA TrackFollows ==
  ASSUME NEW d \in Desk, NEW w \in Windows, NEW m, NEW i, proxy \in Proxies,
         m \in Table(d) \/ MonitorOf(d, w) # NoMonitor
  PROVE  /\ FollowsValid(d, Track(d, w, m, i))
         /\ Valid(d, w) => Follows(d, Track(d, w, m, i))
  <1>1. Table(d) # {}
    BY DEF MonitorOf
  <1>2. NoMonitor \notin Table(d)
    BY SpacesAssumption DEF Table
  <1>3. CASE ~Valid(d, w)
    BY <1>3, UntrackedFollows DEF Track
  <1>4. CASE Valid(d, w)
    <2>1. \E to : Track(d, w, m, i) = Place(d, to)
      BY <1>1, <1>2, <1>4 DEF Track
    <2>2. Follows(d, Track(d, w, m, i))
      BY <2>1, PlaceFollows
    <2>3. QED
      BY <2>2, FollowsIsValid
  <1>5. QED
    BY <1>3, <1>4

LEMMA MigratedFollows ==
  ASSUME NEW d \in Desk, NEW m \in Monitors, NEW i \in DOMAIN d.spaces[m], NEW j,
         proxy \in Proxies
  PROVE  FollowsValid(d, Migrated(d, m, i, j))
  <1> DEFINE stays == {w \in d.spaces[m][i] : Valid(d, w)}
             goes  == d.spaces[m][i] \ stays
             to    == [w \in stays |-> <<m, j>>]
             moved == Place(d, to)
             win   == [w \in Windows |->
                         IF w \notin goes THEN moved.win[w]
                         ELSE IF MustRestoreBeforeUntrack(d.win[w])
                         THEN Forgotten(Show(d.win[w], proxy))
                         ELSE Forgotten(d.win[w])]
             e == Migrated(d, m, i, j)
  <1>1. moved.pinned = d.pinned /\ Follows(d, moved)
    <2>1. moved.pinned = d.pinned
      BY DEF Place, Desk
    <2>2. Follows(d, moved)
      BY PlaceFollows
    <2>3. QED
      BY <2>1, <2>2
  <1>2. e.pinned = moved.pinned \ goes /\ e.win = win
    BY DEF Migrated, Place, Desk
  <1>3. \A w \in goes : ~Valid(d, w)
    OBVIOUS
  <1>4. \A w \in Windows : /\ Alike(d.win[w], Forgotten(d.win[w]))
                           /\ Alike(d.win[w], Forgotten(Show(d.win[w], proxy)))
    BY ForgottenAlike, LetGoAlike DEF Desk
  <1>5. d.pinned \subseteq Windows
    BY DEF Desk
  <1> HIDE DEF goes, moved
  <1>6. \A w \in Windows : /\ w \notin goes => win[w] = moved.win[w]
                           /\ w \in goes => Alike(d.win[w], win[w])
    BY <1>4
  <1> HIDE DEF win, e
  <1>7. PinsFollow(d, e)
    BY <1>1, <1>2, <1>5, <1>6 DEF PinsFollow, Follows
  <1>8. \A w \in Windows : /\ Alike(d.win[w], e.win[w])
                           /\ Valid(d, w) => StaysMarked(d.win[w], e.win[w])
    BY <1>1, <1>2, <1>3, <1>6 DEF Follows
  <1>9. QED
    BY <1>7, <1>8 DEF FollowsValid, e

LEMMA ShortenedFollows ==
  ASSUME NEW d, Sound(d), NEW m \in Monitors, NEW i \in DOMAIN d.spaces[m],
         Len(d.spaces[m]) > 1, proxy \in Proxies
  PROVE  FollowsValid(d, Shortened(d, m, i))
  <1> DEFINE e == Migrated(d, m, i, RemovalMigrationTarget(i))
             f == [e EXCEPT !.spaces[m] = RemoveAt(@, i),
                            !.current[m] = RemapAfterRemoval(@, i)]
  <1>1. e \in Desk /\ FollowsValid(d, e)
    BY MigratedKeeps, MigratedFollows DEF Keeps, Sound
  <1> HIDE DEF e
  <1>2. f.win = e.win /\ f.pinned = e.pinned
    BY <1>1 DEF Desk
  <1>3. Shortened(d, m, i) = f
    BY DEF Shortened, e
  <1> HIDE DEF f
  <1>4. f \in Desk
    BY <1>3, ShortenedSound DEF Sound
  <1>5. QED
    BY <1>1, <1>2, <1>3, <1>4, SameFollows, FollowsCompose

\* To pin a tracked window is to show it, which leaves nothing of a hide.
LEMMA PinFollows ==
  ASSUME NEW d, Kept(d), NEW w \in Windows, Tracked(d, w), proxy \in Proxies
  PROVE  Follows(d, Pin(d, w))
  <1> DEFINE x == Show(d.win[w], proxy)
             e == [d EXCEPT !.pinned = @ \cup {w}, !.win[w] = x]
  <1>1. d \in Desk /\ d.win[w] \in Window /\ Booked(d.win[w], Places(d, w))
    BY DEF Kept, Books, Tidy, Sound, Desk
  <1>2. Alike(d.win[w], x) /\ StaysMarked(d.win[w], x)
    BY <1>1, ShowAlike
  <1>3. Orderly /\ x.live => Firm(x)
    <2>1. x.live => "TRACKED" \in x.prop
      BY <1>1, <1>2 DEF Booked, Tracked, Alike, StaysMarked
    <2>2. Orderly => ~HasHiddenBit(x)
      BY <1>1, ShowFrees DEF Booked, Sane
    <2> HIDE DEF x
    <2>3. QED
      BY <2>1, <2>2 DEF Firm
  <1> HIDE DEF x
  <1>4. /\ e.pinned = d.pinned \cup {w}
        /\ \A v \in Windows : e.win[v] = IF v = w THEN x ELSE d.win[v]
    BY <1>1 DEF Desk
  <1>5. Pin(d, w) = d \/ Pin(d, w) = e
    BY DEF Pin, x
  <1> HIDE DEF e
  <1>6. Follows(d, e)
    <2>1. \A v \in e.pinned : v \in Windows /\ (v \in d.pinned \/ v = w)
      BY <1>1, <1>4 DEF Desk
    <2>2. PinsFollow(d, e)
      BY <1>3, <1>4, <2>1 DEF PinsFollow, Lighter, StaysMarked
    <2>3. QED
      BY <1>2, <1>4, <2>2 DEF Follows, Alike, StaysMarked
  <1>7. Follows(d, d)
    BY <1>1, SameFollows
  <1>8. QED
    BY <1>5, <1>6, <1>7

LEMMA UnpinFollows ==
  ASSUME NEW d, Kept(d), NEW w \in Windows, Tracked(d, w), proxy \in Proxies
  PROVE  FollowsValid(d, Unpin(d, w))
  <1> DEFINE home == Home(d, w)
             e    == [d EXCEPT !.pinned = @ \ {w}]
  <1>1. d \in Desk
    BY DEF Kept, Tidy, Sound
  <1>2. e \in Desk /\ e.win = d.win /\ e.spaces = d.spaces /\ e.pinned \subseteq d.pinned
    BY <1>1 DEF Desk
  <1>3. Unpin(d, w) = e \/ \E i : Unpin(d, w) = Track(e, w, home[1], i)
    BY DEF Unpin
  <1>4. home[1] \in Monitors /\ home[2] \in DOMAIN d.spaces[home[1]]
    BY HomeIsPlace
  <1> HIDE DEF e, home
  <1>5. home[1] \in Table(e)
    BY <1>1, <1>2, <1>4, DomainIsLen DEF Table
  <1>6. \A i : FollowsValid(e, Track(e, w, home[1], i))
    BY <1>2, <1>5, TrackFollows
  <1>7. Follows(d, e)
    BY <1>1, <1>2, SameFollows
  <1>8. \A f : FollowsValid(e, f) => FollowsValid(d, f)
    BY <1>1, <1>2 DEF FollowsValid, PinsFollow, Valid
  <1>9. QED
    BY <1>3, <1>6, <1>7, <1>8, FollowsIsValid

LEMMA RehideFollows ==
  ASSUME NEW d \in Desk, NEW a, proxy \in Proxies
  PROVE  Follows(d, [d EXCEPT !.win = [w \in Windows |->
                      IF /\ Valid(d, w)
                         /\ \E m \in Table(d) : w \in On(d, m) \ Up(d, m)
                      THEN Hide(Show(d.win[w], proxy), a, proxy)
                      ELSE d.win[w]]])
  <1> DEFINE off == {w \in Windows : /\ Valid(d, w)
                                     /\ \E m \in Table(d) : w \in On(d, m) \ Up(d, m)}
             win == [w \in Windows |->
                      IF /\ Valid(d, w)
                         /\ \E m \in Table(d) : w \in On(d, m) \ Up(d, m)
                      THEN Hide(Show(d.win[w], proxy), a, proxy)
                      ELSE d.win[w]]
             e   == [d EXCEPT !.win = win]
  <1>1. \A w \in off : w \notin d.pinned
    BY DEF Up
  <1>2. \A w \in Windows : win[w] = IF w \in off THEN Hide(Show(d.win[w], proxy), a, proxy)
                                    ELSE d.win[w]
    OBVIOUS
  <1>3. e.win = win /\ e.pinned = d.pinned
    BY DEF Desk
  <1> HIDE DEF off, win
  <1>4. \A w \in Windows : /\ Alike(d.win[w], Hide(Show(d.win[w], proxy), a, proxy))
                           /\ StaysMarked(d.win[w], Hide(Show(d.win[w], proxy), a, proxy))
    <2>1. \A w \in Windows : d.win[w] \in Window /\ Show(d.win[w], proxy) \in Window
      BY ShowType DEF Desk
    <2>2. QED
      BY <2>1, ShowAlike, HideAlike, AlikeCompose DEF StaysMarked
  <1> HIDE DEF e
  <1>5. \A w \in Windows : /\ Alike(d.win[w], e.win[w]) /\ StaysMarked(d.win[w], e.win[w])
                           /\ w \in e.pinned => Lighter(d.win[w], e.win[w])
    BY <1>1, <1>2, <1>3, <1>4 DEF Alike, StaysMarked, Lighter
  <1>6. Follows(d, e)
    BY <1>3, <1>5, FollowsFrom
  <1>7. QED
    BY <1>6 DEF e, win

-----------------------------------------------------------------------------

LEMMA FollowsThenValid ==
  ASSUME NEW d, NEW e, NEW f \in Desk, Follows(d, e),
         \A w \in Windows : Valid(d, w) => Valid(e, w), FollowsValid(e, f)
  PROVE  FollowsValid(d, f)
  <1>1. f.pinned \subseteq Windows
    BY DEF Desk
  <1>2. PinsFollow(d, f)
    BY <1>1, PinsCompose DEF Follows, FollowsValid, Alike
  <1>3. \A w \in Windows : /\ Alike(d.win[w], f.win[w])
                           /\ Valid(d, w) => StaysMarked(d.win[w], f.win[w])
    BY DEF Follows, FollowsValid, Alike, StaysMarked
  <1>4. QED
    BY <1>2, <1>3 DEF FollowsValid

\* A command untracks no window that passes the probe and hides no pinned one.
LEMMA CommandFollows ==
  ASSUME HidingInv, RulesHaveDisplays, Command PROVE FollowsValid(desk, desk')
  <1>1. Sound(desk) /\ desk \in Desk /\ showAll \in BOOLEAN /\ proxy \in Proxies
    BY TidyParts DEF HidingInv, Tidy, Sound, Flags
  <1>2. desk' \in Desk /\ (Running => Kept(desk))
    BY CommandKept DEF Kept, Tidy, Sound, HidingInv
  <1>3. ASSUME Follows(desk, desk') PROVE FollowsValid(desk, desk')
    BY <1>3, FollowsIsValid
  <1>4. ASSUME NEW m \in Monitors, NEW i \in Indices,
               GoToSpace(m, i) \/ TraySwitch(m, i)
        PROVE  FollowsValid(desk, desk')
    <2>1. i \in DOMAIN desk.spaces[m] /\ SwitchFrom(desk, m, i, NoWindow)
      BY <1>4 DEF GoToSpace, TraySwitch
    <2>2. Follows(desk, desk')
      BY <1>1, <2>1, SwitchFromFollows
    <2>3. QED
      BY <1>3, <2>2
  <1>5. ASSUME NEW m \in Monitors, NEW i \in Indices, MoveToSpace(m, i)
        PROVE  FollowsValid(desk, desk')
    <2> DEFINE d == Track(desk, desk.fg, m, i)
    <2>1. /\ desk.fg \in Windows /\ Valid(desk, desk.fg)
          /\ i \in DOMAIN desk.spaces[m] /\ m \in Table(desk)
          /\ SwitchFrom(d, m, i, desk.fg)
      BY <1>1, <1>5 DEF MoveToSpace, Desk
    <2>2. Keeps(desk, d) /\ Follows(desk, d)
      BY <1>1, <2>1, TrackKeeps, TrackFollows
    <2> HIDE DEF d
    <2>3. Sound(d) /\ i \in DOMAIN d.spaces[m]
      BY <1>1, <2>1, <2>2, KeepsSound, DomainIsLen DEF Keeps, SameShape
    <2>4. Follows(d, desk')
      BY <1>1, <2>1, <2>3, SwitchFromFollows
    <2>5. Follows(desk, desk')
      BY <1>2, <2>2, <2>4, FollowsCompose
    <2>6. QED
      BY <1>3, <2>5
  <1>6. ASSUME NEW m \in Monitors, NEW i \in Indices, RemoveSpace(m, i)
        PROVE  FollowsValid(desk, desk')
    <2> DEFINE d == Shortened(desk, m, i)
    <2>1. /\ i \in DOMAIN desk.spaces[m] /\ Len(desk.spaces[m]) > 1
          /\ SwitchFrom(d, m, d.current[m], NoWindow)
      BY <1>6 DEF RemoveSpace
    <2>2. Sound(d) /\ d.current[m] \in DOMAIN d.spaces[m] /\ FollowsValid(desk, d)
      BY <1>1, <2>1, ShortenedSound, ShortenedFollows
    <2> HIDE DEF d
    <2>3. Follows(d, desk')
      BY <1>1, <2>1, <2>2, SwitchFromFollows
    <2>4. QED
      BY <1>2, <2>2, <2>3, FollowsCompose
  <1>7. ASSUME NEW m \in Monitors, NEW i \in Indices, NEW j \in Indices,
               ReorderSpace(m, i, j)
        PROVE  FollowsValid(desk, desk')
    <2>1. PICK row, now :
            desk' = [desk EXCEPT !.spaces[m] = row, !.current[m] = now]
      BY <1>7, Zenon DEF ReorderSpace
    <2>2. desk'.pinned = desk.pinned /\ desk'.win = desk.win
      BY <1>1, <2>1 DEF Desk
    <2>3. Follows(desk, desk')
      BY <1>1, <2>2, SameFollows
    <2>4. QED
      BY <1>3, <2>3
  <1>8. ASSUME NEW m \in Monitors, AddSpace(m) PROVE FollowsValid(desk, desk')
    <2>1. desk'.pinned = desk.pinned /\ desk'.win = desk.win
      BY <1>1, <1>8 DEF AddSpace, Added, Desk
    <2>2. Follows(desk, desk')
      BY <1>1, <2>1, SameFollows
    <2>3. QED
      BY <1>3, <2>2
  <1>9. ASSUME NEW w \in Windows, NEW m \in Monitors, NEW i \in Indices,
               MoveWindowToSpace(w, m, i)
        PROVE  FollowsValid(desk, desk')
    BY <1>1, <1>9, TrackFollows DEF MoveWindowToSpace
  <1>10. ASSUME NEW w \in Windows, NEW m \in Monitors, NEW i \in Indices,
                NEW s \in BOOLEAN, RestoreWorkspaceRules(w, m, i, s)
         PROVE  FollowsValid(desk, desk')
    <2>1. PICK minimized \in BOOLEAN, landed \in {desk.win[w].mon} \cup ({m} \cap plugged) :
            LET put    == [desk EXCEPT !.win[w] =
                             [@ EXCEPT !.visible = "yes", !.iconic = minimized,
                                       !.mon = landed]]
                placed == Track(put, w, m, i)
                pinned == IF s /\ Tracked(placed, w) THEN Pin(placed, w) ELSE placed
            IN  \E scanned \in (IF Table(pinned) = {} THEN {pinned}
                                ELSE {pinned, Scan(pinned)}) :
                  LET shown == Refresh(scanned, Table(scanned))
                  IN  \E f \in {NoWindow} \cup UNION {Landing(shown, n) : n \in Table(shown)} :
                        desk' = Focused(shown, f)
      BY <1>10 DEF RestoreWorkspaceRules
    <2> DEFINE x      == [desk.win[w] EXCEPT !.visible = "yes", !.iconic = minimized,
                                             !.mon = landed]
               put    == [desk EXCEPT !.win[w] = x]
               placed == Track(put, w, m, i)
               pinned == IF s /\ Tracked(placed, w) THEN Pin(placed, w) ELSE placed
    <2>2. /\ Kept(desk) /\ "rules" \in Env /\ Valid(desk, w)
          /\ desk.win[w] \in Window /\ landed \in Monitors
      BY <1>1, <1>2, <1>10, TidyParts
      DEF RestoreWorkspaceRules, HidingInv, Flags, Desk, Window
    <2>3. /\ x \in Window /\ x.live = desk.win[w].live /\ x.titled = desk.win[w].titled
          /\ x.visible = "yes" /\ x.cloak = desk.win[w].cloak /\ x.prop = desk.win[w].prop
      BY <2>2 DEF Window
    <2> HIDE DEF x
    <2>4. Booked(x, Places(desk, w)) /\ IsValid(x)
      <3>1. Booked(x, Places(desk, w))
        BY <2>2, <2>3
        DEF Kept, Books, Booked, Sane, Blank, Safe, Recorded, HasHiddenBit, Undisturbed
      <3>2. IsValid(x)
        BY <2>2, <2>3 DEF Valid, IsValid, ExternallyCloaked
      <3>3. QED
        BY <3>1, <3>2
    <2>5. Follows(desk, put)
      <3>1. "topology" \notin Env
        BY <2>2 DEF RulesHaveDisplays
      <3>2. /\ put.pinned = desk.pinned
            /\ \A v \in Windows : put.win[v] = IF v = w THEN x ELSE desk.win[v]
        BY <1>1, <2>3 DEF Desk
      <3> HIDE DEF put
      <3>3. \A v \in Windows : /\ Alike(desk.win[v], put.win[v])
                               /\ StaysMarked(desk.win[v], put.win[v])
                               /\ Lighter(desk.win[v], put.win[v])
        BY <2>3, <3>1, <3>2 DEF Alike, StaysMarked, Lighter, HasHiddenBit
      <3>4. QED
        BY <1>1, <3>2, <3>3, FollowsFrom
    <2>6. Kept(put) /\ Valid(put, w)
      BY <1>1, <2>2, <2>4, WinAtKept DEF Valid, Desk
    <2> HIDE DEF put
    <2>7. m \in Table(put) /\ put \in Desk
      BY <2>2, <2>6 DEF RulesHaveDisplays, Kept, Full, Table, Tidy, Sound
    <2>8. Kept(placed)
      BY <1>1, <2>6, <2>7, TrackKept
    <2>9. Follows(put, placed)
      BY <1>1, <2>6, <2>7, TrackFollows
    <2> HIDE DEF placed
    <2>10. Kept(pinned) /\ placed \in Desk
      BY <1>1, <2>8, PinKept DEF Kept, Tidy, Sound
    <2>11. Follows(placed, pinned)
      <3>1. Tracked(placed, w) => Follows(placed, Pin(placed, w))
        BY <1>1, <2>8, PinFollows
      <3>2. Follows(placed, placed)
        BY <2>10, SameFollows
      <3>3. QED
        BY <3>1, <3>2
    <2> HIDE DEF pinned
    <2>12. PICK scanned \in {pinned, Scan(pinned)} :
             LET shown == Refresh(scanned, Table(scanned))
             IN  \E f : desk' = Focused(shown, f)
      <3>1. \E scanned \in (IF Table(pinned) = {} THEN {pinned}
                            ELSE {pinned, Scan(pinned)}) :
              LET shown == Refresh(scanned, Table(scanned))
              IN  \E f \in {NoWindow} \cup UNION {Landing(shown, n) : n \in Table(shown)} :
                    desk' = Focused(shown, f)
        BY <2>1 DEF pinned, placed, put, x
      <3>2. QED
        BY <3>1
    <2> DEFINE shown == Refresh(scanned, Table(scanned))
    <2>13. pinned \in Desk
      BY <2>10 DEF Kept, Tidy, Sound
    <2>14. Follows(pinned, scanned) /\ scanned \in Desk
      BY <2>12, <2>13, ScanFollows, SameFollows, ScanKeeps DEF Keeps
    <2>15. Follows(scanned, shown) /\ shown \in Desk
      BY <1>1, <2>14, RefreshFollows, RefreshKeeps DEF Keeps
    <2> HIDE DEF shown
    <2>16. Follows(shown, desk')
      BY <2>12, <2>15, FocusedFollows DEF shown
    <2>17. Follows(desk, placed)
      BY <2>5, <2>9, <2>10, FollowsCompose
    <2>18. Follows(desk, pinned)
      BY <2>11, <2>13, <2>17, FollowsCompose
    <2>19. Follows(desk, scanned)
      BY <2>14, <2>18, FollowsCompose
    <2>20. Follows(desk, shown)
      BY <2>15, <2>19, FollowsCompose
    <2>21. Follows(desk, desk')
      BY <1>2, <2>16, <2>20, FollowsCompose
    <2>22. QED
      BY <1>3, <2>21
  <1>11. ASSUME NEW w \in Windows, NEW m \in Monitors, MoveWindowToNewSpace(w, m)
         PROVE  FollowsValid(desk, desk')
    <2> DEFINE d == Added(desk, m)
    <2>1. /\ m \in Table(desk) /\ Valid(desk, w) /\ desk' = Track(d, w, m, Len(d.spaces[m]))
          /\ Len(desk.spaces[m]) < MaxSpaces
      BY <1>11 DEF MoveWindowToNewSpace, Cards
    <2>2. Sound(d) /\ d \in Desk
      BY <1>1, <2>1, AddedSound DEF Sound
    <2>3. d.win = desk.win /\ d.pinned = desk.pinned
      BY <1>1 DEF Added, Desk
    <2>4. m \in Table(d)
      <3>1. m \in Monitors /\ desk.spaces[m] \in Seq(SUBSET Windows)
        BY <1>1, <2>1 DEF Table, Desk
      <3>2. d.spaces[m] = Append(desk.spaces[m], {})
        BY <1>1, <3>1 DEF Added, Desk
      <3>3. Len(d.spaces[m]) > 0
        BY <3>1, <3>2
      <3>4. QED
        BY <3>1, <3>3 DEF Table
    <2> HIDE DEF d
    <2>5. Follows(desk, d)
      BY <1>1, <2>3, SameFollows
    <2>6. Valid(d, w)
      BY <2>1, <2>3 DEF Valid
    <2>7. Follows(d, desk')
      BY <1>1, <2>1, <2>2, <2>4, <2>6, TrackFollows
    <2>8. Follows(desk, desk')
      BY <1>2, <2>5, <2>7, FollowsCompose
    <2>9. QED
      BY <1>3, <2>8
  <1>12. ASSUME NEW w \in Windows, TogglePin(w) PROVE FollowsValid(desk, desk')
    <2>1. /\ Running /\ Tracked(desk, w)
          /\ desk' = IF w \in desk.pinned THEN Unpin(desk, w) ELSE Pin(desk, w)
      BY <1>12 DEF TogglePin
    <2>2. Follows(desk, Pin(desk, w)) /\ FollowsValid(desk, Unpin(desk, w))
      BY <1>1, <1>2, <2>1, PinFollows, UnpinFollows
    <2>3. QED
      BY <1>3, <2>1, <2>2
  <1>13. ASSUME SetShowAllTaskbar PROVE FollowsValid(desk, desk')
    <2> DEFINE a == ~showAll
    <2>1. desk' = [desk EXCEPT !.win = [w \in Windows |->
               IF /\ Valid(desk, w)
                  /\ \E m \in Table(desk) : w \in On(desk, m) \ Up(desk, m)
               THEN Hide(Show(desk.win[w], proxy), a, proxy)
               ELSE desk.win[w]]]
      BY <1>13 DEF SetShowAllTaskbar
    <2> HIDE DEF a
    <2>2. Follows(desk, desk')
      BY <1>1, <2>1, RehideFollows
    <2>3. QED
      BY <1>3, <2>2
  <1>14. QED
    BY <1>4, <1>5, <1>6, <1>7, <1>8, <1>9, <1>10, <1>11, <1>12, <1>13 DEF Command

LEMMA EventFollows ==
  ASSUME HidingInv, Event PROVE FollowsValid(desk, desk')
  <1>1. Sound(desk) /\ desk \in Desk /\ showAll \in BOOLEAN /\ proxy \in Proxies
    BY TidyParts DEF HidingInv, Tidy, Sound, Flags
  <1>2. desk' \in Desk
    BY EventKept DEF Kept, Tidy, Sound
  <1>3. ASSUME Follows(desk, desk') PROVE FollowsValid(desk, desk')
    BY <1>3, FollowsIsValid
  <1>4. \A S : /\ Follows(desk, AtCurrent(desk, S))
               /\ \A v \in Windows : Valid(desk, v) => Valid(AtCurrent(desk, S), v)
    <2>1. \A S : Follows(desk, AtCurrent(desk, S))
      BY <1>1, PlaceFollows DEF AtCurrent
    <2>2. \A S : \A v \in Windows : Valid(desk, v) => Valid(AtCurrent(desk, S), v)
      BY <1>1, PlaceFollows DEF AtCurrent
    <2>3. QED
      BY <2>1, <2>2
  <1>5. ASSUME NEW w \in Windows, Activated(w) PROVE FollowsValid(desk, desk')
    <2> DEFINE adopted == IF Tracked(desk, w) THEN desk ELSE AtCurrent(desk, {w})
               home    == Home(adopted, w)
               sits    == MonitorOf(adopted, w)
               moved   == sits \notin {NoMonitor, home[1]} /\ MayRehome(TRUE)
               rehomed == Track(adopted, w, sits, adopted.current[sits])
    <2>1. /\ Tracked(desk, w) \/ MonitorOf(desk, w) # NoMonitor
          /\ \/ moved /\ desk' = rehomed
             \/ SwitchFrom(adopted, home[1], home[2], w)
             \/ desk' = adopted
      BY <1>5 DEF Activated
    <2>2. Keeps(desk, adopted) /\ Tracked(adopted, w)
      BY <1>1, <2>1, AdoptedIsTracked, AtCurrentKeeps, KeepsSelf
    <2>3. /\ Follows(desk, adopted)
          /\ \A v \in Windows : Valid(desk, v) => Valid(adopted, v)
      BY <1>1, <1>4, SameFollows
    <2> HIDE DEF adopted
    <2>4. Sound(adopted) /\ adopted \in Desk
      BY <1>1, <2>2, KeepsSound DEF Sound
    <2>5. CASE moved /\ desk' = rehomed
      <3>1. MonitorOf(adopted, w) # NoMonitor
        BY <2>5
      <3>2. FollowsValid(adopted, desk')
        BY <1>1, <2>4, <2>5, <3>1, TrackFollows
      <3>3. QED
        BY <1>2, <2>3, <3>2, FollowsThenValid
    <2>6. CASE SwitchFrom(adopted, home[1], home[2], w)
      <3>1. home[1] \in Monitors /\ home[2] \in DOMAIN adopted.spaces[home[1]]
        BY <2>2, HomeIsPlace
      <3> HIDE DEF home
      <3>2. Follows(adopted, desk')
        BY <1>1, <2>4, <2>6, <3>1, SwitchFromFollows
      <3>3. Follows(desk, desk')
        BY <1>2, <2>3, <3>2, FollowsCompose
      <3>4. QED
        BY <1>3, <3>3
    <2>7. CASE desk' = adopted
      BY <1>3, <2>3, <2>7
    <2>8. QED
      BY <2>1, <2>5, <2>6, <2>7
  <1>6. ASSUME NEW w \in Windows, WindowDestroyed(w) PROVE FollowsValid(desk, desk')
    <2>1. ~Valid(desk, w) /\ desk' = RemoveWindow(desk, w)
      BY <1>6 DEF WindowDestroyed, Valid, IsValid
    <2>2. QED
      BY <1>1, <2>1, RemoveWindowFollows
  <1>7. ASSUME NEW w \in Windows, AdoptUntracked(w) PROVE FollowsValid(desk, desk')
    BY <1>3, <1>4, <1>7 DEF AdoptUntracked
  <1>8. ASSUME NEW w \in Windows, MoveSizeEnd(w) PROVE FollowsValid(desk, desk')
    <2>1. /\ MonitorOf(desk, w) # NoMonitor
          /\ desk' = Track(desk, w, MonitorOf(desk, w), desk.current[MonitorOf(desk, w)])
      BY <1>8 DEF MoveSizeEnd
    <2>2. QED
      BY <1>1, <2>1, TrackFollows
  <1>9. ASSUME ScanWindows \/ CloseVerify PROVE FollowsValid(desk, desk')
    BY <1>1, <1>3, <1>9, ScanFollows, PruneFollows DEF ScanWindows, CloseVerify
  <1>10. QED
    BY <1>5, <1>6, <1>7, <1>8, <1>9 DEF Event

-----------------------------------------------------------------------------

\* Without a display to list windows on, a handler gives none one.
LEMMA TableStays ==
  ASSUME HidingInv, RulesHaveDisplays, Command \/ Event, Table(desk) = {}
  PROVE  Table(desk') = {}
  <1>1. Sound(desk) /\ desk \in Desk /\ proxy \in Proxies
    BY TidyParts DEF HidingInv, Tidy, Sound, Flags
  <1>2. \A w : ~Tracked(desk, w) /\ MonitorOf(desk, w) = NoMonitor
    <2>1. \A m \in Monitors : \A i \in DOMAIN desk.spaces[m] : FALSE
      BY <1>1, DomainIsLen DEF Table
    <2>2. QED
      BY <2>1 DEF Tracked, Places, MonitorOf
  <1>3. ASSUME Keeps(desk, desk') PROVE Table(desk') = {}
    BY <1>3 DEF Keeps, SameShape, Table
  <1>4. CASE Command
    <2>1. \A m, i : ~(GoToSpace(m, i) \/ TraySwitch(m, i) \/ MoveToSpace(m, i)
                        \/ RemoveSpace(m, i) \/ AddSpace(m))
      BY DEF GoToSpace, TraySwitch, MoveToSpace, RemoveSpace, AddSpace
    <2>2. \A m, i, j : ~ReorderSpace(m, i, j)
      BY DEF ReorderSpace
    <2>3. \A w, m, i : ~(MoveWindowToSpace(w, m, i) \/ MoveWindowToNewSpace(w, m)
                           \/ TogglePin(w))
      BY <1>2 DEF MoveWindowToSpace, MoveWindowToNewSpace, TogglePin
    <2>4. \A w, m, i, s : RestoreWorkspaceRules(w, m, i, s) => m \notin Monitors
      <3>1. ASSUME Running, "rules" \in Env PROVE Monitors = {}
        BY <3>1 DEF RulesHaveDisplays, HidingInv, Kept, Full, Table
      <3>2. ASSUME NEW w, NEW m, NEW i, NEW s, RestoreWorkspaceRules(w, m, i, s)
            PROVE  Running /\ "rules" \in Env
        BY <3>2, Zenon DEF RestoreWorkspaceRules
      <3>3. QED
        BY <3>1, <3>2
    <2>5. SetShowAllTaskbar
      BY <1>4, <2>1, <2>2, <2>3, <2>4 DEF Command
    <2>6. desk'.spaces = desk.spaces
      BY <1>1, <2>5 DEF SetShowAllTaskbar, Desk
    <2>7. QED
      BY <2>6 DEF Table
  <1>5. CASE Event
    <2>1. \A w : ~(Activated(w) \/ AdoptUntracked(w) \/ MoveSizeEnd(w))
      BY <1>2 DEF Activated, AdoptUntracked, MoveSizeEnd
    <2>2. ASSUME NEW w \in Windows, WindowDestroyed(w) PROVE Table(desk') = {}
      BY <1>1, <1>3, <2>2, RemoveWindowKeeps DEF WindowDestroyed
    <2>3. ASSUME ScanWindows \/ CloseVerify PROVE Table(desk') = {}
      BY <1>1, <1>3, <2>3, ScanKeeps, PruneKeeps DEF ScanWindows, CloseVerify
    <2>4. QED
      BY <1>5, <2>1, <2>2, <2>3 DEF Event
  <1>6. QED
    BY <1>4, <1>5

\* Outside the list of system windows, the scan tracks whatever it finds alive,
\* not hidden and on an attached display.
LEMMA ScanGathers ==
  ASSUME NEW d, Kept(d), Orderly, SystemWindows = {}, NEW w \in Windows,
         d.win[w].live, ~HasHiddenBit(d.win[w]), "SYSTEM_HIDDEN" \notin d.win[w].prop,
         d.win[w].visible # "app", d.win[w].mon \in Table(d)
  PROVE  "TRACKED" \in Scan(d).win[w].prop
  <1> DEFINE p       == Prune(d)
             seen    == {v \in Windows : p.win[v].live /\ ~HasHiddenBit(p.win[v])}
             system  == {v \in seen \cap SystemWindows :
                           p.win[v].titled /\ "TRACKED" \notin p.win[v].prop}
             hide    == {v \in system : /\ "SYSTEM_HIDDEN" \notin p.win[v].prop
                                        /\ SystemWindowIsShowing(p.win[v])}
             found   == {v \in seen \ system : Valid(p, v) /\ MonitorOf(p, v) # NoMonitor}
             drifted == {v \in found : Tracked(p, v) /\ Home(p, v)[1] # p.win[v].mon}
             adopt   == {v \in found : ~Tracked(p, v)}
                          \cup (IF MayRehome(TRUE) THEN drifted ELSE {})
             win     == [v \in Windows |->
                           IF v \in hide THEN HideSystem(p.win[v]) ELSE p.win[v]]
             swept   == [p EXCEPT !.win = win]
             x       == d.win[w]
  <1>1. Kept(p) /\ d \in Desk /\ p \in Desk /\ Keeps(d, p)
    BY PruneKept, PruneKeeps DEF Kept, Tidy, Sound
  <1>2. p.win = d.win
    BY <1>1 DEF Prune, Desk
  <1>3. Scan(d) = AtCurrent(swept, adopt)
    BY DEF Scan
  <1>4. x \in Window /\ Safe(x)
    BY <1>1 DEF Desk, Kept, Books, Booked, Sane
  <1>5. Free(x) /\ x.titled
    BY <1>4, SafeIsFree DEF Safe
  <1>6. x.visible = "yes"
    BY <1>4, <1>5 DEF Free, Window
  <1>7. Valid(p, w)
    BY <1>2, <1>5, <1>6 DEF Valid, IsValid, ExternallyCloaked, Free
  <1>8. MonitorOf(p, w) # NoMonitor
    <2>1. x.mon \in Table(p) /\ x.mon \in Monitors
      BY <1>1 DEF Keeps, SameShape, Table
    <2>2. QED
      BY <1>2, <2>1, SpacesAssumption DEF MonitorOf
  <1>9. CASE Tracked(p, w)
    <2>1. "TRACKED" \in x.prop
      BY <1>1, <1>2, <1>9 DEF Kept, Books, Booked, Tracked
    <2>2. Follows(d, Scan(d))
      BY <1>1, ScanFollows
    <2>3. QED
      BY <2>1, <2>2 DEF Follows, StaysMarked
  <1>10. CASE ~Tracked(p, w)
    <2>1. w \in adopt
      BY <1>2, <1>7, <1>8, <1>10
    <2> HIDE DEF adopt
    <2>2. \A v \in Windows : v \notin hide
      OBVIOUS
    <2> HIDE DEF hide
    <2>3. win \in [Windows -> Window]
      BY <1>1, <2>2 DEF Desk
    <2> HIDE DEF win
    <2>4. swept \in Desk
      BY <1>1, <2>3 DEF Desk
    <2> DEFINE to == [v \in adopt |-> <<swept.win[v].mon, swept.current[swept.win[v].mon]>>]
    <2>5. AtCurrent(swept, adopt) = Place(swept, to) /\ w \in DOMAIN to
      BY <2>1 DEF AtCurrent
    <2> HIDE DEF to, swept
    <2>6. "TRACKED" \in Place(swept, to).win[w].prop
      BY <2>4, <2>5, PlaceFollows
    <2>7. QED
      BY <1>3, <2>5, <2>6
  <1>11. QED
    BY <1>9, <1>10

\* handle_display_change frees the windows of the displays that went.
LEMMA RebuiltFrees ==
  ASSUME NEW d \in Desk, proxy \in Proxies
  PROVE  LET e == Rebuilt(d) IN
           /\ e.pinned \subseteq d.pinned
           /\ \A w \in Windows :
                /\ Alike(d.win[w], e.win[w])
                /\ e.win[w] = d.win[w] \/ e.win[w].prop = {}
           /\ Table(d) \subseteq plugged => e.win = d.win
           /\ Table(e) \subseteq plugged
  <1> DEFINE gone    == Table(d) \ plugged
             fresh   == plugged \ Table(d)
             loosed  == UNION {On(d, m) : m \in gone}
             restore == {w \in loosed : Valid(d, w)}
             row     == [i \in 1..DefaultSpaces |-> {}]
             win     == [w \in Windows |->
                           IF w \notin loosed THEN d.win[w]
                           ELSE IF w \in restore THEN Forgotten(Show(d.win[w], proxy))
                           ELSE Forgotten(d.win[w])]
             e == Rebuilt(d)
  <1>1. /\ e.win = win /\ e.pinned = {w \in d.pinned : d.win[w].live}
        /\ e.spaces = [m \in Monitors |-> IF m \in fresh THEN row
                                          ELSE IF m \in gone THEN <<>> ELSE d.spaces[m]]
    BY DEF Rebuilt, Desk
  <1>2. \A w \in Windows : /\ d.win[w] \in Window /\ Show(d.win[w], proxy) \in Window
    BY ShowType DEF Desk
  <1>3. \A w \in Windows : /\ Alike(d.win[w], d.win[w])
                           /\ Alike(d.win[w], Forgotten(d.win[w]))
                           /\ Alike(d.win[w], Forgotten(Show(d.win[w], proxy)))
                           /\ Forgotten(d.win[w]).prop = {}
                           /\ Forgotten(Show(d.win[w], proxy)).prop = {}
    <2>1. \A w \in Windows : Alike(d.win[w], d.win[w])
      BY DEF Alike
    <2>2. QED
      BY <1>2, <2>1, ForgottenAlike, LetGoAlike
  <1>4. Table(d) \subseteq plugged => loosed = {}
    OBVIOUS
  <1>5. \A m \in Monitors : m \notin plugged => Len(e.spaces[m]) <= 0
    <2>1. \A m \in Monitors : Len(d.spaces[m]) \in Nat
      BY DEF Desk
    <2>2. \A m \in Monitors : m \notin plugged =>
            e.spaces[m] = <<>> \/ (m \notin Table(d) /\ e.spaces[m] = d.spaces[m])
      BY <1>1
    <2> HIDE DEF e
    <2>3. QED
      BY <2>1, <2>2 DEF Table
  <1> HIDE DEF loosed, restore
  <1>6. \A w \in Windows : /\ Alike(d.win[w], win[w])
                           /\ win[w] = d.win[w] \/ win[w].prop = {}
    BY <1>3
  <1>7. Table(d) \subseteq plugged => win = d.win
    BY <1>4 DEF Desk
  <1> HIDE DEF win, e
  <1>8. Table(e) \subseteq plugged
    <2>1. \A m \in Monitors : Len(e.spaces[m]) > 0 => m \in plugged
      <3>1. \A m \in Monitors : m \notin plugged => Len(e.spaces[m]) = 0 \/ ~(Len(e.spaces[m]) > 0)
        BY <1>5
      <3>2. QED
        BY <1>5, <3>1
    <2>2. QED
      BY <2>1 DEF Table
  <1>9. QED
    BY <1>1, <1>6, <1>7, <1>8 DEF e

-----------------------------------------------------------------------------
(* The invariants.  Where displays come and go, every window the environment  *)
(* leaves behind is one that the reconcile's scan adopts; no pinned window is *)
(* hidden, and each is tracked as long as a display is attached.              *)

Reachable(x, S) ==
  /\ x.visible # "app" /\ "SYSTEM_HIDDEN" \notin x.prop
  /\ x.live => x.mon \in S \/ S = {}

Reached(d, S) == \A w \in Windows : Reachable(d.win[w], S)

PinsUp(d) ==
  \A w \in d.pinned : d.win[w].live =>
    /\ ~HasHiddenBit(d.win[w])
    /\ Table(d) # {} => "TRACKED" \in d.win[w].prop

ReachInv == HidingInv /\ ("topology" \in Env => Reached(desk, plugged))

UpInv == /\ ReachInv
         /\ Running => PinsUp(desk)
         /\ ~Running => desk.pinned = {}

LEMMA FollowsUp ==
  ASSUME NEW d \in Desk, NEW e \in Desk, Orderly, PinsUp(d), FollowsValid(d, e),
         Table(d) = {} => Table(e) = {}
  PROVE  PinsUp(e)
  <1> SUFFICES ASSUME NEW w \in e.pinned, e.win[w].live
               PROVE  /\ ~HasHiddenBit(e.win[w])
                      /\ Table(e) # {} => "TRACKED" \in e.win[w].prop
    BY DEF PinsUp
  <1>1. w \in Windows
    BY DEF Desk
  <1>2. d.win[w].live
    BY <1>1 DEF FollowsValid, Alike
  <1>3. CASE Firm(e.win[w])
    BY <1>3 DEF Firm
  <1>4. CASE ~Firm(e.win[w])
    <2>1. w \in d.pinned /\ Lighter(d.win[w], e.win[w]) /\ StaysMarked(d.win[w], e.win[w])
      BY <1>4 DEF FollowsValid, PinsFollow
    <2>2. QED
      BY <1>2, <2>1 DEF PinsUp, Lighter, StaysMarked
  <1>5. QED
    BY <1>3, <1>4

LEMMA AlikeReachable ==
  ASSUME NEW x, NEW y, NEW S, Alike(x, y), Reachable(x, S),
         "topology" \in Env, SystemWindows = {}
  PROVE  Reachable(y, S)
  BY DEF Alike, Reachable

\* The reconcile's scan tracks what the rebuild has freed.
LEMMA ReconcileGathers ==
  ASSUME HidingInv, Orderly, "topology" \in Env, Adoptable, Reached(desk, plugged),
         Reconcile
  PROVE  /\ \A w \in Windows : Alike(desk.win[w], desk'.win[w])
         /\ PinsUp(desk) => PinsUp(desk')
         /\ plugged # {} => \A w \in Windows :
              desk.win[w].live => StaysMarked(desk.win[w], desk'.win[w])
  <1> DEFINE e == Rebuilt(desk)
  <1>1. /\ Tidy(desk) /\ Sound(desk) /\ desk \in Desk /\ Books(desk) /\ Running
        /\ plugged \in SUBSET Monitors /\ proxy \in Proxies
        /\ SystemWindows = {}
    BY TidyParts DEF HidingInv, Reconcile, Kept, Tidy, Sound, Flags, Adoptable
  <1>2. Kept(e)
    BY <1>1, RebuiltKept DEF HidingInv, Given
  <1>3. /\ e.pinned \subseteq desk.pinned
        /\ \A w \in Windows : /\ Alike(desk.win[w], e.win[w])
                              /\ e.win[w] = desk.win[w] \/ e.win[w].prop = {}
        /\ Table(e) = plugged
    BY <1>1, RebuiltFrees, RebuiltTable
  <1>4. desk' = Scan(e)
    BY DEF Reconcile
  <1> HIDE DEF e
  <1>5. e \in Desk /\ desk' \in Desk /\ Keeps(e, desk') /\ Follows(e, desk')
    BY <1>2, <1>4, ScanKeeps, ScanFollows DEF Kept, Tidy, Sound, Keeps
  <1>6. \A w \in Windows : Alike(desk.win[w], desk'.win[w])
    BY <1>3, <1>5, AlikeCompose DEF Follows
  <1>7. ASSUME NEW w \in Windows, e.win[w].live, ~HasHiddenBit(e.win[w]), plugged # {}
        PROVE  "TRACKED" \in desk'.win[w].prop
    <2>1. Reachable(e.win[w], plugged)
      BY <1>1, <1>3, AlikeReachable DEF Reached
    <2>2. QED
      BY <1>1, <1>2, <1>3, <1>4, <1>7, <2>1, ScanGathers DEF Reachable
  <1>8. ASSUME NEW w \in Windows, desk.win[w].live, plugged # {}
        PROVE  StaysMarked(desk.win[w], desk'.win[w])
    <2>1. e.win[w].live
      BY <1>3, <1>8 DEF Alike
    <2>2. CASE e.win[w] = desk.win[w]
      BY <1>5, <2>2 DEF Follows
    <2>3. CASE e.win[w].prop = {}
      <3>1. ~HasHiddenBit(e.win[w])
        BY <2>3 DEF HasHiddenBit
      <3>2. QED
        BY <1>7, <1>8, <2>1, <3>1 DEF StaysMarked
    <2>4. QED
      BY <1>3, <2>2, <2>3
  <1>9. ASSUME PinsUp(desk), NEW w \in desk'.pinned, desk'.win[w].live
        PROVE  /\ ~HasHiddenBit(desk'.win[w])
               /\ Table(desk') # {} => "TRACKED" \in desk'.win[w].prop
    <2>1. w \in Windows
      BY <1>5 DEF Desk
    <2>2. CASE Firm(desk'.win[w])
      BY <2>2 DEF Firm
    <2>3. CASE ~Firm(desk'.win[w])
      <3>1. w \in e.pinned /\ Lighter(e.win[w], desk'.win[w])
        BY <1>5, <1>9, <2>3 DEF Follows, PinsFollow
      <3>2. e.win[w].live /\ desk.win[w].live
        BY <1>3, <1>5, <1>9, <2>1 DEF Follows, Alike
      <3>3. ~HasHiddenBit(desk.win[w])
        BY <1>3, <1>9, <3>1, <3>2 DEF PinsUp
      <3>4. ~HasHiddenBit(e.win[w])
        BY <1>3, <2>1, <3>3 DEF HasHiddenBit
      <3>5. Table(desk') = plugged
        BY <1>3, <1>5 DEF Keeps, SameShape, Table
      <3>6. QED
        BY <1>7, <2>1, <3>1, <3>2, <3>4, <3>5 DEF Lighter
    <2>4. QED
      BY <2>2, <2>3
  <1>10. QED
    BY <1>6, <1>8, <1>9 DEF PinsUp

\* Where no display ever goes, a reconcile frees nothing.
LEMMA ReconcileFollows ==
  ASSUME HidingInv, "topology" \notin Env, Reconcile PROVE Follows(desk, desk')
  <1> DEFINE e == Rebuilt(desk)
  <1>1. Sound(desk) /\ desk \in Desk /\ plugged = Monitors /\ proxy \in Proxies
    BY TidyParts DEF HidingInv, Given, Tidy, Sound, Flags
  <1>2. e \in Desk
    BY <1>1, RebuiltSound DEF Sound
  <1>3. e.pinned \subseteq desk.pinned /\ e.win = desk.win
    BY <1>1, RebuiltFrees DEF Table
  <1>4. desk' = Scan(e)
    BY DEF Reconcile
  <1> HIDE DEF e
  <1>5. Follows(desk, e)
    BY <1>1, <1>3, SameFollows
  <1>6. Follows(e, desk') /\ desk' \in Desk
    BY <1>2, <1>4, ScanFollows, ScanKeeps DEF Keeps
  <1>7. QED
    BY <1>5, <1>6, FollowsCompose

\* The system brings no pinned handle back to life, and puts no window where a
\* reconcile would not find it.
LEMMA EnvironmentReaches ==
  ASSUME HidingInv, Environment, "recycle" \notin Env, NEW v \in Windows
  PROVE  /\ v \in desk.pinned /\ desk'.win[v].live =>
              desk.win[v].live /\ desk'.win[v].prop = desk.win[v].prop
         /\ "hide" \notin Env /\ Reachable(desk.win[v], plugged) =>
              Reachable(desk'.win[v], plugged')
  <1> DEFINE old  == desk.win[v]
             new  == desk'.win[v]
             Fine == /\ v \in desk.pinned /\ new.live => old.live /\ new.prop = old.prop
                     /\ "hide" \notin Env /\ Reachable(old, plugged) =>
                          Reachable(new, plugged')
  <1>1. desk \in Desk /\ plugged \in SUBSET Monitors
    BY TidyParts DEF HidingInv, Tidy, Sound, Flags
  <1>2. \A w \in Windows : desk.win[w] \in Window
    BY <1>1 DEF Desk
  <1>3. ASSUME new = old, plugged' = plugged PROVE Fine
    BY <1>3
  <1>4. ASSUME NEW w \in Windows, NEW x, Alter(w, x)
        PROVE  /\ plugged' = plugged
               /\ v # w => new = old
               /\ v = w => new = x
    BY <1>1, <1>4 DEF Alter, OnlyDesk, Desk
  <1>5. ASSUME NEW w \in Windows, NEW x, Alter(w, x),
               w \in desk.pinned /\ x.live =>
                 desk.win[w].live /\ x.prop = desk.win[w].prop,
               "hide" \notin Env /\ Reachable(desk.win[w], plugged) =>
                 Reachable(x, plugged)
        PROVE  Fine
    BY <1>3, <1>4, <1>5
  <1> HIDE DEF Fine
  <1>6. ASSUME NEW w \in Windows, Open(w) PROVE Fine
    <2> DEFINE x(m) == [desk.win[w] EXCEPT !.live = TRUE, !.mon = m]
    <2>1. PICK m \in plugged : Alter(w, x(m))
      BY <1>6 DEF Open
    <2>2. w \notin desk.pinned
      BY <1>6 DEF Open
    <2>3. /\ x(m).visible = desk.win[w].visible /\ x(m).prop = desk.win[w].prop
          /\ x(m).mon = m
      BY <1>2 DEF Window
    <2> HIDE DEF x
    <2>4. QED
      BY <1>5, <2>1, <2>2, <2>3 DEF Reachable
  <1>7. ASSUME NEW w \in Windows, Close(w) PROVE Fine
    <2>1. /\ plugged' = plugged
          /\ v # w => new = old
          /\ v = w => new = Dead(old)
      BY <1>1, <1>7 DEF Close, OnlyDesk, Desk
    <2>2. ~Dead(old).live /\ Dead(old).visible = "yes" /\ Dead(old).prop = {}
      BY <1>2 DEF Dead, Window
    <2>3. QED
      BY <1>3, <2>1, <2>2 DEF Fine, Reachable
  <1>8. ASSUME NEW w \in Windows, NEW x, Alter(w, x),
               x.live = desk.win[w].live, x.prop = desk.win[w].prop,
               x.mon \in {desk.win[w].mon} \cup plugged,
               "hide" \notin Env => x.visible \in {desk.win[w].visible, "yes"}
        PROVE  Fine
    BY <1>5, <1>8 DEF Reachable
  <1>9. ASSUME NEW w \in Windows, Retitle(w) PROVE Fine
    <2> DEFINE x == [desk.win[w] EXCEPT !.titled = ~@]
    <2>1. /\ x.live = desk.win[w].live /\ x.prop = desk.win[w].prop
          /\ x.mon = desk.win[w].mon /\ x.visible = desk.win[w].visible
      BY <1>2 DEF Window
    <2>2. Alter(w, x)
      BY <1>9 DEF Retitle
    <2> HIDE DEF x
    <2>3. QED
      BY <1>8, <2>1, <2>2
  <1>10. ASSUME NEW w \in Windows, AppHide(w) PROVE Fine
    <2> DEFINE x == [desk.win[w] EXCEPT !.visible = "app"]
    <2>1. /\ x.live = desk.win[w].live /\ x.prop = desk.win[w].prop
          /\ x.mon = desk.win[w].mon
      BY <1>2 DEF Window
    <2>2. Alter(w, x) /\ "hide" \in Env
      BY <1>10 DEF AppHide
    <2> HIDE DEF x
    <2>3. QED
      BY <1>8, <2>1, <2>2
  <1>11. ASSUME NEW w \in Windows, AppShow(w) PROVE Fine
    <2> DEFINE x == [desk.win[w] EXCEPT !.visible = "yes"]
    <2>1. /\ x.live = desk.win[w].live /\ x.prop = desk.win[w].prop
          /\ x.mon = desk.win[w].mon /\ x.visible = "yes"
      BY <1>2 DEF Window
    <2>2. Alter(w, x)
      BY <1>11 DEF AppShow
    <2> HIDE DEF x
    <2>3. QED
      BY <1>8, <2>1, <2>2
  <1>12. ASSUME NEW w \in Windows, NEW b \in BOOLEAN,
                Alter(w, [desk.win[w] EXCEPT !.iconic = b])
         PROVE  Fine
    <2> DEFINE x == [desk.win[w] EXCEPT !.iconic = b]
    <2>1. /\ x.live = desk.win[w].live /\ x.prop = desk.win[w].prop
          /\ x.mon = desk.win[w].mon /\ x.visible = desk.win[w].visible
      BY <1>2 DEF Window
    <2>2. Alter(w, x)
      BY <1>12
    <2> HIDE DEF x
    <2>3. QED
      BY <1>8, <2>1, <2>2
  <1>13. ASSUME NEW w \in Windows, Minimize(w) \/ Restore(w) PROVE Fine
    BY <1>12, <1>13 DEF Minimize, Restore
  <1>14. ASSUME NEW w \in Windows, NEW m \in Monitors, Drag(w, m) PROVE Fine
    <2> DEFINE x == [desk.win[w] EXCEPT !.mon = m]
    <2>1. /\ x.live = desk.win[w].live /\ x.prop = desk.win[w].prop
          /\ x.mon = m /\ x.visible = desk.win[w].visible
      BY <1>2 DEF Window
    <2>2. Alter(w, x) /\ m \in plugged
      BY <1>14 DEF Drag
    <2> HIDE DEF x
    <2>3. QED
      BY <1>8, <2>1, <2>2
  <1>15. ASSUME NEW w \in Windows \cup {NoWindow}, Focus(w) PROVE Fine
    <2>1. desk'.win = desk.win /\ plugged' = plugged
      BY <1>1, <1>15 DEF Focus, OnlyDesk, Desk
    <2>2. QED
      BY <1>3, <2>1
  <1>16. ASSUME NEW p \in Proxies, ShellChanges(p) PROVE Fine
    BY <1>3, <1>16 DEF ShellChanges
  <1>17. ASSUME NEW S \in SUBSET Monitors, PlugOrUnplug(S) PROVE Fine
    <2>1. PICK to \in [Windows -> Monitors] :
            /\ to[v] \in S \cup {old.mon}
            /\ (to[v] = old.mon) <=> old.mon \in S \/ S = {} \/ ~old.live
            /\ desk' = [desk EXCEPT !.win = [w \in Windows |-> [@[w] EXCEPT !.mon = to[w]]]]
      BY <1>17 DEF PlugOrUnplug
    <2>2. new = [old EXCEPT !.mon = to[v]] /\ plugged' = S
      BY <1>1, <1>17, <2>1 DEF Desk, PlugOrUnplug
    <2>3. /\ new.live = old.live /\ new.prop = old.prop /\ new.mon = to[v]
          /\ new.visible = old.visible
      BY <1>2, <2>2 DEF Window
    <2> HIDE DEF new, old
    <2>4. QED
      BY <2>1, <2>2, <2>3 DEF Fine, Reachable
  <1>18. Fine
    BY <1>6, <1>7, <1>9, <1>10, <1>11, <1>13, <1>14, <1>15, <1>16, <1>17
    DEF Environment
  <1>19. QED
    BY <1>18 DEF Fine

LEMMA ReclaimAlike ==
  ASSUME NEW x \in Window, proxy \in Proxies PROVE Alike(x, Reclaim(x, proxy))
  <1> DEFINE y == [x EXCEPT !.cloak = IF proxy = "stuck" THEN @ ELSE @ \ {"dwm"}]
  <1>1. /\ y \in Window /\ y.live = x.live /\ y.titled = x.titled /\ y.mon = x.mon
        /\ y.visible = x.visible /\ y.prop = x.prop
    BY DEF Window
  <1> HIDE DEF y
  <1>2. Alike(x, y) /\ Alike(y, Forgotten(y))
    BY <1>1, ForgottenAlike DEF Alike
  <1>3. Alike(x, Forgotten(y))
    BY <1>2, AlikeCompose
  <1>4. Alike(x, Forgotten(x)) /\ Alike(x, Forgotten(Show(x, proxy)))
    BY ForgottenAlike, LetGoAlike
  <1>5. Reclaim(x, proxy) \in {Forgotten(x), Forgotten(y), Forgotten(Show(x, proxy))}
    BY DEF Reclaim, y
  <1>6. QED
    BY <1>3, <1>4, <1>5

LEMMA LifeReaches ==
  ASSUME HidingInv, Life, NEW w \in Windows PROVE Alike(desk.win[w], desk'.win[w])
  <1>1. /\ desk \in Desk /\ desk.win[w] \in Window /\ proxy \in Proxies
        /\ plugged \in SUBSET Monitors /\ Sound(desk)
    BY TidyParts DEF HidingInv, Tidy, Sound, Flags, Desk
  <1>2. Alike(desk.win[w], desk.win[w])
    BY DEF Alike
  <1>3. CASE Exit
    <2> DEFINE managed == {v \in Windows : Tracked(desk, v) /\ Valid(desk, v)}
               freed(v) == IF v \in managed THEN Forgotten(Show(desk.win[v], proxy))
                           ELSE desk.win[v]
               win == [v \in Windows |-> Reclaim(freed(v), proxy)]
    <2>1. Released(desk).win = win /\ Released(desk) \in Desk
      BY <1>1, ReleasedKeeps DEF Released, Desk, Keeps
    <2>2. desk'.win = win
      BY <1>1, <1>3, <2>1, EndedPlaces DEF Exit
    <2>3. win[w] = Reclaim(freed(w), proxy)
      OBVIOUS
    <2> HIDE DEF managed, win
    <2>4. Alike(desk.win[w], freed(w)) /\ freed(w) \in Window
      BY <1>1, <1>2, LetGoAlike, ShowType, ForgottenType
    <2> HIDE DEF freed
    <2>5. QED
      BY <1>1, <2>2, <2>3, <2>4, ReclaimAlike, AlikeCompose
  <1>4. CASE Crash
    <2>1. desk'.win = desk.win
      BY <1>1, <1>4, EndedPlaces DEF Crash
    <2>2. QED
      BY <1>2, <2>1
  <1>5. CASE Start
    <2> DEFINE win == [v \in Windows |-> Reclaim(desk.win[v], proxy)]
               d == [desk EXCEPT !.win = win]
               e == Rebuilt(d)
    <2>1. win[w] = Reclaim(desk.win[w], proxy) /\ desk' = Scan(e)
      BY <1>5 DEF Start
    <2>2. win \in [Windows -> Window]
      BY <1>1, ReclaimType DEF Desk
    <2> HIDE DEF win
    <2>3. d \in Desk /\ d.win = win /\ Sound(d)
      BY <1>1, <2>2, WinKeeps, KeepsSound DEF Keeps, Desk
    <2> HIDE DEF d
    <2>4. Alike(d.win[w], e.win[w]) /\ e \in Desk
      BY <1>1, <2>3, RebuiltFrees, RebuiltSound DEF Sound
    <2> HIDE DEF e
    <2>5. Alike(e.win[w], desk'.win[w])
      BY <2>1, <2>4, ScanFollows DEF Follows
    <2>6. Alike(desk.win[w], d.win[w])
      BY <1>1, <2>1, <2>3, ReclaimAlike
    <2>7. QED
      BY <2>4, <2>5, <2>6, AlikeCompose
  <1>6. QED
    BY <1>3, <1>4, <1>5 DEF Life

\* A timer that is no reconcile touches no window.
LEMMA TimerTouchesNone ==
  ASSUME Timer, ~Reconcile PROVE desk' = desk
  BY DEF Timer, SettleElapses, SuppressionElapses, DisplayChange, SessionChange

LEMMA ReachedNext == Reached(desk', plugged') => Reached(desk, plugged)'
  BY DEF Reached, Reachable

LEMMA StepReaches ==
  ASSUME "recycle" \notin Env, "topology" \in Env => Orderly /\ Adoptable,
         ReachInv, [Next]_vars
  PROVE  ReachInv'
  <1>1. HidingInv /\ HidingInv'
    BY StepHiding DEF ReachInv
  <1>2. ASSUME "topology" \in Env PROVE Reached(desk', plugged')
    <2>1. /\ Orderly /\ SystemWindows = {} /\ "hide" \notin Env /\ Adoptable
          /\ Reached(desk, plugged) /\ RulesHaveDisplays
      BY <1>2 DEF Adoptable, Orderly, ReachInv, RulesHaveDisplays
    <2>2. ASSUME \A w \in Windows : Alike(desk.win[w], desk'.win[w]), plugged' = plugged
          PROVE  Reached(desk', plugged')
      BY <1>2, <2>1, <2>2, AlikeReachable DEF Reached
    <2>3. \A x : Alike(x, x)
      BY DEF Alike
    <2>4. CASE UNCHANGED vars
      BY <2>2, <2>3, <2>4 DEF vars
    <2>5. CASE Next
      <3>1. Command \/ Event \/ Timer \/ Life => plugged' = plugged
        BY <2>5, Frame
      <3>2. CASE Command \/ Event
        BY <1>1, <2>1, <2>2, <3>1, <3>2, CommandFollows, EventFollows DEF FollowsValid
      <3>3. CASE Timer /\ ~Reconcile
        BY <2>2, <2>3, <3>1, <3>3, TimerTouchesNone
      <3>4. CASE Reconcile
        BY <1>1, <1>2, <2>1, <2>2, <3>1, <3>4, ReconcileGathers DEF Timer
      <3>5. CASE Life
        BY <1>1, <2>2, <3>1, <3>5, LifeReaches
      <3>6. CASE Environment
        BY <1>1, <2>1, <3>6, EnvironmentReaches DEF Reached
      <3>7. QED
        BY <2>5, <3>2, <3>3, <3>4, <3>5, <3>6 DEF Next
    <2>6. QED
      BY <2>4, <2>5
  <1>3. QED
    BY <1>1, <1>2, ReachedNext DEF ReachInv

LEMMA InitReaches == Init => ReachInv /\ UpInv
  <1> SUFFICES ASSUME Init PROVE ReachInv /\ UpInv
    OBVIOUS
  <1>1. HidingInv /\ plugged = Monitors /\ ~Running
    BY InitHiding DEF Init, Running
  <1>2. PICK live \in [Windows -> BOOLEAN], at \in [Windows -> Monitors] :
          desk = [win     |-> [w \in Windows |-> NewWindow(w, live[w], at[w])],
                  spaces  |-> [m \in Monitors |-> <<>>],
                  current |-> [m \in Monitors |-> 1],
                  pinned  |-> {}, focus |-> {}, fg |-> NoWindow]
    BY DEF Init
  <1>3. /\ desk.pinned = {}
        /\ \A w \in Windows : desk.win[w] = NewWindow(w, live[w], at[w])
    BY <1>2
  <1>4. ASSUME NEW w \in Windows PROVE Reachable(desk.win[w], plugged)
    <2> DEFINE x == desk.win[w]
    <2>1. x = NewWindow(w, live[w], at[w])
      BY <1>3
    <2> HIDE DEF x
    <2>2. x.visible = "yes" /\ x.prop = {} /\ x.mon \in Monitors
      BY <2>1 DEF NewWindow
    <2>3. Reachable(x, plugged)
      BY <1>1, <2>2 DEF Reachable
    <2>4. QED
      BY <2>3 DEF x
  <1>5. QED
    BY <1>1, <1>3, <1>4 DEF ReachInv, Reached, UpInv

LEMMA PinsUpNext == PinsUp(desk') => PinsUp(desk)'
  BY DEF PinsUp, Table, HasHiddenBit

LEMMA StepUp ==
  ASSUME Orderly, Adoptable, UpInv, [Next]_vars PROVE UpInv'
  <1>1. "recycle" \notin Env /\ RulesHaveDisplays
    BY DEF Orderly, RulesHaveDisplays
  <1>2. ReachInv' /\ HidingInv /\ HidingInv'
    <2>1. ReachInv'
      BY <1>1, StepReaches DEF UpInv
    <2>2. QED
      BY <2>1 DEF UpInv, ReachInv
  <1>3. desk \in Desk /\ desk' \in Desk
    BY <1>2 DEF HidingInv, TypedBoundedApart, TypedAndBounded, TypeOK, Desk, Window
  <1>4. ASSUME Follows(desk, desk') \/ desk' = desk, PinsUp(desk),
               Table(desk) = {} => Table(desk') = {}
        PROVE  PinsUp(desk')
    BY <1>3, <1>4, FollowsUp, FollowsIsValid
  <1>5. ASSUME Running, Running' PROVE PinsUp(desk')
    <2>1. PinsUp(desk)
      BY <1>5 DEF UpInv
    <2>2. CASE UNCHANGED vars
      BY <2>1, <2>2 DEF vars
    <2>3. CASE Command \/ Event
      <3>1. FollowsValid(desk, desk')
        BY <1>1, <1>2, <2>3, CommandFollows, EventFollows
      <3>2. Table(desk) = {} => Table(desk') = {}
        BY <1>1, <1>2, <2>3, TableStays
      <3>3. QED
        BY <1>3, <2>1, <3>1, <3>2, FollowsUp
    <2>4. CASE Timer /\ ~Reconcile
      BY <2>1, <2>4, TimerTouchesNone
    <2>5. CASE Reconcile /\ "topology" \in Env
      BY <1>2, <2>1, <2>5, ReconcileGathers DEF UpInv, ReachInv
    <2>6. CASE Reconcile /\ "topology" \notin Env
      <3>1. Follows(desk, desk')
        BY <1>2, <2>6, ReconcileFollows
      <3>2. Table(desk) = {} => Monitors = {}
        BY <1>2, <1>5, <2>6 DEF HidingInv, Kept, Full, Table
      <3>3. Table(desk) = {} => Table(desk') = {}
        BY <3>2 DEF Table
      <3>4. QED
        BY <1>4, <2>1, <3>1, <3>3
    <2>7. CASE Environment
      <3>1. desk'.spaces = desk.spaces /\ desk'.pinned = desk.pinned
        BY <1>2, <2>7, EnvironmentSpaces, EnvironmentPins
        DEF HidingInv, TypedBoundedApart
      <3>2. \A w \in desk.pinned : desk'.win[w].live =>
              desk.win[w].live /\ desk'.win[w].prop = desk.win[w].prop
        BY <1>1, <1>2, <1>3, <2>7, EnvironmentReaches DEF Desk
      <3>3. QED
        BY <2>1, <3>1, <3>2 DEF PinsUp, Table, HasHiddenBit
    <2>8. QED
      BY <1>5, <2>2, <2>3, <2>4, <2>5, <2>6, <2>7
      DEF Next, Life, Exit, Crash, Start, Running
  <1>6. ASSUME ~Running, Running' PROVE PinsUp(desk')
    <2>1. Start
      <3>1. Next
        BY <1>6 DEF vars, Running
      <3>2. QED
        BY <1>6, <3>1, Frame DEF Next, Life, Exit, Crash, Running
    <2> DEFINE win == [v \in Windows |-> Reclaim(desk.win[v], proxy)]
               d == [desk EXCEPT !.win = win]
               e == Rebuilt(d)
    <2>2. /\ desk.pinned = {} /\ proxy \in Proxies /\ plugged \in SUBSET Monitors
          /\ Sound(desk)
      BY <1>2, <1>6, TidyParts DEF UpInv, HidingInv, Flags, Tidy
    <2>3. desk' = Scan(e)
      BY <2>1 DEF Start
    <2>4. win \in [Windows -> Window]
      BY <1>3, <2>2, ReclaimType DEF Desk
    <2> HIDE DEF win
    <2>5. d \in Desk /\ d.pinned = {} /\ Sound(d)
      BY <1>3, <2>2, <2>4, WinKeeps, KeepsSound DEF Keeps, Desk
    <2> HIDE DEF d
    <2>6. e.pinned = {} /\ e \in Desk
      BY <2>2, <2>5, RebuiltFrees, RebuiltSound DEF Sound
    <2> HIDE DEF e
    <2>7. Follows(e, desk')
      BY <2>3, <2>6, ScanFollows
    <2>8. QED
      BY <2>6, <2>7 DEF Follows, PinsFollow, Firm, PinsUp
  <1>7. ASSUME ~Running' PROVE desk'.pinned = {}
    <2>1. CASE Running
      <3>1. Exit \/ Crash
        <4>1. Next
          BY <1>7, <2>1 DEF vars, Running
        <4>2. QED
          BY <1>7, <2>1, <4>1, Frame DEF Next, Life, Start, Running
      <3>2. \A d \in Desk : Ended(d).pinned = {}
        BY DEF Ended, Desk
      <3>3. Released(desk) \in Desk
        BY <1>2, <1>3, TidyParts, ReleasedKeeps DEF Keeps, HidingInv, Flags
      <3>4. QED
        BY <1>3, <3>1, <3>2, <3>3 DEF Exit, Crash
    <2>2. CASE ~Running
      <3>1. desk.pinned = {}
        BY <2>2 DEF UpInv
      <3>2. CASE UNCHANGED vars
        BY <3>1, <3>2 DEF vars
      <3>3. CASE Environment
        BY <1>2, <3>1, <3>3, EnvironmentPins DEF HidingInv, TypedBoundedApart
      <3>4. CASE Timer /\ ~Reconcile
        BY <3>1, <3>4, TimerTouchesNone
      <3>5. ~(Command \/ Event \/ Reconcile \/ Life)
        BY <1>7, <2>2, HandlersRun DEF Reconcile, Life, Exit, Crash, Start, Running
      <3>6. QED
        BY <3>2, <3>3, <3>4, <3>5 DEF Next, Timer
    <2>3. QED
      BY <2>1, <2>2
  <1>8. QED
    BY <1>2, <1>5, <1>6, <1>7, PinsUpNext DEF UpInv

-----------------------------------------------------------------------------
(* The theorems *)

\* The strengthened invariant: a pinned window carries no hidden bit, and the
\* TRACKED bit as long as there is a display; where displays come and go, no
\* window is out of reach of the scan that ends a reconcile.
THEOREM UpAlwaysKept ==
  ASSUME Orderly, Adoptable PROVE Spec => []UpInv
  <1>1. UpInv /\ [Next]_vars => UpInv'
    BY StepUp
  <1>2. QED
    BY <1>1, InitReaches, PTL DEF Spec

\* Whichever space its display shows and whoever moved, dragged, re-homed or
\* lost the display of it, a pinned window is not hidden (should_be_visible,
\* set_sticky, handle_display_change), and it is tracked while a display is
\* attached.
THEOREM PinnedIsUpCorrect ==
  ASSUME Orderly, Adoptable PROVE Spec => []PinnedIsUp
  <1>1. UpInv => PinnedIsUp
    <2> SUFFICES ASSUME UpInv, NEW w \in desk.pinned, desk.win[w].live
                 PROVE  /\ Table(desk) # {} => Tracked(desk, w)
                        /\ ~HasHiddenBit(desk.win[w])
      BY DEF PinnedIsUp
    <2>1. Running /\ PinsUp(desk)
      BY DEF UpInv
    <2>2. w \in Windows /\ Booked(desk.win[w], Places(desk, w))
      BY <2>1 DEF UpInv, ReachInv, HidingInv, Kept, Books, Tidy, Sound, Desk
    <2>3. QED
      BY <2>1, <2>2 DEF PinsUp, Booked, Tracked
  <1>2. QED
    BY <1>1, UpAlwaysKept, PTL

\* No handler, timer or outside event makes the manager lose a window that it
\* tracks and that passes the probe: every method that takes it off a list puts
\* it on another (track_window), and what a vanished display held is adopted by
\* the scan that ends the reconcile.
THEOREM NeverSilentlyUntrackedCorrect ==
  ASSUME "recycle" \notin Env, "topology" \in Env => Orderly /\ Adoptable
  PROVE  Spec => NeverSilentlyUntracked
  <1>1. ASSUME ReachInv, ReachInv', Next, Running, Running', plugged' # {},
               NEW w \in Windows, Tracked(desk, w), Valid(desk, w), desk'.win[w].live
        PROVE  Tracked(desk', w)
    <2>1. HidingInv /\ RulesHaveDisplays /\ Kept(desk) /\ desk.win[w].live
      BY <1>1 DEF ReachInv, HidingInv, RulesHaveDisplays, Orderly, Valid, IsValid
    <2>2. "TRACKED" \in desk.win[w].prop
      BY <1>1, <2>1 DEF Kept, Books, Booked, Tracked
    <2>3. Places(desk', w) = Places(desk, w)'
      BY DEF Places
    <2>4. ASSUME "TRACKED" \in desk'.win[w].prop PROVE Tracked(desk', w)
      <3>1. Kept(desk)'
        BY <1>1 DEF ReachInv, HidingInv
      <3>2. Booked(desk.win[w], Places(desk, w))'
        BY <3>1 DEF Kept, Books
      <3>3. Places(desk, w)' # {}
        BY <1>1, <2>4, <3>2 DEF Booked
      <3>4. QED
        BY <2>3, <3>3 DEF Tracked
    <2>5. CASE Command \/ Event
      BY <1>1, <2>1, <2>2, <2>4, <2>5, CommandFollows, EventFollows
      DEF FollowsValid, StaysMarked
    <2>6. CASE Timer /\ ~Reconcile
      BY <2>2, <2>4, <2>6, TimerTouchesNone
    <2>7. CASE Reconcile /\ "topology" \in Env
      <3>1. plugged # {}
        BY <1>1, <2>7, Frame DEF Timer
      <3>2. StaysMarked(desk.win[w], desk'.win[w])
        BY <1>1, <2>1, <2>7, <3>1, ReconcileGathers DEF ReachInv
      <3>3. QED
        BY <2>2, <2>4, <3>2 DEF StaysMarked
    <2>8. CASE Reconcile /\ "topology" \notin Env
      BY <2>1, <2>2, <2>4, <2>8, ReconcileFollows DEF Follows, StaysMarked
    <2>9. CASE Environment
      <3>1. desk'.spaces = desk.spaces
        BY <2>1, <2>9, EnvironmentSpaces DEF HidingInv, TypedBoundedApart
      <3>2. QED
        BY <1>1, <3>1 DEF Tracked, Places
    <2>10. QED
      BY <1>1, <2>5, <2>6, <2>7, <2>8, <2>9
      DEF Next, Life, Exit, Crash, Start, Running
  <1>2. ReachInv /\ ReachInv' /\ [Next]_vars =>
          [Running /\ Running' /\ plugged' # {} =>
             \A w \in Windows : Tracked(desk, w) /\ Valid(desk, w) /\ desk'.win[w].live
                                  => Tracked(desk', w)]_vars
    BY <1>1, Zenon
  <1>3. ReachInv /\ [Next]_vars => ReachInv'
    BY StepReaches
  <1>4. QED
    BY <1>2, <1>3, InitReaches, PTL DEF Spec, NeverSilentlyUntracked

-----------------------------------------------------------------------------
(* What a switch leaves on screen *)

\* The visibility pass shows what it must and hides the rest, whatever was on
\* screen before.
LEMMA RefreshSettles ==
  ASSUME NEW d, Kept(d), NEW m \in Monitors, Orderly, Undisturbed,
         showAll \in BOOLEAN, Steady
  PROVE  Settled(Refresh(d, {m}), m)
  <1> DEFINE e == Refresh(d, {m})
             win == [w \in Windows |->
                       IF ~Valid(d, w) \/ w \notin On(d, m) THEN d.win[w]
                       ELSE IF w \in Up(d, m) THEN Show(d.win[w], proxy)
                       ELSE Hide(d.win[w], showAll, proxy)]
  <1>1. Sound(d) /\ d \in Desk /\ proxy \in Proxies /\ proxy # "noop"
    BY DEF Kept, Tidy, Sound, Steady
  <1>2. e = [d EXCEPT !.win = win]
    BY DEF Refresh
  <1> HIDE DEF win
  <1>3. /\ e.win = win /\ e.spaces = d.spaces /\ e.current = d.current
        /\ e.pinned = d.pinned
    BY <1>1, <1>2 DEF Desk
  <1> HIDE DEF e
  <1>4. On(e, m) = On(d, m) /\ Up(e, m) = Up(d, m)
    BY <1>3 DEF On, Up
  <1> SUFFICES ASSUME NEW w \in On(d, m), IsValid(win[w])
               PROVE  IF w \in Up(d, m)
                      THEN /\ win[w].cloak = {} /\ win[w].visible = "yes"
                           /\ ~HasHiddenBit(win[w])
                      ELSE ~OnScreen(win[w])
    BY <1>3, <1>4 DEF Settled, Valid, e
  <1>5. w \in Windows
    BY <1>1, DomainIsLen DEF On, Desk
  <1> DEFINE x == d.win[w]
  <1>6. Booked(x, Places(d, w)) /\ Places(d, w) # {} /\ x \in Window
    BY <1>1, <1>5, OnIsTracked DEF Kept, Books, Booked, Sane
  <1>7. IsValid(x)
    BY <1>5 DEF win, Valid
  <1>8. /\ Safe(x) /\ Effective(x) /\ x.prop # {} /\ "SYSTEM_HIDDEN" \notin x.prop
    BY <1>6, <1>7, TrackedIsNoSystem DEF Booked, Sane, IsValid
  <1>9. CASE w \in Up(d, m)
    <2>1. win[w] = Show(x, proxy)
      BY <1>5, <1>7, <1>9 DEF win, Valid
    <2>2. Free(win[w]) /\ ~HasHiddenBit(win[w])
      BY <1>1, <1>6, <1>8, <2>1, ShowFrees
    <2>3. QED
      BY <1>9, <2>2 DEF Free, IsValid
  <1>10. CASE w \notin Up(d, m)
    <2>1. win[w] = Hide(x, showAll, proxy)
      BY <1>5, <1>7, <1>10 DEF win, Valid
    <2>2. QED
      BY <1>1, <1>6, <1>8, <1>10, <2>1, HideEffective
  <1>11. QED
    BY <1>9, <1>10

LEMMA FocusedSettles ==
  ASSUME NEW d \in Desk, NEW m, NEW w, Settled(d, m)
  PROVE  Settled(Focused(d, w), m)
  <1>1. /\ Focused(d, w).win = d.win /\ Focused(d, w).spaces = d.spaces
        /\ Focused(d, w).current = d.current /\ Focused(d, w).pinned = d.pinned
    BY DEF Focused, Desk
  <1>2. QED
    BY <1>1 DEF Settled, On, Up, Valid

\* So does switch_space, whichever windows its scan adopts and whichever it
\* focuses.
LEMMA SwitchFromSettles ==
  ASSUME NEW d, Kept(d), NEW m \in Monitors, NEW i \in DOMAIN d.spaces[m],
         NEW a \in Windows \cup {NoWindow}, SwitchFrom(d, m, i, a),
         Orderly, Undisturbed, showAll \in BOOLEAN, Steady
  PROVE  Settled(desk', m)
  <1>1. PICK scanned \in {d, Scan(d)} :
          LET switched == Switch(scanned, m, i)
          IN  IF a # NoWindow THEN desk' = Focused(switched, a)
              ELSE \E w \in Landing(switched, m) : desk' = Focused(switched, w)
    BY DEF SwitchFrom
  <1> DEFINE switched == Switch(scanned, m, i)
  <1>2. Sound(d) /\ d \in Desk /\ proxy \in Proxies
    BY DEF Kept, Tidy, Sound, Steady
  <1>3. Keeps(d, scanned) /\ Kept(scanned)
    BY <1>2, ScanKeeps, KeepsSelf, ScanKept
  <1>4. i \in DOMAIN scanned.spaces[m]
    BY <1>2, <1>3, DomainIsLen DEF Keeps, SameShape
  <1>5. switched = Refresh(Turned(scanned, m, i), {m})
    BY DEF Switch, Turned
  <1>6. switched \in Desk
    BY <1>3, <1>4, SwitchKept DEF Kept, Tidy, Sound
  <1>7. Settled(switched, m)
    <2>1. Kept(Turned(scanned, m, i))
      BY <1>3, <1>4, TurnedKept
    <2> HIDE DEF switched
    <2>2. QED
      BY <1>5, <2>1, RefreshSettles
  <1> HIDE DEF switched
  <1>8. PICK w : desk' = Focused(switched, w)
    BY <1>1 DEF switched
  <1>9. QED
    BY <1>6, <1>7, <1>8, FocusedSettles

\* Whatever the windows did since the last one, after a switch, a move that
\* switches or a removal, the windows of the display that pass the probe are in
\* view exactly where should_be_visible wants them: none that is up is hidden,
\* and none that belongs to another space is on screen.
THEOREM SwitchSettlesCorrect ==
  ASSUME Orderly, Undisturbed PROVE Spec => SwitchSettles
  <1>1. ASSUME HidingInv, NEW m \in Monitors,
               SwitchOf(m) \/ MoveToSpace(m, desk'.current[m])
        PROVE  Settled(desk', m)
    <2>1. TypedBoundedApart /\ Steady /\ showAll \in BOOLEAN /\ proxy \in Proxies
      BY <1>1, TidyParts DEF HidingInv, Given, Flags, Steady
    <2>2. Tidy(desk) /\ Sound(desk) /\ desk \in Desk
      BY <2>1, TidyParts DEF Tidy, Sound
    <2>3. Running => Kept(desk)
      BY <1>1 DEF HidingInv
    <2>4. CASE TraySwitch(m, desk'.current[m])
      BY <2>1, <2>3, <2>4, SwitchFromSettles DEF TraySwitch
    <2>5. ASSUME NEW i, RemoveSpace(m, i) PROVE Settled(desk', m)
      <3> DEFINE d == Shortened(desk, m, i)
      <3>1. /\ i \in DOMAIN desk.spaces[m] /\ Len(desk.spaces[m]) > 1 /\ Running
            /\ SwitchFrom(d, m, d.current[m], NoWindow)
        BY <2>5 DEF RemoveSpace
      <3>2. Kept(d) /\ d.current[m] \in DOMAIN d.spaces[m]
        BY <2>1, <2>2, <2>3, <3>1, ShortenedSound, ShortenedKept
      <3> HIDE DEF d
      <3>3. QED
        BY <2>1, <3>1, <3>2, SwitchFromSettles
    <2>6. ASSUME NEW i, MoveToSpace(m, i) PROVE Settled(desk', m)
      <3> DEFINE d == Track(desk, desk.fg, m, i)
      <3>1. /\ desk.fg \in Windows /\ i \in DOMAIN desk.spaces[m]
            /\ m \in Table(desk) /\ SwitchFrom(d, m, i, desk.fg) /\ Running
        BY <2>2, <2>6 DEF MoveToSpace, Desk
      <3>2. Keeps(desk, d) /\ Kept(d)
        BY <2>1, <2>2, <2>3, <3>1, DomainIsLen, TrackKeeps, TrackKept
      <3> HIDE DEF d
      <3>3. i \in DOMAIN d.spaces[m]
        BY <2>2, <3>1, <3>2, DomainIsLen DEF Keeps, SameShape
      <3>4. QED
        BY <2>1, <3>1, <3>2, <3>3, SwitchFromSettles
    <2>7. QED
      BY <1>1, <2>4, <2>5, <2>6 DEF SwitchOf
  <1>2. HidingInv =>
          [\A m \in Monitors : ~Settled(desk', m) =>
             ~SwitchOf(m) /\ ~MoveToSpace(m, desk'.current[m])]_vars
    BY <1>1
  <1>3. "recycle" \notin Env
    BY DEF Orderly
  <1>4. QED
    BY <1>2, <1>3, HidingAlwaysKept, PTL DEF SwitchSettles

-----------------------------------------------------------------------------
(* The record of a hidden window, whatever the shell cloak answers.  A method *)
(* is judged by what it makes of each window, given what was true of it.      *)

\* Where displays stay attached and, if a handle may be reused, no window is on
\* the list of system windows: a display that vanishes takes the records of its
\* windows with it, and a reused handle can be listed with the property of a
\* system window.
Tame == /\ "topology" \notin Env
        /\ "recycle" \in Env => SystemWindows = {}

\* A window with a property is hidden in one way at most, and on record; only
\* an untracked system window is under a DWM cloak that is not the daemon's own.
Traced(x) ==
  /\ Blank(x)
  /\ x.prop # {} =>
       /\ Recorded(x)
       /\ \A a, b \in x.prop \cap HIDDEN_MASK : a = b
       /\ "dwm" \in x.cloak /\ "CLOAKED" \notin x.prop =>
            ~HasHiddenBit(x) /\ "TRACKED" \notin x.prop
  /\ "SYSTEM_HIDDEN" \in x.prop => SystemWindows # {}

Carried(x, y) ==
  /\ y.titled = x.titled
  /\ Traced(x) => Traced(y) /\ (x.titled /\ Recorded(x) => Recorded(y))

\* No display of d, and no record of a window with a title, is lost in e.
Carries(d, e) ==
  /\ Table(d) \subseteq Table(e)
  /\ \A w \in Windows : Carried(d.win[w], e.win[w])

LEMMA CarriedCompose ==
  ASSUME NEW x, NEW y, NEW z, Carried(x, y), Carried(y, z) PROVE Carried(x, z)
  BY DEF Carried

LEMMA CarriedSelf == \A x : Carried(x, x)
  BY DEF Carried

LEMMA CarriesCompose ==
  ASSUME NEW d, NEW e, NEW f, Carries(d, e), Carries(e, f) PROVE Carries(d, f)
  <1>1. \A w \in Windows : Carried(d.win[w], f.win[w])
    BY CarriedCompose DEF Carries
  <1>2. QED
    BY <1>1 DEF Carries

LEMMA CarriesFrom ==
  ASSUME NEW d, NEW e, Keeps(d, e), \A w \in Windows : Carried(d.win[w], e.win[w])
  PROVE  Carries(d, e)
  BY DEF Carries, Keeps, SameShape, Table

LEMMA SameCarries ==
  ASSUME NEW d, NEW e, e.win = d.win, Table(d) \subseteq Table(e) PROVE Carries(d, e)
  BY CarriedSelf DEF Carries

\* A window that passes the probe is under no DWM cloak but the daemon's own.
LEMMA ValidIsOurs ==
  ASSUME NEW x, Traced(x), IsValid(x)
  PROVE  /\ "dwm" \in x.cloak => "CLOAKED" \in x.prop
         /\ Recorded(x)
  BY DEF Traced, IsValid, ExternallyCloaked, HasHiddenBit, HIDDEN_MASK, Recorded

\* One the probe rejects has nothing on record but, if a system window, that.
LEMMA RejectedHasNone ==
  ASSUME NEW x \in Window, Traced(x), ~IsValid(x), x.titled, Recorded(x),
         SystemWindows = {} \/ ~x.live \/ "TRACKED" \in x.prop
  PROVE  x.cloak = {} /\ x.visible # "us"
  <1>1. CASE ~x.live
    BY <1>1 DEF Traced, Blank
  <1>2. CASE x.live
    <2>1. "dwm" \in x.cloak => "CLOAKED" \in x.prop
      <3>1. "dwm" \in x.cloak /\ "CLOAKED" \notin x.prop =>
              "SYSTEM_HIDDEN" \in x.prop /\ "TRACKED" \notin x.prop
        BY DEF Traced, Recorded
      <3>2. QED
        BY <1>2, <3>1 DEF Traced
    <2>2. ~ExternallyCloaked(x)
      <3>1. x.cloak \subseteq {"dwm", "shell"}
        BY DEF Window, Layers
      <3>2. QED
        BY <2>1, <3>1 DEF ExternallyCloaked, Recorded
    <2>3. ~HasHiddenBit(x) /\ x.visible # "yes"
      BY <1>2, <2>2 DEF IsValid
    <2>4. x.cloak = {}
      <3>1. x.cloak \subseteq {"dwm", "shell"}
        BY DEF Window, Layers
      <3>2. QED
        BY <2>1, <2>3, <3>1 DEF Recorded, HasHiddenBit, HIDDEN_MASK
    <2>5. x.visible # "us"
      BY <2>3 DEF Recorded, HasHiddenBit, HIDDEN_MASK
    <2>6. QED
      BY <2>4, <2>5
  <1>3. QED
    BY <1>1, <1>2

LEMMA ForgottenCarried ==
  ASSUME NEW x \in Window, ~IsValid(x),
         SystemWindows = {} \/ ~x.live \/ "TRACKED" \in x.prop
  PROVE  Carried(x, Forgotten(x))
  <1> DEFINE y == Forgotten(x)
  <1>1. /\ y.live = x.live /\ y.titled = x.titled /\ y.cloak = x.cloak
        /\ y.visible = x.visible /\ y.prop = {}
    BY DEF Forgotten, Window
  <1> HIDE DEF y
  <1>2. Traced(x) => Traced(y)
    BY <1>1 DEF Traced, Blank
  <1>3. Traced(x) /\ x.titled /\ Recorded(x) => Recorded(y)
    BY <1>1, RejectedHasNone DEF Recorded
  <1>4. QED
    BY <1>1, <1>2, <1>3 DEF Carried, y

LEMMA ShowCarried ==
  ASSUME NEW x \in Window, NEW p PROVE Carried(x, Show(x, p))
  <1> DEFINE y == Show(x, p)
  <1>1. CASE x.prop = {}
    BY <1>1, ShowKeeps, CarriedSelf
  <1>2. CASE x.prop # {}
    <2>1. /\ y.cloak = ShownLayers(x, p)
          /\ y.visible = IF ComesBack(x) THEN "yes" ELSE x.visible
          /\ y.prop = ShownProp(x, p)
          /\ y.live = x.live /\ y.titled = x.titled
      BY <1>2, ShowIs
    <2>2. /\ "TRACKED" \in y.prop <=> "TRACKED" \in x.prop
          /\ "SYSTEM_HIDDEN" \in y.prop <=> "SYSTEM_HIDDEN" \in x.prop
      BY ShowKeeps
    <2> HIDE DEF y
    <2> SUFFICES ASSUME Traced(x) PROVE Traced(y) /\ Recorded(y)
      BY <2>1 DEF Carried, y
    <2>3. /\ x.live /\ Recorded(x) /\ \A a, b \in x.prop \cap HIDDEN_MASK : a = b
          /\ "dwm" \in x.cloak /\ "CLOAKED" \notin x.prop =>
               ~HasHiddenBit(x) /\ "TRACKED" \notin x.prop
          /\ x.cloak \subseteq {"dwm", "shell"}
      BY <1>2 DEF Traced, Blank, Window, Layers
    <2>4. CASE ~HasHiddenBit(x)
      <3>1. /\ "CLOAKED" \notin x.prop /\ "SHELL_CLOAKED" \notin x.prop
            /\ "FORCED_MINIMIZED" \notin x.prop /\ "SW_HIDDEN" \notin x.prop
        BY <2>4 DEF HasHiddenBit, HIDDEN_MASK
      <3>2. y.cloak = x.cloak /\ y.prop = x.prop
        BY <2>1, <3>1 DEF ShownLayers, ShownProp, Unforced
      <3>3. Recorded(y)
        BY <2>1, <2>3, <3>1, <3>2 DEF Recorded
      <3>4. Traced(y)
        BY <2>1, <2>3, <3>2, <3>3 DEF Traced, Blank, HasHiddenBit
      <3>5. QED
        BY <3>3, <3>4
    <2>5. CASE "CLOAKED" \in x.prop
      <3>1. /\ "SHELL_CLOAKED" \notin x.prop /\ "FORCED_MINIMIZED" \notin x.prop
            /\ "SW_HIDDEN" \notin x.prop
        BY <2>3, <2>5 DEF HIDDEN_MASK
      <3>2. x.visible # "us" /\ "shell" \notin x.cloak
        BY <2>3, <3>1 DEF Recorded
      <3>3. y.cloak \subseteq {"dwm"}
        BY <2>1, <2>3, <2>5, <3>1, <3>2 DEF ShownLayers
      <3>4. /\ "dwm" \in y.cloak => "CLOAKED" \in y.prop
            /\ y.prop \cap HIDDEN_MASK \subseteq {"CLOAKED"}
        <4>1. /\ "dwm" \in y.cloak => p = "stuck"
              /\ SurvivingBit(y.cloak) \subseteq {"CLOAKED"}
          BY <2>1, <2>5, <3>3 DEF ShownLayers, SurvivingBit
        <4>2. y.prop = ShownProp(x, p) /\ ShownLayers(x, p) = y.cloak
          BY <2>1
        <4>3. QED
          BY <2>5, <3>1, <4>1, <4>2 DEF ShownProp, HIDDEN_MASK
      <3>5. y.visible # "us"
        BY <2>1, <3>2
      <3>6. Recorded(y)
        BY <3>3, <3>4, <3>5 DEF Recorded
      <3>7. QED
        BY <2>1, <2>2, <2>3, <3>3, <3>4, <3>6 DEF Traced, Blank
    <2>6. CASE "SHELL_CLOAKED" \in x.prop
      <3>1. /\ "CLOAKED" \notin x.prop /\ "FORCED_MINIMIZED" \notin x.prop
            /\ "SW_HIDDEN" \notin x.prop
        BY <2>3, <2>6 DEF HIDDEN_MASK
      <3>2. x.visible # "us" /\ "dwm" \notin x.cloak
        BY <2>3, <2>6, <3>1 DEF Recorded, HasHiddenBit, HIDDEN_MASK
      <3>3. y.cloak = {} \/ y.cloak = {"shell"}
        BY <2>1, <2>3, <3>2 DEF ShownLayers
      <3>4. /\ y.cloak = {"shell"} => "SHELL_CLOAKED" \in y.prop
            /\ y.prop \cap HIDDEN_MASK \subseteq {"SHELL_CLOAKED"}
        <4>1. SurvivingBit(y.cloak) = IF y.cloak = {} THEN {} ELSE {"SHELL_CLOAKED"}
          BY <3>3 DEF SurvivingBit
        <4>2. y.prop = ShownProp(x, p) /\ ShownLayers(x, p) = y.cloak
          BY <2>1
        <4>3. QED
          BY <2>6, <3>1, <4>1, <4>2 DEF ShownProp, HIDDEN_MASK
      <3>5. y.visible # "us"
        BY <2>1, <3>2
      <3>6. Recorded(y) /\ "dwm" \notin y.cloak
        BY <3>3, <3>4, <3>5 DEF Recorded
      <3>7. QED
        BY <2>1, <2>2, <2>3, <3>4, <3>6 DEF Traced, Blank
    <2>7. CASE "FORCED_MINIMIZED" \in x.prop \/ "SW_HIDDEN" \in x.prop
      <3>1. "CLOAKED" \notin x.prop /\ "SHELL_CLOAKED" \notin x.prop
        BY <2>3, <2>7 DEF HIDDEN_MASK
      <3>2. x.cloak = {}
        BY <2>3, <2>7, <3>1 DEF Recorded, HasHiddenBit, HIDDEN_MASK
      <3>3. y.cloak = {} /\ y.prop \subseteq x.prop
        BY <2>1, <3>1, <3>2 DEF ShownLayers, ShownProp
      <3>4. y.visible # "us"
        <4>1. CASE x.visible # "us"
          BY <2>1, <4>1
        <4>2. CASE x.visible = "us"
          <5>1. "SW_HIDDEN" \in x.prop /\ "FORCED_MINIMIZED" \notin x.prop
            BY <2>3, <4>2 DEF Recorded, HIDDEN_MASK
          <5>2. ComesBack(x)
            BY <3>1 DEF ComesBack, Reminimized
          <5>3. QED
            BY <2>1, <5>2
        <4>3. QED
          BY <4>1, <4>2
      <3>5. Recorded(y)
        BY <3>3, <3>4 DEF Recorded
      <3>6. \A a, b \in y.prop \cap HIDDEN_MASK : a = b
        BY <2>3, <3>3
      <3>7. QED
        BY <2>1, <2>2, <2>3, <3>3, <3>5, <3>6 DEF Traced, Blank
    <2>8. QED
      BY <2>4, <2>5, <2>6, <2>7 DEF HasHiddenBit, HIDDEN_MASK
  <1>3. QED
    BY <1>1, <1>2

\* What Hide does to a window that no DWM cloak is on.
LEMMA HideTraces ==
  ASSUME NEW x \in Window, NEW a, NEW p,
         Traced(x) /\ x.prop # {} /\ ~HasHiddenBit(x) => "dwm" \notin x.cloak
  PROVE  Carried(x, Hide(x, a, p))
  <1> DEFINE y == Hide(x, a, p)
  <1>1. CASE x.prop = {} \/ HasHiddenBit(x)
    BY <1>1, CarriedSelf DEF Hide
  <1>2. CASE ~(x.prop = {} \/ HasHiddenBit(x))
    <2> DEFINE noted == IF x.iconic THEN x.prop \cup {"WAS_ICONIC"}
                                    ELSE x.prop \ {"WAS_ICONIC"}
               Done(bit, layer) ==
                 /\ y.prop = noted \cup {bit}
                 /\ y.cloak = x.cloak \cup layer
                 /\ y.visible = x.visible \/ (bit = "SW_HIDDEN" /\ layer = {})
    <2>1. y.live = x.live /\ y.titled = x.titled
      BY DEF Hide, Window
    <2>2. \/ Done("SHELL_CLOAKED", {"shell"}) \/ Done("SHELL_CLOAKED", {})
          \/ Done("FORCED_MINIMIZED", {}) \/ Done("CLOAKED", {"dwm"})
          \/ Done("SW_HIDDEN", {})
          \/ y.prop = noted /\ y.cloak = x.cloak /\ y.visible = x.visible
      BY <1>2 DEF Hide, Window, ShellActs
    <2> HIDE DEF y
    <2> SUFFICES ASSUME Traced(x) PROVE Traced(y) /\ Recorded(y)
      BY <2>1 DEF Carried, y
    <2>3. /\ x.live /\ "dwm" \notin x.cloak /\ "shell" \notin x.cloak
          /\ x.visible # "us" /\ x.cloak = {}
          /\ \A b \in HIDDEN_MASK : b \notin x.prop
      BY <1>2 DEF Traced, Blank, Recorded, HasHiddenBit, HIDDEN_MASK, Window, Layers
    <2>4. /\ \A b \in HIDDEN_MASK : b \notin noted
          /\ "SYSTEM_HIDDEN" \in noted => "SYSTEM_HIDDEN" \in x.prop
      BY <2>3 DEF HIDDEN_MASK
    <2> HIDE DEF noted
    <2>5. ASSUME Done("SHELL_CLOAKED", {"shell"}) \/ Done("SHELL_CLOAKED", {})
          PROVE  Traced(y) /\ Recorded(y)
      <3>1. /\ "SHELL_CLOAKED" \in y.prop /\ "dwm" \notin y.cloak /\ y.visible # "us"
            /\ y.prop \cap HIDDEN_MASK \subseteq {"SHELL_CLOAKED"}
            /\ "SYSTEM_HIDDEN" \in y.prop => "SYSTEM_HIDDEN" \in x.prop
        BY <2>3, <2>4, <2>5
      <3>2. Recorded(y)
        BY <3>1 DEF Recorded
      <3>3. QED
        BY <2>1, <2>3, <3>1, <3>2 DEF Traced, Blank
    <2>6. ASSUME Done("FORCED_MINIMIZED", {}) \/ Done("SW_HIDDEN", {})
          PROVE  Traced(y) /\ Recorded(y)
      <3>1. /\ y.cloak = {} /\ (y.visible = "us" => "SW_HIDDEN" \in y.prop)
            /\ \/ y.prop \cap HIDDEN_MASK \subseteq {"FORCED_MINIMIZED"}
               \/ y.prop \cap HIDDEN_MASK \subseteq {"SW_HIDDEN"}
            /\ "SYSTEM_HIDDEN" \in y.prop => "SYSTEM_HIDDEN" \in x.prop
        BY <2>3, <2>4, <2>6
      <3>2. Recorded(y)
        BY <3>1 DEF Recorded
      <3>3. QED
        BY <2>1, <2>3, <3>1, <3>2 DEF Traced, Blank
    <2>7. ASSUME Done("CLOAKED", {"dwm"}) PROVE Traced(y) /\ Recorded(y)
      <3>1. /\ "CLOAKED" \in y.prop /\ y.cloak = {"dwm"} /\ y.visible # "us"
            /\ y.prop \cap HIDDEN_MASK \subseteq {"CLOAKED"}
            /\ "SYSTEM_HIDDEN" \in y.prop => "SYSTEM_HIDDEN" \in x.prop
        BY <2>3, <2>4, <2>7
      <3>2. Recorded(y)
        BY <3>1 DEF Recorded
      <3>3. QED
        BY <2>1, <2>3, <3>1, <3>2 DEF Traced, Blank
    <2>8. ASSUME y.prop = noted, y.cloak = x.cloak, y.visible = x.visible
          PROVE  Traced(y) /\ Recorded(y)
      <3>1. Recorded(y)
        BY <2>3, <2>8 DEF Recorded
      <3>2. QED
        BY <2>1, <2>3, <2>4, <2>8, <3>1 DEF Traced, Blank
    <2>9. QED
      BY <2>2, <2>5, <2>6, <2>7, <2>8
  <1>3. QED
    BY <1>1, <1>2

LEMMA HideCarried ==
  ASSUME NEW x \in Window, IsValid(x), NEW a, NEW p PROVE Carried(x, Hide(x, a, p))
  <1>1. Traced(x) /\ x.prop # {} /\ ~HasHiddenBit(x) => "dwm" \notin x.cloak
    BY ValidIsOurs DEF HasHiddenBit, HIDDEN_MASK
  <1>2. QED
    BY <1>1, HideTraces

\* Shown, a window that passes the probe is under no DWM cloak that is not on
\* record, so that hiding it anew is safe.
LEMMA RehideCarried ==
  ASSUME NEW x \in Window, IsValid(x), NEW a, NEW p \in Proxies
  PROVE  Carried(x, Hide(Show(x, p), a, p))
  <1> DEFINE y == Show(x, p)
  <1>1. y \in Window /\ Carried(x, y)
    BY ShowType, ShowCarried
  <1>2. Traced(x) => "dwm" \notin y.cloak \/ HasHiddenBit(y)
    <2>1. Traced(x) /\ "dwm" \in x.cloak => "CLOAKED" \in x.prop
      BY ValidIsOurs
    <2>2. x.prop # {} => y.cloak = ShownLayers(x, p) /\ y.prop = ShownProp(x, p)
      BY ShowIs
    <2>3. x.prop = {} => y = x
      BY ShowKeeps
    <2> HIDE DEF y
    <2>4. QED
      BY <2>1, <2>2, <2>3 DEF ShownLayers, ShownProp, HasHiddenBit, HIDDEN_MASK
  <1> HIDE DEF y
  <1>3. CASE Traced(x)
    <2>1. Carried(y, Hide(y, a, p))
      BY <1>1, <1>2, <1>3, HideTraces
    <2>2. QED
      BY <1>1, <2>1, CarriedCompose DEF y
  <1>4. CASE ~Traced(x)
    <2>1. Hide(y, a, p).titled = y.titled
      BY <1>1 DEF Hide, Window
    <2>2. QED
      BY <1>1, <1>4, <2>1 DEF Carried, y
  <1>5. QED
    BY <1>3, <1>4

LEMMA MarkedCarried ==
  ASSUME NEW x \in Window, IsValid(x) PROVE Carried(x, Marked(x))
  <1> DEFINE y == Marked(x)
  <1>1. /\ y.live = x.live /\ y.titled = x.titled /\ y.cloak = x.cloak
        /\ y.visible = x.visible /\ y.prop = TrackedProp(x)
    BY DEF Marked, Window
  <1>2. /\ "SYSTEM_HIDDEN" \notin y.prop
        /\ y.prop \cap HIDDEN_MASK = x.prop \cap HIDDEN_MASK
    BY <1>1 DEF TrackedProp, HIDDEN_MASK
  <1>3. \A b \in HIDDEN_MASK : b \in y.prop <=> b \in x.prop
    BY <1>2
  <1> HIDE DEF y
  <1> SUFFICES ASSUME Traced(x) PROVE Traced(y) /\ Recorded(y)
    BY <1>1 DEF Carried, y
  <1>4. Recorded(x) /\ ("dwm" \in x.cloak => "CLOAKED" \in x.prop)
    BY ValidIsOurs
  <1>5. Recorded(y) /\ ("dwm" \in y.cloak => "CLOAKED" \in y.prop)
    BY <1>1, <1>3, <1>4 DEF Recorded, HIDDEN_MASK
  <1>6. \A a, b \in x.prop \cap HIDDEN_MASK : a = b
    BY DEF Traced
  <1>7. x.live
    BY DEF IsValid
  <1>8. QED
    BY <1>1, <1>2, <1>5, <1>6, <1>7 DEF Traced, Blank

LEMMA HideSystemCarried ==
  ASSUME NEW x \in Window, x.live, ~HasHiddenBit(x), "TRACKED" \notin x.prop,
         SystemWindowIsShowing(x), SystemWindows # {}
  PROVE  Carried(x, HideSystem(x))
  <1> DEFINE y == HideSystem(x)
  <1>1. /\ y.live = x.live /\ y.titled = x.titled /\ y.visible = "app"
        /\ y.cloak \subseteq {"dwm"} /\ y.prop = x.prop \cup {"SYSTEM_HIDDEN"}
    BY DEF HideSystem, Window, SystemWindowIsShowing
  <1> HIDE DEF y
  <1>2. ~HasHiddenBit(y) /\ "TRACKED" \notin y.prop
    BY <1>1 DEF HasHiddenBit, HIDDEN_MASK
  <1>3. Recorded(y)
    BY <1>1 DEF Recorded
  <1>4. Traced(y)
    BY <1>1, <1>2, <1>3 DEF Traced, Blank, HasHiddenBit
  <1>5. QED
    BY <1>1, <1>3, <1>4 DEF Carried, y

LEMMA LetGoCarried ==
  ASSUME NEW x \in Window, NEW p, ~IsValid(x),
         SystemWindows = {} \/ ~x.live \/ "TRACKED" \in x.prop, p \in Proxies
  PROVE  Carried(x, Forgotten(Show(x, p)))
  <1> DEFINE y == Show(x, p)
             z == Forgotten(y)
  <1>1. Carried(x, y) /\ y \in Window /\ y.live = x.live
    BY ShowCarried, ShowType, ShowKeeps
  <1> HIDE DEF y
  <1>2. /\ z.live = y.live /\ z.titled = y.titled /\ z.cloak = y.cloak
        /\ z.visible = y.visible /\ z.prop = {}
    BY <1>1 DEF Forgotten, Window
  <1> HIDE DEF z
  <1>3. Traced(y) => Traced(z)
    BY <1>2 DEF Traced, Blank
  <1>4. ASSUME Traced(x), x.titled, Recorded(x) PROVE Recorded(z)
    <2>1. x.cloak = {} /\ x.visible # "us"
      BY <1>4, RejectedHasNone
    <2>2. y.cloak = {} /\ y.visible # "us"
      <3>1. CASE x.prop = {}
        BY <2>1, <3>1, ShowKeeps DEF y
      <3>2. CASE x.prop # {}
        <4>1. /\ y.cloak = ShownLayers(x, p)
              /\ y.visible = IF ComesBack(x) THEN "yes" ELSE x.visible
          BY <3>2, ShowIs DEF y
        <4>2. QED
          BY <2>1, <4>1 DEF ShownLayers
      <3>3. QED
        BY <3>1, <3>2
    <2>3. QED
      BY <1>2, <2>2 DEF Recorded
  <1>5. QED
    BY <1>1, <1>2, <1>3, <1>4 DEF Carried, z, y

-----------------------------------------------------------------------------

LEMMA PlaceCarries ==
  ASSUME NEW d \in Desk, NEW to, DOMAIN to \subseteq Windows,
         \A w \in DOMAIN to : Valid(d, w)
  PROVE  Carries(d, Place(d, to))
  <1>1. \A w \in Windows :
          /\ d.win[w] \in Window
          /\ Place(d, to).win[w] = IF w \in DOMAIN to THEN Marked(d.win[w]) ELSE d.win[w]
    <2>1. \A w \in Windows : d.win[w] \in Window
      BY DEF Desk
    <2>2. QED
      BY <2>1, PlaceWin
  <1>2. \A w \in Windows : Carried(d.win[w], Place(d, to).win[w])
    BY <1>1, MarkedCarried, CarriedSelf DEF Valid
  <1>3. QED
    BY <1>2, PlaceKeeps, CarriesFrom

LEMMA PruneCarries ==
  ASSUME NEW d \in Desk PROVE Carries(d, Prune(d)) /\ Prune(d).win = d.win
  <1>1. Prune(d).win = d.win
    BY DEF Prune, Desk
  <1>2. QED
    BY <1>1, PruneKeeps, CarriesFrom, CarriedSelf

LEMMA ScanCarries ==
  ASSUME NEW d \in Desk PROVE Carries(d, Scan(d))
  <1> DEFINE p       == Prune(d)
             seen    == {w \in Windows : p.win[w].live /\ ~HasHiddenBit(p.win[w])}
             system  == {w \in seen \cap SystemWindows :
                           p.win[w].titled /\ "TRACKED" \notin p.win[w].prop}
             hide    == {w \in system : /\ "SYSTEM_HIDDEN" \notin p.win[w].prop
                                        /\ SystemWindowIsShowing(p.win[w])}
             found   == {w \in seen \ system : Valid(p, w) /\ MonitorOf(p, w) # NoMonitor}
             drifted == {w \in found : Tracked(p, w) /\ Home(p, w)[1] # p.win[w].mon}
             adopt   == {w \in found : ~Tracked(p, w)}
                          \cup (IF MayRehome(TRUE) THEN drifted ELSE {})
             win     == [w \in Windows |->
                           IF w \in hide THEN HideSystem(p.win[w]) ELSE p.win[w]]
             swept   == [p EXCEPT !.win = win]
  <1>1. Keeps(d, p) /\ p \in Desk /\ Carries(d, p)
    BY PruneKeeps, PruneCarries DEF Keeps
  <1>2. Scan(d) = AtCurrent(swept, adopt)
    BY DEF Scan
  <1>3. /\ adopt \subseteq Windows
        /\ \A w \in adopt : w \notin hide /\ Valid(p, w)
        /\ \A w \in hide : /\ p.win[w].live /\ ~HasHiddenBit(p.win[w])
                           /\ "TRACKED" \notin p.win[w].prop
                           /\ SystemWindowIsShowing(p.win[w]) /\ SystemWindows # {}
    OBVIOUS
  <1> HIDE DEF hide, adopt, p
  <1>4. win \in [Windows -> Window]
    BY <1>1, HideSystemType DEF Desk
  <1>5. \A w \in Windows : Carried(p.win[w], win[w])
    <2>1. \A w \in hide \cap Windows : Carried(p.win[w], HideSystem(p.win[w]))
      BY <1>1, <1>3, HideSystemCarried DEF Desk
    <2>2. QED
      BY <2>1, CarriedSelf
  <1>6. \A w \in adopt : win[w] = p.win[w]
    BY <1>3
  <1> HIDE DEF win
  <1>7. swept \in Desk /\ swept.win = win /\ Keeps(p, swept)
    BY <1>1, <1>4, WinKeeps DEF Desk
  <1> HIDE DEF swept
  <1>8. Carries(p, swept)
    BY <1>5, <1>7, CarriesFrom
  <1>9. Carries(swept, AtCurrent(swept, adopt))
    <2>1. \A w \in adopt : Valid(swept, w)
      BY <1>3, <1>6, <1>7 DEF Valid
    <2> DEFINE to == [w \in adopt |-> <<swept.win[w].mon, swept.current[swept.win[w].mon]>>]
    <2>2. DOMAIN to = adopt /\ AtCurrent(swept, adopt) = Place(swept, to)
      BY DEF AtCurrent
    <2> HIDE DEF to
    <2>3. QED
      BY <1>3, <1>7, <2>1, <2>2, PlaceCarries
  <1>10. QED
    BY <1>1, <1>2, <1>8, <1>9, CarriesCompose

LEMMA RefreshCarries ==
  ASSUME NEW d \in Desk, NEW M, showAll \in BOOLEAN, proxy \in Proxies
  PROVE  Carries(d, Refresh(d, M))
  <1> DEFINE up  == UNION {Up(d, m) : m \in M}
             on  == UNION {On(d, m) : m \in M}
             win == [w \in Windows |->
                       IF ~Valid(d, w) \/ w \notin on THEN d.win[w]
                       ELSE IF w \in up THEN Show(d.win[w], proxy)
                       ELSE Hide(d.win[w], showAll, proxy)]
  <1>1. \A w \in Windows : d.win[w] \in Window
    BY DEF Desk
  <1>2. Refresh(d, M).win = win
    BY DEF Refresh, Desk
  <1> HIDE DEF up, on
  <1>3. \A w \in Windows : Carried(d.win[w], win[w])
    <2>1. \A w \in Windows : /\ Carried(d.win[w], Show(d.win[w], proxy))
                             /\ Carried(d.win[w], d.win[w])
                             /\ Valid(d, w) =>
                                  Carried(d.win[w], Hide(d.win[w], showAll, proxy))
      BY <1>1, ShowCarried, CarriedSelf, HideCarried DEF Valid
    <2>2. QED
      BY <2>1
  <1> HIDE DEF win
  <1>4. QED
    BY <1>2, <1>3, RefreshKeeps, CarriesFrom

LEMMA FocusedCarries ==
  ASSUME NEW d \in Desk, NEW w PROVE Carries(d, Focused(d, w))
  <1>1. Focused(d, w).win = d.win /\ Focused(d, w).spaces = d.spaces
    BY DEF Focused, Desk
  <1>2. QED
    BY <1>1, SameCarries DEF Table

LEMMA SwitchFromCarries ==
  ASSUME NEW d, Sound(d), NEW m \in Monitors, NEW i \in DOMAIN d.spaces[m],
         NEW a, SwitchFrom(d, m, i, a), showAll \in BOOLEAN, proxy \in Proxies
  PROVE  Carries(d, desk')
  <1>1. PICK scanned \in {d, Scan(d)} :
          \E v : desk' = Focused(Switch(scanned, m, i), v)
    BY DEF SwitchFrom
  <1> DEFINE left     == scanned.spaces[m][scanned.current[m]]
             remember == IF scanned.current[m] = i THEN scanned.focus
                         ELSE (scanned.focus \ left) \cup (left \cap {scanned.fg})
             e        == [scanned EXCEPT !.current[m] = i, !.focus = remember]
             switched == Refresh(e, {m})
  <1>2. Keeps(d, scanned) /\ Carries(d, scanned)
    BY ScanKeeps, ScanCarries, KeepsSelf, CarriesFrom, CarriedSelf DEF Sound
  <1>3. scanned \in Desk /\ Sound(scanned) /\ i \in DOMAIN scanned.spaces[m]
    BY <1>2, KeepsSound, DomainIsLen DEF Keeps, SameShape, Sound
  <1>4. Switch(scanned, m, i) = switched
    BY DEF Switch
  <1>5. e \in Desk
    <2>1. i \in Nat
      BY DomainIsLen DEF Sound
    <2>2. left \in SUBSET Windows
      <3>1. scanned.current[m] \in DOMAIN scanned.spaces[m]
        BY <1>2, <1>3, DomainIsLen DEF Sound, Bounded, Keeps, SameShape
      <3>2. QED
        BY <1>3, <3>1, DomainIsLen
    <2> HIDE DEF left
    <2>3. remember \in SUBSET Windows
      BY <1>3, <2>2 DEF Desk
    <2> HIDE DEF remember
    <2>4. QED
      BY <1>3, <2>1, <2>3 DEF Desk
  <1>6. e.win = scanned.win /\ e.spaces = scanned.spaces
    BY <1>3 DEF Desk
  <1> HIDE DEF e
  <1>7. Carries(scanned, e)
    BY <1>6, SameCarries DEF Table
  <1>8. Carries(e, switched) /\ switched \in Desk
    BY <1>5, RefreshCarries, RefreshKeeps DEF Keeps
  <1> HIDE DEF switched
  <1>9. Carries(switched, desk')
    BY <1>1, <1>4, <1>8, FocusedCarries
  <1>10. Carries(d, e)
    BY <1>2, <1>7, CarriesCompose
  <1>11. Carries(d, switched)
    BY <1>8, <1>10, CarriesCompose
  <1>12. QED
    BY <1>9, <1>11, CarriesCompose

\* Where the probe rejects a listed window, the property still says it is
\* listed: nothing is recorded that forgetting it would lose.
Marks(d) == SystemWindows # {} =>
              \A w \in Windows : Tracked(d, w) /\ d.win[w].live => "TRACKED" \in d.win[w].prop

LEMMA RemoveWindowCarries ==
  ASSUME NEW d \in Desk, NEW w \in Windows, Marks(d), ~Valid(d, w)
  PROVE  Carries(d, RemoveWindow(d, w))
  <1> DEFINE e == Detach(d, w)
             f == [e EXCEPT !.pinned = @ \ {w}, !.focus = @ \ {w}]
  <1>1. d.win[w] \in Window
    BY DEF Desk
  <1>2. /\ \A v \in Windows \ {w} : e.win[v] = d.win[v]
        /\ e.win[w] = d.win[w] \/ (Tracked(d, w) /\ e.win[w] = Forgotten(d.win[w]))
    BY DEF Detach, Desk
  <1>3. Tracked(d, w) => Carried(d.win[w], Forgotten(d.win[w]))
    BY <1>1, ForgottenCarried DEF Marks, Valid
  <1>4. e \in Desk
    BY DetachKeeps DEF Keeps
  <1> HIDE DEF e
  <1>5. f.win = e.win
    BY <1>4 DEF Desk
  <1>6. RemoveWindow(d, w) = f
    BY DEF RemoveWindow, e
  <1> HIDE DEF f
  <1>7. \A v \in Windows : Carried(d.win[v], f.win[v])
    BY <1>2, <1>3, <1>5, CarriedSelf
  <1>8. QED
    BY <1>6, <1>7, RemoveWindowKeeps, CarriesFrom

\* What track_window restores it restores as well as it can before it forgets.
LEMMA UntrackedCarries ==
  ASSUME NEW d \in Desk, NEW w \in Windows, Marks(d), ~Valid(d, w), proxy \in Proxies
  PROVE  Carries(d, Untracked(d, w))
  <1> DEFINE x == d.win[w]
             r == IF MustRestoreBeforeUntrack(x)
                  THEN [d EXCEPT !.win[w] = Show(@, proxy)] ELSE d
             e == RemoveWindow(r, w)
  <1>1. x \in Window /\ Show(x, proxy) \in Window
    BY ShowType DEF Desk
  <1>2. Keeps(d, r) /\ r \in Desk
    BY <1>1, WinAtKeeps, KeepsSelf DEF Keeps
  <1>3. /\ \A v \in Windows \ {w} : r.win[v] = d.win[v]
        /\ r.win[w] \in {x, Show(x, proxy)}
        /\ r.spaces = d.spaces
    BY DEF Desk
  <1> HIDE DEF r, x
  <1>4. /\ \A v \in Windows \ {w} : e.win[v] = r.win[v]
        /\ e.win[w] = r.win[w] \/ (Tracked(r, w) /\ e.win[w] = Forgotten(r.win[w]))
    <2> DEFINE f == Detach(r, w)
               g == [f EXCEPT !.pinned = @ \ {w}, !.focus = @ \ {w}]
    <2>1. /\ \A v \in Windows \ {w} : f.win[v] = r.win[v]
          /\ f.win[w] = r.win[w] \/ (Tracked(r, w) /\ f.win[w] = Forgotten(r.win[w]))
      BY <1>2 DEF Detach, Desk
    <2>2. f \in Desk
      BY <1>2, DetachKeeps DEF Keeps
    <2> HIDE DEF f
    <2>3. g.win = f.win
      BY <2>2 DEF Desk
    <2>4. e = g
      BY DEF RemoveWindow, f
    <2> HIDE DEF e, g
    <2>5. QED
      BY <2>1, <2>3, <2>4
  <1>5. Keeps(r, e)
    BY <1>2, RemoveWindowKeeps
  <1>6. Untracked(d, w) = e
    BY DEF Untracked, r, x
  <1> HIDE DEF e
  <1>7. Tracked(r, w) <=> Tracked(d, w)
    BY <1>3, SamePlaces DEF Tracked
  <1>8. Carried(x, x) /\ Carried(x, Show(x, proxy))
    BY <1>1, CarriedSelf, ShowCarried
  <1>9. Tracked(d, w) => Carried(x, Forgotten(x)) /\ Carried(x, Forgotten(Show(x, proxy)))
    BY <1>1, ForgottenCarried, LetGoCarried DEF Marks, Valid, x
  <1>10. Carried(x, e.win[w])
    BY <1>3, <1>4, <1>7, <1>8, <1>9
  <1>11. \A v \in Windows : Carried(d.win[v], e.win[v])
    BY <1>3, <1>4, <1>10, CarriedSelf DEF x
  <1>12. Keeps(d, e)
    BY <1>2, <1>5, KeepsTransitive
  <1>13. QED
    BY <1>6, <1>11, <1>12, CarriesFrom

LEMMA TrackCarries ==
  ASSUME NEW d \in Desk, NEW w \in Windows, NEW m, NEW i, Marks(d) \/ Valid(d, w),
         proxy \in Proxies, m \in Table(d) \/ MonitorOf(d, w) # NoMonitor
  PROVE  Carries(d, Track(d, w, m, i))
  <1>1. Table(d) # {} /\ NoMonitor \notin Table(d)
    BY SpacesAssumption DEF MonitorOf, Table
  <1>2. CASE ~Valid(d, w)
    BY <1>2, UntrackedCarries DEF Track
  <1>3. CASE Valid(d, w)
    <2>1. PICK at : Track(d, w, m, i) = Place(d, [x \in {w} |-> at])
      BY <1>1, <1>3 DEF Track
    <2> DEFINE to == [x \in {w} |-> at]
    <2>2. DOMAIN to = {w}
      OBVIOUS
    <2> HIDE DEF to
    <2>3. Carries(d, Place(d, to))
      BY <1>3, <2>2, PlaceCarries
    <2>4. QED
      BY <2>1, <2>3 DEF to
  <1>4. QED
    BY <1>2, <1>3

LEMMA MigratedCarries ==
  ASSUME NEW d, Sound(d), Marks(d), NEW m \in Monitors, NEW i \in DOMAIN d.spaces[m],
         NEW j, proxy \in Proxies
  PROVE  Carries(d, Migrated(d, m, i, j))
  <1> DEFINE stays == {w \in d.spaces[m][i] : Valid(d, w)}
             goes  == d.spaces[m][i] \ stays
             to    == [w \in stays |-> <<m, j>>]
             moved == Place(d, to)
             win   == [w \in Windows |->
                         IF w \notin goes THEN moved.win[w]
                         ELSE IF MustRestoreBeforeUntrack(d.win[w])
                         THEN Forgotten(Show(d.win[w], proxy))
                         ELSE Forgotten(d.win[w])]
             e == Migrated(d, m, i, j)
  <1>1. d \in Desk /\ d.spaces[m][i] \subseteq Windows
    BY DomainIsLen DEF Sound
  <1>2. e.win = win
    BY <1>1 DEF Migrated, Place, Desk
  <1>3. stays \subseteq Windows /\ DOMAIN to = stays /\ \A w \in stays : Valid(d, w)
    BY <1>1
  <1>4. \A w \in goes : ~Valid(d, w) /\ w \in Windows /\ Tracked(d, w)
    BY <1>1, ListIsPlace DEF Tracked
  <1> HIDE DEF goes, to, stays
  <1>5. Carries(d, moved)
    BY <1>1, <1>3, PlaceCarries
  <1> HIDE DEF moved
  <1>6. \A w \in goes : /\ Carried(d.win[w], Forgotten(d.win[w]))
                        /\ Carried(d.win[w], Forgotten(Show(d.win[w], proxy)))
    <2>1. \A w \in goes : /\ d.win[w] \in Window /\ ~IsValid(d.win[w])
                          /\ \/ SystemWindows = {} \/ ~d.win[w].live
                             \/ "TRACKED" \in d.win[w].prop
      BY <1>1, <1>4 DEF Desk, Marks, Valid
    <2>2. QED
      BY <2>1, ForgottenCarried, LetGoCarried
  <1>7. \A w \in Windows : Carried(d.win[w], win[w])
    BY <1>5, <1>6 DEF Carries
  <1> HIDE DEF win
  <1>8. Keeps(d, e)
    BY <1>1, MigratedKeeps
  <1> HIDE DEF e
  <1>9. Carries(d, e)
    BY <1>2, <1>7, <1>8, CarriesFrom
  <1>10. QED
    BY <1>9 DEF e

LEMMA ShortenedCarries ==
  ASSUME NEW d, Sound(d), Marks(d), NEW m \in Monitors, NEW i \in DOMAIN d.spaces[m],
         Len(d.spaces[m]) > 1, proxy \in Proxies
  PROVE  Carries(d, Shortened(d, m, i))
  <1> DEFINE e == Migrated(d, m, i, RemovalMigrationTarget(i))
             f == [e EXCEPT !.spaces[m] = RemoveAt(@, i),
                            !.current[m] = RemapAfterRemoval(@, i)]
  <1>1. Keeps(d, e) /\ e \in Desk /\ Carries(d, e)
    BY MigratedKeeps, MigratedCarries DEF Keeps, Sound
  <1> HIDE DEF e
  <1>2. /\ f.win = e.win /\ \A n \in Monitors \ {m} : f.spaces[n] = e.spaces[n]
        /\ f.spaces[m] = RemoveAt(e.spaces[m], i)
    BY <1>1 DEF Desk
  <1>3. Shortened(d, m, i) = f
    BY DEF Shortened, e
  <1> HIDE DEF f
  <1>4. Len(f.spaces[m]) > 0
    <2>1. /\ d \in Desk /\ e.spaces[m] \in Seq(SUBSET Windows) /\ Len(e.spaces[m]) \in Nat
          /\ Len(e.spaces[m]) = Len(d.spaces[m]) /\ i \in 1..Len(e.spaces[m])
      BY <1>1, DomainIsLen DEF Sound, Desk, Keeps, SameShape
    <2>2. Len(RemoveAt(e.spaces[m], i)) = Len(e.spaces[m]) - 1
      BY <2>1, RemoveAtElements
    <2>3. QED
      BY <1>2, <2>1, <2>2
  <1>5. Carries(e, f)
    BY <1>2, <1>4, SameCarries DEF Table
  <1>6. QED
    BY <1>1, <1>3, <1>5, CarriesCompose

LEMMA PinCarries ==
  ASSUME NEW d \in Desk, NEW w \in Windows, proxy \in Proxies
  PROVE  Carries(d, Pin(d, w))
  <1> DEFINE x == Show(d.win[w], proxy)
             e == [d EXCEPT !.pinned = @ \cup {w}, !.win[w] = x]
  <1>1. Carried(d.win[w], x)
    BY ShowCarried DEF Desk
  <1> HIDE DEF x
  <1>2. \A v \in Windows : e.win[v] = IF v = w THEN x ELSE d.win[v]
    BY DEF Desk
  <1>3. Pin(d, w) = d \/ Pin(d, w) = e
    BY DEF Pin, x
  <1> HIDE DEF e
  <1>4. \A v \in Windows : Carried(d.win[v], Pin(d, w).win[v])
    BY <1>1, <1>2, <1>3, CarriedSelf
  <1>5. QED
    BY <1>4, PinKeeps, CarriesFrom

LEMMA UnpinCarries ==
  ASSUME NEW d \in Desk, Marks(d), NEW w \in Windows, Tracked(d, w), proxy \in Proxies
  PROVE  Carries(d, Unpin(d, w))
  <1> DEFINE home == Home(d, w)
             e    == [d EXCEPT !.pinned = @ \ {w}]
  <1>1. e \in Desk /\ e.win = d.win /\ e.spaces = d.spaces
    BY DEF Desk
  <1>2. Unpin(d, w) = e \/ \E i : Unpin(d, w) = Track(e, w, home[1], i)
    BY DEF Unpin
  <1>3. home[1] \in Monitors /\ home[2] \in DOMAIN d.spaces[home[1]]
    BY HomeIsPlace
  <1> HIDE DEF e, home
  <1>4. home[1] \in Table(e)
    BY <1>1, <1>3, DomainIsLen DEF Table
  <1>5. Marks(e)
    BY <1>1, SamePlaces DEF Marks, Tracked
  <1>6. \A i : Carries(e, Track(e, w, home[1], i))
    BY <1>1, <1>4, <1>5, TrackCarries
  <1>7. Carries(d, e)
    BY <1>1, SameCarries DEF Table
  <1>8. QED
    BY <1>2, <1>6, <1>7, CarriesCompose

LEMMA RehideCarries ==
  ASSUME NEW d \in Desk, NEW a \in BOOLEAN, proxy \in Proxies
  PROVE  Carries(d, [d EXCEPT !.win = [w \in Windows |->
                      IF /\ Valid(d, w)
                         /\ \E m \in Table(d) : w \in On(d, m) \ Up(d, m)
                      THEN Hide(Show(d.win[w], proxy), a, proxy)
                      ELSE d.win[w]]])
  <1> DEFINE off == {w \in Windows : /\ Valid(d, w)
                                     /\ \E m \in Table(d) : w \in On(d, m) \ Up(d, m)}
             win == [w \in Windows |->
                      IF /\ Valid(d, w)
                         /\ \E m \in Table(d) : w \in On(d, m) \ Up(d, m)
                      THEN Hide(Show(d.win[w], proxy), a, proxy)
                      ELSE d.win[w]]
             e   == [d EXCEPT !.win = win]
  <1>1. \A w \in Windows : win[w] = IF w \in off THEN Hide(Show(d.win[w], proxy), a, proxy)
                                    ELSE d.win[w]
    OBVIOUS
  <1>2. \A w \in off : w \in Windows /\ Valid(d, w)
    OBVIOUS
  <1>3. e.win = win /\ e.spaces = d.spaces
    BY DEF Desk
  <1> HIDE DEF off, win
  <1>4. \A w \in off : Carried(d.win[w], Hide(Show(d.win[w], proxy), a, proxy))
    BY <1>2, RehideCarried DEF Desk, Valid
  <1> HIDE DEF e
  <1>5. \A w \in Windows : Carried(d.win[w], e.win[w])
    BY <1>1, <1>3, <1>4, CarriedSelf
  <1>6. Carries(d, e)
    BY <1>3, <1>5 DEF Carries, Table
  <1>7. QED
    BY <1>6 DEF e, win

-----------------------------------------------------------------------------
(* The invariant and the steps *)

TraceInv ==
  /\ TypedBoundedApart
  /\ plugged = Monitors
  /\ "recycle" \notin Env => HidingInv
  /\ Running => Full(desk)
  /\ \A w \in Windows : Traced(desk.win[w])

LEMMA TraceParts ==
  ASSUME Tame, TraceInv
  PROVE  /\ Sound(desk) /\ desk \in Desk /\ showAll \in BOOLEAN /\ proxy \in Proxies
         /\ Running => Marks(desk) /\ Table(desk) = Monitors
  <1>1. Sound(desk) /\ desk \in Desk /\ showAll \in BOOLEAN /\ proxy \in Proxies
    BY TidyParts DEF TraceInv, Tidy, Sound, Flags
  <1>2. Running => Marks(desk)
    BY DEF Tame, TraceInv, HidingInv, Kept, Books, Booked, Marks, Tracked
  <1>3. Running => Table(desk) = Monitors
    BY DEF Tame, TraceInv, Full, Table
  <1>4. QED
    BY <1>1, <1>2, <1>3

\* A rule's placement shows a window that passes the probe.
LEMMA RulesCarry ==
  ASSUME Tame, TraceInv, NEW w \in Windows, NEW m \in Monitors, NEW i \in Indices,
         NEW s \in BOOLEAN, RestoreWorkspaceRules(w, m, i, s)
  PROVE  Carries(desk, desk')
  <1>1. PICK minimized \in BOOLEAN, landed \in {desk.win[w].mon} \cup ({m} \cap plugged) :
          LET put    == [desk EXCEPT !.win[w] =
                           [@ EXCEPT !.visible = "yes", !.iconic = minimized,
                                     !.mon = landed]]
              placed == Track(put, w, m, i)
              pinned == IF s /\ Tracked(placed, w) THEN Pin(placed, w) ELSE placed
          IN  \E scanned \in (IF Table(pinned) = {} THEN {pinned}
                              ELSE {pinned, Scan(pinned)}) :
                LET shown == Refresh(scanned, Table(scanned))
                IN  \E f \in {NoWindow} \cup UNION {Landing(shown, n) : n \in Table(shown)} :
                      desk' = Focused(shown, f)
    BY DEF RestoreWorkspaceRules
  <1> DEFINE x      == [desk.win[w] EXCEPT !.visible = "yes", !.iconic = minimized,
                                           !.mon = landed]
             put    == [desk EXCEPT !.win[w] = x]
             placed == Track(put, w, m, i)
             pinned == IF s /\ Tracked(placed, w) THEN Pin(placed, w) ELSE placed
  <1>2. Running /\ Valid(desk, w)
    BY Zenon DEF RestoreWorkspaceRules
  <1>3. /\ desk \in Desk /\ showAll \in BOOLEAN /\ proxy \in Proxies
        /\ Table(desk) = Monitors /\ desk.win[w] \in Window /\ landed \in Monitors
    BY <1>2, TraceParts DEF Desk, Window
  <1>4. /\ x \in Window /\ x.live = desk.win[w].live /\ x.titled = desk.win[w].titled
        /\ x.visible = "yes" /\ x.cloak = desk.win[w].cloak /\ x.prop = desk.win[w].prop
    BY <1>3 DEF Window
  <1> HIDE DEF x
  <1>5. Carried(desk.win[w], x) /\ IsValid(x)
    <2>1. IsValid(x)
      BY <1>2, <1>4 DEF Valid, IsValid, ExternallyCloaked
    <2>2. Recorded(desk.win[w]) => Recorded(x)
      BY <1>4 DEF Recorded
    <2>3. Carried(desk.win[w], x)
      BY <1>4, <2>2 DEF Carried, Traced, Blank, HasHiddenBit
    <2>4. QED
      BY <2>1, <2>3
  <1>6. Keeps(desk, put) /\ put \in Desk
    BY <1>3, <1>4, WinAtKeeps DEF Keeps
  <1>7. /\ \A v \in Windows : put.win[v] = IF v = w THEN x ELSE desk.win[v]
        /\ put.spaces = desk.spaces
    BY <1>3 DEF Desk
  <1> HIDE DEF put
  <1>8. Carries(desk, put) /\ Valid(put, w) /\ m \in Table(put)
    <2>1. \A v \in Windows : Carried(desk.win[v], put.win[v])
      BY <1>5, <1>7, CarriedSelf
    <2>2. QED
      BY <1>3, <1>5, <1>6, <1>7, <2>1, CarriesFrom DEF Valid, Table
  <1>9. Carries(put, placed) /\ placed \in Desk
    BY <1>3, <1>6, <1>8, TrackCarries, TrackKeeps DEF Keeps
  <1> HIDE DEF placed
  <1>10. Carries(placed, pinned) /\ pinned \in Desk
    <2>1. Carries(placed, Pin(placed, w)) /\ Pin(placed, w) \in Desk
      BY <1>3, <1>9, PinCarries, PinKeeps DEF Keeps
    <2>2. Carries(placed, placed)
      BY SameCarries
    <2>3. QED
      BY <1>9, <2>1, <2>2
  <1> HIDE DEF pinned
  <1>11. PICK scanned \in {pinned, Scan(pinned)} :
           LET shown == Refresh(scanned, Table(scanned))
           IN  \E f : desk' = Focused(shown, f)
    <2>1. \E scanned \in (IF Table(pinned) = {} THEN {pinned}
                          ELSE {pinned, Scan(pinned)}) :
            LET shown == Refresh(scanned, Table(scanned))
            IN  \E f \in {NoWindow} \cup UNION {Landing(shown, n) : n \in Table(shown)} :
                  desk' = Focused(shown, f)
      BY <1>1 DEF pinned, placed, put, x
    <2>2. QED
      BY <2>1
  <1> DEFINE shown == Refresh(scanned, Table(scanned))
  <1>12. Carries(pinned, scanned) /\ scanned \in Desk
    <2>1. Carries(pinned, Scan(pinned)) /\ Scan(pinned) \in Desk
      BY <1>10, ScanCarries, ScanKeeps DEF Keeps
    <2>2. Carries(pinned, pinned)
      BY SameCarries
    <2>3. QED
      BY <1>10, <1>11, <2>1, <2>2
  <1>13. Carries(scanned, shown) /\ shown \in Desk
    BY <1>3, <1>12, RefreshCarries, RefreshKeeps DEF Keeps
  <1> HIDE DEF shown
  <1>14. Carries(shown, desk')
    BY <1>11, <1>13, FocusedCarries DEF shown
  <1>15. Carries(desk, placed)
    BY <1>8, <1>9, CarriesCompose
  <1>16. Carries(desk, scanned)
    BY <1>10, <1>12, <1>15, CarriesCompose
  <1>17. QED
    BY <1>13, <1>14, <1>16, CarriesCompose

LEMMA CommandCarries ==
  ASSUME Tame, TraceInv, Command PROVE Carries(desk, desk')
  <1>1. /\ Sound(desk) /\ desk \in Desk /\ showAll \in BOOLEAN /\ proxy \in Proxies
        /\ Marks(desk)
    BY TraceParts, HandlersRun
  <1>2. ASSUME NEW m \in Monitors, NEW i \in Indices,
               GoToSpace(m, i) \/ TraySwitch(m, i)
        PROVE  Carries(desk, desk')
    <2>1. i \in DOMAIN desk.spaces[m] /\ SwitchFrom(desk, m, i, NoWindow)
      BY <1>2 DEF GoToSpace, TraySwitch
    <2>2. QED
      BY <1>1, <2>1, SwitchFromCarries
  <1>3. ASSUME NEW m \in Monitors, NEW i \in Indices, MoveToSpace(m, i)
        PROVE  Carries(desk, desk')
    <2> DEFINE d == Track(desk, desk.fg, m, i)
    <2>1. /\ desk.fg \in Windows /\ i \in DOMAIN desk.spaces[m] /\ m \in Table(desk)
          /\ SwitchFrom(d, m, i, desk.fg)
      BY <1>1, <1>3 DEF MoveToSpace, Desk
    <2>2. Keeps(desk, d) /\ Carries(desk, d)
      BY <1>1, <2>1, TrackKeeps, TrackCarries
    <2> HIDE DEF d
    <2>3. Sound(d) /\ i \in DOMAIN d.spaces[m]
      BY <1>1, <2>1, <2>2, KeepsSound, DomainIsLen DEF Keeps, SameShape
    <2>4. Carries(d, desk')
      BY <1>1, <2>1, <2>3, SwitchFromCarries
    <2>5. QED
      BY <2>2, <2>4, CarriesCompose
  <1>4. ASSUME NEW m \in Monitors, NEW i \in Indices, RemoveSpace(m, i)
        PROVE  Carries(desk, desk')
    <2> DEFINE d == Shortened(desk, m, i)
    <2>1. /\ i \in DOMAIN desk.spaces[m] /\ Len(desk.spaces[m]) > 1
          /\ SwitchFrom(d, m, d.current[m], NoWindow)
      BY <1>4 DEF RemoveSpace
    <2>2. Sound(d) /\ d.current[m] \in DOMAIN d.spaces[m] /\ Carries(desk, d)
      BY <1>1, <2>1, ShortenedSound, ShortenedCarries
    <2> HIDE DEF d
    <2>3. Carries(d, desk')
      BY <1>1, <2>1, <2>2, SwitchFromCarries
    <2>4. QED
      BY <2>2, <2>3, CarriesCompose
  <1>5. ASSUME NEW m \in Monitors, NEW i \in Indices, NEW j \in Indices,
               ReorderSpace(m, i, j)
        PROVE  Carries(desk, desk')
    <2>1. PICK now : desk' = [desk EXCEPT !.spaces[m] = InsertAt(RemoveAt(@, i), j, @[i]),
                                          !.current[m] = now]
      BY <1>5, Zenon DEF ReorderSpace
    <2>2. i \in DOMAIN desk.spaces[m] /\ j \in DOMAIN desk.spaces[m]
      BY <1>5 DEF ReorderSpace
    <2> DEFINE s   == desk.spaces[m]
               row == InsertAt(RemoveAt(s, i), j, s[i])
    <2>3. Len(row) > 0
      <3>1. /\ s \in Seq(SUBSET Windows) /\ Len(s) \in Nat /\ s[i] \in SUBSET Windows
            /\ i \in 1..Len(s) /\ j \in 1..Len(s)
        BY <1>1, <2>2, DomainIsLen DEF Desk
      <3> HIDE DEF s
      <3>2. RemoveAt(s, i) \in Seq(SUBSET Windows) /\ Len(RemoveAt(s, i)) = Len(s) - 1
        BY <3>1, RemoveAtElements
      <3>3. Len(row) = Len(s)
        BY <3>1, <3>2, MovedElements
      <3>4. QED
        BY <3>1, <3>3
    <2>4. desk'.win = desk.win /\ desk'.spaces = [desk.spaces EXCEPT ![m] = row]
      BY <1>1, <2>1 DEF Desk
    <2> HIDE DEF row
    <2>5. Table(desk) \subseteq Table(desk')
      BY <1>1, <2>3, <2>4 DEF Table, Desk
    <2>6. QED
      BY <2>4, <2>5, SameCarries
  <1>6. ASSUME NEW m \in Monitors, m \in Table(desk)
        PROVE  Carries(desk, Added(desk, m)) /\ Added(desk, m).win = desk.win
    <2>1. /\ Added(desk, m).win = desk.win
          /\ Added(desk, m).spaces = [desk.spaces EXCEPT ![m] = Append(@, {})]
      BY <1>1 DEF Added, Desk
    <2>2. Len(Append(desk.spaces[m], {})) > 0
      <3>1. desk.spaces[m] \in Seq(SUBSET Windows)
        BY <1>1 DEF Desk
      <3>2. QED
        BY <3>1
    <2>3. Table(desk) \subseteq Table(Added(desk, m))
      BY <1>1, <2>1, <2>2 DEF Table, Desk
    <2>4. QED
      BY <2>1, <2>3, SameCarries
  <1>7. ASSUME NEW m \in Monitors, AddSpace(m) PROVE Carries(desk, desk')
    BY <1>6, <1>7 DEF AddSpace
  <1>8. ASSUME NEW w \in Windows, NEW m \in Monitors, NEW i \in Indices,
               MoveWindowToSpace(w, m, i)
        PROVE  Carries(desk, desk')
    BY <1>1, <1>8, TrackCarries DEF MoveWindowToSpace
  <1>9. ASSUME NEW w \in Windows, NEW m \in Monitors, MoveWindowToNewSpace(w, m)
        PROVE  Carries(desk, desk')
    <2> DEFINE d == Added(desk, m)
    <2>1. /\ m \in Table(desk) /\ Valid(desk, w) /\ desk' = Track(d, w, m, Len(d.spaces[m]))
          /\ Len(desk.spaces[m]) < MaxSpaces
      BY <1>9 DEF MoveWindowToNewSpace, Cards
    <2>2. d \in Desk
      BY <1>1, <2>1, AddedSound DEF Sound
    <2>3. Carries(desk, d) /\ d.win = desk.win
      BY <1>6, <2>1
    <2>4. m \in Table(d)
      BY <2>1, <2>3 DEF Carries
    <2> HIDE DEF d
    <2>5. Valid(d, w)
      BY <2>1, <2>3 DEF Valid
    <2>6. Carries(d, desk')
      BY <1>1, <2>1, <2>2, <2>4, <2>5, TrackCarries
    <2>7. QED
      BY <2>3, <2>6, CarriesCompose
  <1>10. ASSUME NEW w \in Windows, TogglePin(w) PROVE Carries(desk, desk')
    <2>1. /\ Tracked(desk, w)
          /\ desk' = IF w \in desk.pinned THEN Unpin(desk, w) ELSE Pin(desk, w)
      BY <1>10 DEF TogglePin
    <2>2. QED
      BY <1>1, <2>1, PinCarries, UnpinCarries
  <1>11. ASSUME SetShowAllTaskbar PROVE Carries(desk, desk')
    <2> DEFINE a == ~showAll
    <2>1. desk' = [desk EXCEPT !.win = [w \in Windows |->
               IF /\ Valid(desk, w)
                  /\ \E m \in Table(desk) : w \in On(desk, m) \ Up(desk, m)
               THEN Hide(Show(desk.win[w], proxy), a, proxy)
               ELSE desk.win[w]]]
      BY <1>11 DEF SetShowAllTaskbar
    <2>2. a \in BOOLEAN
      BY <1>1
    <2> HIDE DEF a
    <2>3. QED
      BY <1>1, <2>1, <2>2, RehideCarries
  <1>12. QED
    BY <1>2, <1>3, <1>4, <1>5, <1>7, <1>8, <1>9, <1>10, <1>11, RulesCarry DEF Command

LEMMA EventCarries ==
  ASSUME Tame, TraceInv, Event PROVE Carries(desk, desk')
  <1>1. /\ Sound(desk) /\ desk \in Desk /\ showAll \in BOOLEAN /\ proxy \in Proxies
        /\ Marks(desk)
    BY TraceParts, HandlersRun
  <1>2. ASSUME NEW w \in Windows, Valid(desk, w)
        PROVE  /\ Carries(desk, AtCurrent(desk, {w}))
               /\ Valid(AtCurrent(desk, {w}), w)
    <2> DEFINE to == [x \in {w} |-> <<desk.win[x].mon, desk.current[desk.win[x].mon]>>]
    <2>1. DOMAIN to = {w} /\ AtCurrent(desk, {w}) = Place(desk, to)
      BY DEF AtCurrent
    <2> HIDE DEF to
    <2>2. QED
      BY <1>1, <1>2, <2>1, PlaceCarries, PlaceFollows
  <1>3. ASSUME NEW w \in Windows, Activated(w) PROVE Carries(desk, desk')
    <2> DEFINE adopted == IF Tracked(desk, w) THEN desk ELSE AtCurrent(desk, {w})
               home    == Home(adopted, w)
               sits    == MonitorOf(adopted, w)
               moved   == sits \notin {NoMonitor, home[1]} /\ MayRehome(TRUE)
               rehomed == Track(adopted, w, sits, adopted.current[sits])
    <2>1. /\ Tracked(desk, w) \/ (Valid(desk, w) /\ MonitorOf(desk, w) # NoMonitor)
          /\ \/ moved /\ desk' = rehomed
             \/ SwitchFrom(adopted, home[1], home[2], w)
             \/ desk' = adopted
      BY <1>3 DEF Activated
    <2>2. Keeps(desk, adopted) /\ Tracked(adopted, w)
      BY <1>1, <2>1, AdoptedIsTracked, AtCurrentKeeps, KeepsSelf
    <2>3. Carries(desk, adopted) /\ (Marks(adopted) \/ Valid(adopted, w))
      <3>1. CASE Tracked(desk, w)
        BY <1>1, <3>1, SameCarries
      <3>2. CASE ~Tracked(desk, w)
        BY <1>2, <2>1, <3>2
      <3>3. QED
        BY <3>1, <3>2
    <2> HIDE DEF adopted
    <2>4. Sound(adopted) /\ adopted \in Desk
      BY <1>1, <2>2, KeepsSound DEF Sound
    <2>5. CASE moved /\ desk' = rehomed
      <3>1. MonitorOf(adopted, w) # NoMonitor
        BY <2>5
      <3>2. Carries(adopted, desk')
        BY <1>1, <2>3, <2>4, <2>5, <3>1, TrackCarries
      <3>3. QED
        BY <2>3, <3>2, CarriesCompose
    <2>6. CASE SwitchFrom(adopted, home[1], home[2], w)
      <3>1. home[1] \in Monitors /\ home[2] \in DOMAIN adopted.spaces[home[1]]
        BY <2>2, HomeIsPlace
      <3> HIDE DEF home
      <3>2. Carries(adopted, desk')
        BY <1>1, <2>4, <2>6, <3>1, SwitchFromCarries
      <3>3. QED
        BY <2>3, <3>2, CarriesCompose
    <2>7. CASE desk' = adopted
      BY <2>3, <2>7
    <2>8. QED
      BY <2>1, <2>5, <2>6, <2>7
  <1>4. ASSUME NEW w \in Windows, WindowDestroyed(w) PROVE Carries(desk, desk')
    <2>1. ~Valid(desk, w) /\ desk' = RemoveWindow(desk, w)
      BY <1>4 DEF WindowDestroyed, Valid, IsValid
    <2>2. QED
      BY <1>1, <2>1, RemoveWindowCarries
  <1>5. ASSUME NEW w \in Windows, AdoptUntracked(w) PROVE Carries(desk, desk')
    BY <1>2, <1>5 DEF AdoptUntracked
  <1>6. ASSUME NEW w \in Windows, MoveSizeEnd(w) PROVE Carries(desk, desk')
    <2>1. /\ MonitorOf(desk, w) # NoMonitor
          /\ desk' = Track(desk, w, MonitorOf(desk, w), desk.current[MonitorOf(desk, w)])
      BY <1>6 DEF MoveSizeEnd
    <2>2. QED
      BY <1>1, <2>1, TrackCarries
  <1>7. ASSUME ScanWindows \/ CloseVerify PROVE Carries(desk, desk')
    BY <1>1, <1>7, ScanCarries, PruneCarries DEF ScanWindows, CloseVerify
  <1>8. QED
    BY <1>3, <1>4, <1>5, <1>6, <1>7 DEF Event

\* With every display attached, a reconcile lets go of no window.
LEMMA TimerCarries ==
  ASSUME Tame, TraceInv, Timer PROVE Carries(desk, desk')
  <1>1. CASE ~Reconcile
    BY <1>1, TimerTouchesNone, SameCarries
  <1>2. CASE Reconcile
    <2> DEFINE e == Rebuilt(desk)
    <2>1. /\ Sound(desk) /\ desk \in Desk /\ plugged = Monitors /\ proxy \in Proxies
          /\ Table(desk) = Monitors
      BY <1>2, TraceParts DEF TraceInv, Reconcile
    <2>2. e \in Desk /\ e.win = desk.win /\ Table(e) = Monitors
      <3>1. e \in Desk
        BY <2>1, RebuiltSound DEF Sound
      <3>2. e.win = desk.win
        BY <2>1, RebuiltFrees
      <3>3. plugged \subseteq Table(e)
        BY <2>1, RebuiltTable
      <3>4. QED
        BY <2>1, <3>1, <3>2, <3>3 DEF Table
    <2>3. desk' = Scan(e)
      BY <1>2 DEF Reconcile
    <2> HIDE DEF e
    <2>4. Carries(desk, e)
      BY <2>1, <2>2, SameCarries
    <2>5. Carries(e, desk')
      BY <2>2, <2>3, ScanCarries
    <2>6. QED
      BY <2>4, <2>5, CarriesCompose
  <1>3. QED
    BY <1>1, <1>2

\* What a window goes through by itself: it dies, or it keeps its property and
\* its cloak and is not hidden the way the daemon hides.
LEMMA AlteredTraces ==
  ASSUME NEW x \in Window, NEW y
  PROVE  /\ y = Dead(x) => Traced(y) /\ Recorded(y)
         /\ /\ y.prop = x.prop /\ y.cloak = x.cloak /\ (x.live => y.live)
            /\ y.visible = x.visible \/ y.visible \in {"yes", "app"}
            => (Traced(x) => Traced(y)) /\ (Recorded(x) => Recorded(y))
  <1>1. ASSUME y = Dead(x) PROVE Traced(y) /\ Recorded(y)
    <2>1. y.prop = {} /\ y.cloak = {} /\ y.visible = "yes"
      BY <1>1 DEF Dead, Window
    <2>2. QED
      BY <2>1 DEF Traced, Recorded, Blank
  <1>2. ASSUME y.prop = x.prop, y.cloak = x.cloak, x.live => y.live,
               y.visible = x.visible \/ y.visible \in {"yes", "app"}
        PROVE  (Traced(x) => Traced(y)) /\ (Recorded(x) => Recorded(y))
    <2>1. Recorded(x) => Recorded(y)
      BY <1>2 DEF Recorded
    <2>2. QED
      BY <1>2, <2>1 DEF Traced, Blank, HasHiddenBit
  <1>3. QED
    BY <1>1, <1>2

LEMMA EnvironmentTraces ==
  ASSUME Tame, TraceInv, Environment, NEW v \in Windows
  PROVE  /\ Traced(desk.win[v]) => Traced(desk'.win[v])
         /\ Recorded(desk.win[v]) => Recorded(desk'.win[v])
  <1> DEFINE old  == desk.win[v]
             new  == desk'.win[v]
             Fine == (Traced(old) => Traced(new)) /\ (Recorded(old) => Recorded(new))
             Like(x, y) == /\ y.prop = x.prop /\ y.cloak = x.cloak /\ (x.live => y.live)
                           /\ y.visible = x.visible \/ y.visible \in {"yes", "app"}
  <1>1. desk \in Desk /\ \A w \in Windows : desk.win[w] \in Window
    BY TraceParts DEF Desk
  <1>2. ASSUME new = old PROVE Fine
    BY <1>2
  <1>3. ASSUME Like(old, new) PROVE Fine
    BY <1>1, <1>3, AlteredTraces
  <1>4. ASSUME NEW w \in Windows, NEW x, Alter(w, x), Like(desk.win[w], x)
        PROVE  Fine
    <2>1. (v # w => new = old) /\ (v = w => new = x)
      BY <1>1, <1>4 DEF Alter, Desk
    <2>2. QED
      BY <1>2, <1>3, <1>4, <2>1
  <1> HIDE DEF Fine
  <1>5. ASSUME NEW w \in Windows, Open(w) PROVE Fine
    <2> DEFINE x(m) == [desk.win[w] EXCEPT !.live = TRUE, !.mon = m]
    <2>1. PICK m \in plugged : Alter(w, x(m))
      BY <1>5 DEF Open
    <2>2. Like(desk.win[w], x(m))
      BY <1>1 DEF Window
    <2> HIDE DEF x, Like
    <2>3. QED
      BY <1>4, <2>1, <2>2
  <1>6. ASSUME NEW w \in Windows, Close(w) PROVE Fine
    <2>1. (v # w => new = old) /\ (v = w => new = Dead(old))
      BY <1>1, <1>6 DEF Close, Desk
    <2>2. QED
      BY <1>1, <1>2, <2>1, AlteredTraces DEF Fine
  <1>7. ASSUME NEW w \in Windows, NEW x \in
                 {[desk.win[w] EXCEPT !.titled = ~@],
                  [desk.win[w] EXCEPT !.visible = "app"],
                  [desk.win[w] EXCEPT !.visible = "yes"],
                  [desk.win[w] EXCEPT !.iconic = TRUE],
                  [desk.win[w] EXCEPT !.iconic = FALSE]},
               Alter(w, x)
        PROVE  Fine
    <2>1. Like(desk.win[w], x)
      BY <1>1, <1>7 DEF Window
    <2> HIDE DEF Like
    <2>2. QED
      BY <1>4, <1>7, <2>1
  <1>8. ASSUME NEW w \in Windows, Retitle(w) \/ AppHide(w) \/ AppShow(w) PROVE Fine
    BY <1>7, <1>8 DEF Retitle, AppHide, AppShow
  <1>9. ASSUME NEW w \in Windows, Minimize(w) \/ Restore(w) PROVE Fine
    BY <1>7, <1>9 DEF Minimize, Restore
  <1>10. ASSUME NEW w \in Windows, NEW m \in Monitors, Drag(w, m) PROVE Fine
    <2> DEFINE x == [desk.win[w] EXCEPT !.mon = m]
    <2>1. Alter(w, x)
      BY <1>10 DEF Drag
    <2>2. Like(desk.win[w], x)
      BY <1>1 DEF Window
    <2> HIDE DEF x, Like
    <2>3. QED
      BY <1>4, <2>1, <2>2
  <1>11. ASSUME NEW w \in Windows \cup {NoWindow}, Focus(w) PROVE Fine
    BY <1>1, <1>2, <1>11 DEF Focus, Desk
  <1>12. ASSUME NEW p \in Proxies, ShellChanges(p) PROVE Fine
    BY <1>2, <1>12 DEF ShellChanges
  <1>13. ASSUME NEW S \in SUBSET Monitors, PlugOrUnplug(S) PROVE Fine
    BY <1>13 DEF PlugOrUnplug, Tame
  <1>14. Fine
    BY <1>5, <1>6, <1>8, <1>9, <1>10, <1>11, <1>12, <1>13 DEF Environment
  <1>15. QED
    BY <1>14 DEF Fine

\* A daemon that ends in order, and one that starts, leaves no property.
LEMMA ReclaimTraced ==
  ASSUME NEW x \in Window, Blank(x), NEW p \in Proxies PROVE Traced(Reclaim(x, p))
  <1> DEFINE y == Reclaim(x, p)
             z == [x EXCEPT !.cloak = IF p = "stuck" THEN @ ELSE @ \ {"dwm"}]
  <1>1. /\ Forgotten(x).prop = {} /\ Forgotten(x).live = x.live
        /\ Forgotten(x).cloak = x.cloak /\ Forgotten(x).visible = x.visible
    BY DEF Forgotten, Window
  <1>2. CASE x.live
    <2>1. z \in Window /\ z.live /\ Show(x, p) \in Window /\ Show(x, p).live
      BY <1>2, ShowType, ShowKeeps DEF Window
    <2>2. y \in {Forgotten(z), Forgotten(Show(x, p)), Forgotten(x)}
      BY DEF Reclaim
    <2> HIDE DEF z, y
    <2>3. \A u \in Window : u.live => Forgotten(u).prop = {} /\ Forgotten(u).live
      BY DEF Forgotten, Window
    <2>4. y.prop = {} /\ y.live
      BY <1>2, <2>1, <2>2, <2>3
    <2>5. QED
      BY <2>4 DEF Traced, Blank, y
  <1>3. CASE ~x.live
    <2>1. y = Forgotten(x)
      BY <1>3 DEF Reclaim, Blank, HasHiddenBit
    <2> HIDE DEF y
    <2>2. Traced(y)
      BY <1>1, <1>3, <2>1 DEF Traced, Blank
    <2>3. QED
      BY <2>2 DEF y
  <1>4. QED
    BY <1>2, <1>3

LEMMA ExitTraces ==
  ASSUME Tame, TraceInv, Exit, NEW w \in Windows PROVE Traced(desk'.win[w])
  <1> DEFINE managed == {v \in Windows : Tracked(desk, v) /\ Valid(desk, v)}
             freed(v) == IF v \in managed THEN Forgotten(Show(desk.win[v], proxy))
                         ELSE desk.win[v]
             win == [v \in Windows |-> Reclaim(freed(v), proxy)]
  <1>1. /\ desk \in Desk /\ proxy \in Proxies /\ desk.win[w] \in Window
        /\ Blank(desk.win[w])
    BY TraceParts DEF TraceInv, Traced, Desk
  <1>2. Released(desk).win = win /\ Released(desk) \in Desk
    BY <1>1, ReleasedKeeps DEF Released, Desk, Keeps
  <1>3. desk'.win = win
    BY <1>1, <1>2, EndedPlaces DEF Exit
  <1>4. win[w] = Reclaim(freed(w), proxy)
    OBVIOUS
  <1>5. w \in managed => desk.win[w].live
    BY DEF Valid, IsValid
  <1> HIDE DEF managed, win
  <1>6. freed(w) \in Window /\ Blank(freed(w))
    <2>1. Show(desk.win[w], proxy) \in Window /\ Show(desk.win[w], proxy).live = desk.win[w].live
      BY <1>1, ShowType, ShowKeeps
    <2>2. \A u \in Window : Forgotten(u) \in Window /\ Forgotten(u).live = u.live
      BY ForgottenType DEF Forgotten, Window
    <2>3. CASE w \in managed
      BY <1>5, <2>1, <2>2, <2>3 DEF Blank
    <2>4. CASE w \notin managed
      BY <1>1, <2>4
    <2>5. QED
      BY <2>3, <2>4
  <1> HIDE DEF freed
  <1>7. QED
    BY <1>1, <1>3, <1>4, <1>6, ReclaimTraced

LEMMA StartTraces ==
  ASSUME Tame, TraceInv, Start
  PROVE  Full(desk') /\ \A w \in Windows : Traced(desk'.win[w])
  <1> DEFINE win == [v \in Windows |-> Reclaim(desk.win[v], proxy)]
             d == [desk EXCEPT !.win = win]
             e == Rebuilt(d)
  <1>1. Sound(desk) /\ desk \in Desk /\ proxy \in Proxies /\ plugged = Monitors
    BY TraceParts DEF TraceInv
  <1>2. \A w \in Windows : desk.win[w] \in Window /\ Blank(desk.win[w])
    BY <1>1 DEF TraceInv, Traced, Desk
  <1>3. desk' = Scan(e)
    BY DEF Start
  <1>4. win \in [Windows -> Window] /\ \A w \in Windows : Traced(win[w])
    BY <1>1, <1>2, ReclaimType, ReclaimTraced
  <1> HIDE DEF win
  <1>5. d \in Desk /\ d.win = win /\ Sound(d)
    BY <1>1, <1>4, WinKeeps, KeepsSound DEF Keeps, Desk
  <1> HIDE DEF d
  <1>6. e \in Desk /\ e.win = win /\ Monitors \subseteq Table(e)
    <2>1. e \in Desk
      BY <1>1, <1>5, RebuiltSound DEF Sound
    <2>2. Table(d) \subseteq plugged
      BY <1>1 DEF Table
    <2>3. QED
      BY <1>1, <1>5, <2>1, <2>2, RebuiltFrees, RebuiltTable
  <1> HIDE DEF e
  <1>7. Carries(e, desk')
    BY <1>3, <1>6, ScanCarries
  <1>8. Monitors \subseteq Table(desk')
    BY <1>6, <1>7 DEF Carries
  <1>9. QED
    BY <1>4, <1>6, <1>7, <1>8 DEF Carries, Carried, Full, Table

LEMMA FullNext == Full(desk') => Full(desk)'
  BY DEF Full

LEMMA TracedNext ==
  (\A w \in Windows : Traced(desk'.win[w])) => (\A w \in Windows : Traced(desk.win[w]))'
  BY DEF Traced, Blank, Recorded, HasHiddenBit

LEMMA InitTrace == Init => TraceInv
  <1> SUFFICES ASSUME Init PROVE TraceInv
    OBVIOUS
  <1>1. HidingInv /\ plugged = Monitors /\ ~Running
    BY InitHiding DEF Init, Running
  <1>2. PICK live \in [Windows -> BOOLEAN], at \in [Windows -> Monitors] :
          desk = [win     |-> [w \in Windows |-> NewWindow(w, live[w], at[w])],
                  spaces  |-> [m \in Monitors |-> <<>>],
                  current |-> [m \in Monitors |-> 1],
                  pinned  |-> {}, focus |-> {}, fg |-> NoWindow]
    BY DEF Init
  <1>3. \A w \in Windows : desk.win[w] = NewWindow(w, live[w], at[w])
    BY <1>2
  <1>4. ASSUME NEW w \in Windows PROVE Traced(desk.win[w])
    <2> DEFINE x == desk.win[w]
    <2>1. x = NewWindow(w, live[w], at[w])
      BY <1>3
    <2> HIDE DEF x
    <2>2. x.visible = "yes" /\ x.prop = {} /\ x.cloak = {}
      BY <2>1 DEF NewWindow
    <2>3. Traced(x)
      BY <2>2 DEF Traced, Blank
    <2>4. QED
      BY <2>3 DEF x
  <1>5. QED
    BY <1>1, <1>4 DEF TraceInv, HidingInv

LEMMA StepTrace ==
  ASSUME Tame, TraceInv, [Next]_vars PROVE TraceInv'
  <1>1. TypedBoundedApart' /\ ("recycle" \notin Env => HidingInv)'
    BY StepApart, StepHiding DEF TraceInv
  <1>2. CASE UNCHANGED vars
    <2>1. desk' = desk /\ plugged' = plugged /\ phase' = phase
      BY <1>2 DEF vars
    <2>2. QED
      BY <1>1, <2>1, FullNext, TracedNext DEF TraceInv, Running
  <1>3. CASE Next
    <2>1. plugged' = Monitors
      BY <1>3, Frame DEF Tame, TraceInv
    <2>2. ASSUME (Running => Full(desk))', \A w \in Windows : Traced(desk'.win[w])
          PROVE  TraceInv'
      BY <1>1, <2>1, <2>2, TracedNext DEF TraceInv
    <2>3. CASE Command \/ Event \/ Timer
      <3>1. Carries(desk, desk') /\ phase' = phase
        BY <1>3, <2>3, CommandCarries, EventCarries, TimerCarries, Frame
      <3>2. Running' => Full(desk')
        BY <3>1 DEF TraceInv, Full, Carries, Table, Running
      <3>3. \A w \in Windows : Traced(desk'.win[w])
        BY <3>1 DEF TraceInv, Carries, Carried
      <3>4. QED
        BY <2>2, <3>2, <3>3, FullNext
    <2>4. CASE Environment
      <3>1. phase' = phase /\ desk'.spaces = desk.spaces
        BY <1>3, <2>4, Frame, EnvironmentSpaces DEF TraceInv, TypedBoundedApart
      <3>2. Running' => Full(desk')
        BY <3>1 DEF TraceInv, Full, Running
      <3>3. \A w \in Windows : Traced(desk'.win[w])
        BY <2>4, EnvironmentTraces DEF TraceInv
      <3>4. QED
        BY <2>2, <3>2, <3>3, FullNext
    <2>5. CASE Exit
      <3>1. ~Running'
        BY <2>5 DEF Exit, Running
      <3>2. QED
        BY <2>2, <2>5, <3>1, ExitTraces
    <2>6. CASE Crash
      <3>1. ~Running'
        BY <2>6 DEF Crash, Running
      <3>2. desk'.win = desk.win
        BY <2>6, TraceParts, EndedPlaces DEF Crash
      <3>3. QED
        BY <2>2, <3>1, <3>2 DEF TraceInv
    <2>7. CASE Start
      BY <2>2, <2>7, StartTraces, FullNext
    <2>8. QED
      BY <1>3, <2>3, <2>4, <2>5, <2>6, <2>7 DEF Next, Life
  <1>4. QED
    BY <1>2, <1>3

\* Whether the shell cloak works, fails or answers without effect, a step of a
\* running daemon loses no record of a hidden window that has a title: the bit
\* of the layer that is still on survives the show that failed
\* (set_window_visibility's verify step), and track_window, remove_window and
\* the migration of a removed space forget only what is not hidden.
THEOREM RecordKeptCorrect ==
  ASSUME Tame PROVE Spec => RecordKept
  <1>1. TraceInv /\ [Next]_vars => TraceInv'
    BY StepTrace
  <1>2. ASSUME TraceInv, Next, Running, Running', NEW w \in Windows,
               desk.win[w].titled, Recorded(desk.win[w])
        PROVE  Recorded(desk'.win[w])
    <2>1. CASE Command \/ Event \/ Timer
      <3>1. Carries(desk, desk')
        BY <1>2, <2>1, CommandCarries, EventCarries, TimerCarries
      <3>2. QED
        BY <1>2, <3>1 DEF TraceInv, Carries, Carried
    <2>2. CASE Environment
      BY <1>2, <2>2, EnvironmentTraces
    <2>3. CASE Life
      BY <1>2, <2>3 DEF Life, Exit, Crash, Start, Running
    <2>4. QED
      BY <1>2, <2>1, <2>2, <2>3 DEF Next
  <1>3. TraceInv /\ [Next]_vars =>
          [Running /\ Running' =>
             \A w \in Windows : desk.win[w].titled /\ Recorded(desk.win[w])
                                  => Recorded(desk'.win[w])]_vars
    BY <1>2, Zenon
  <1>4. QED
    BY <1>1, <1>3, InitTrace, PTL DEF Spec, RecordKept
=============================================================================
