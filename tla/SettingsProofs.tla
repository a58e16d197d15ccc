--------------------------- MODULE SettingsProofs ---------------------------
(***************************************************************************)
(* Proofs about the settings window and the helpers it runs, for every      *)
(* number of processes, every choice of controls and every length of the    *)
(* lists of rules.  The window's part: whichever control is activated, by    *)
(* whatever gesture and under whatever else is open, the recorder's hook     *)
(* and the dropdown's window go with the state that ends them.               *)
(***************************************************************************)
EXTENDS SettingsProperties, TLAPS, SequenceTheorems, WellFoundedInduction

Pages == {"System", "Tiling", "Hotkeys", "Workspaces"}

\* The controls a page may hold: a link leads to a page, a field records a
\* hotkey that has a name, and what is plain has neither.
Plain == {"", "Thumb", "ToggleShowAll", "ToggleWinTab", "ToggleSpaceIndicator",
          "ToggleAutostart", "ToggleElevated", "ComboTheme", "ComboLanguage", "BtnExport",
          "BtnImport", "ToggleTiling", "ComboInnerGap", "ComboOuterGap", "ToggleAutoRestore",
          "BtnCapture", "BtnRestore", "BtnReload", "BtnReset"}

Recorded == {"TilingToggle", "TilingToggleFloat", "TilingToggleSplit", "TilingFocusLeft",
             "TilingFocusRight", "TilingFocusUp", "TilingFocusDown", "TilingSwapLeft",
             "TilingSwapRight", "TilingSwapUp", "TilingSwapDown", "TilingRatioGrow",
             "TilingRatioShrink", "Overview", "Switch", "Move", "Prev", "Next", "ToggleSticky"}

Controls == ({"Nav", "NavCard"} \X Pages \X Nat)
              \cup ({"Hotkey"} \X Recorded \X Nat)
              \cup ((Plain \cup {"RuleDelete", "FloatRuleDelete"}) \X {""} \X Nat)

WinFields == {"page", "banner", "pressed", "grab", "focus", "combo", "popups", "theme",
              "capturing", "hook", "capture_hook", "running", "mode", "autostart"}

\* There is a dropdown, and one window for it; or neither.
Dropdown(w) ==
  \/ w.combo = NoCombo /\ w.popups = 0
  \/ /\ DOMAIN w.combo = {"kind", "hover"} /\ w.combo.kind \in Kinds
     /\ w.popups = 1

\* There is a hook while a field records under it.
Recorder(w) ==
  /\ w.hook \in BOOLEAN /\ w.capture_hook \in BOOLEAN
  /\ w.hook <=> w.capturing # NoTarget /\ w.capture_hook

WinSound(w) ==
  DOMAIN w = WinFields /\ w.page \in Pages /\ Dropdown(w) /\ Recorder(w)

ConfigFields == {"on", "language", "inner", "outer", "keys", "rules", "floats"}

Lists(c) ==
  DOMAIN c = ConfigFields /\ c.rules \in Seq(STRING) /\ c.floats \in Seq(STRING)

WindowInvariant == WinSound(win) /\ Lists(config) /\ Lists(file)

-----------------------------------------------------------------------------
(* The controls of a page *)

LEMMA TargetsAreControls ==
  ASSUME NEW names \in Seq(Recorded) PROVE Targets(names) \in Seq(Controls)
  <1>1. DOMAIN names = 1..Len(names) /\ Len(names) \in Nat
    BY LenProperties
  <1>2. ASSUME NEW i \in 1..Len(names) PROVE Hotkey(<<names[i], 0>>) \in Controls
    <2>1. names[i] \in Recorded
      BY ElementOfSeq
    <2>2. QED
      BY <2>1 DEF Hotkey, Controls
  <1>3. Targets(names) = [i \in 1..Len(names) |-> Hotkey(<<names[i], 0>>)]
    BY <1>1 DEF Targets
  <1>4. QED
    BY <1>1, <1>2, <1>3, IsASeq

LEMMA DeletesAreControls ==
  ASSUME NEW id \in {"RuleDelete", "FloatRuleDelete"}, NEW list \in Seq(STRING)
  PROVE  Deletes(id, list) \in Seq(Controls)
  <1>1. DOMAIN list = 1..Len(list) /\ Len(list) \in Nat
    BY LenProperties
  <1> DEFINE button(i) == <<id, "", i>>
  <1>2. ASSUME NEW i \in 1..Len(list) PROVE button(i) \in Controls
    <2>1. i \in Nat
      BY <1>1
    <2>2. QED
      BY <2>1 DEF Controls
  <1>3. Deletes(id, list) = [i \in 1..Len(list) |-> button(i)]
    BY <1>1 DEF Deletes
  <1> HIDE DEF button
  <1>4. QED
    BY <1>1, <1>2, <1>3, IsASeq

LEMMA PlainControl ==
  ASSUME NEW id \in Plain PROVE Control(id) \in Controls
  BY DEF Control, Controls

LEMMA SystemControls == System \in Seq(Controls)
  <1> DEFINE names == <<"ToggleShowAll", "ToggleWinTab", "ToggleSpaceIndicator",
                        "ToggleAutostart", "ToggleElevated", "ComboTheme", "ComboLanguage",
                        "BtnExport", "BtnImport">>
             cards == <<NavCard("Tiling", 0), NavCard("Hotkeys", 1), NavCard("Hotkeys", 2),
                        NavCard("Workspaces", 3)>>
             rest  == [i \in 1..9 |-> Control(names[i])]
  <1>1. cards \in Seq(Controls)
    <2>1. \A page \in Pages, n \in Nat : NavCard(page, n) \in Controls
      BY DEF NavCard, Controls
    <2>2. /\ NavCard("Tiling", 0) \in Controls /\ NavCard("Hotkeys", 1) \in Controls
          /\ NavCard("Hotkeys", 2) \in Controls /\ NavCard("Workspaces", 3) \in Controls
      BY <2>1 DEF Pages
    <2>3. QED
      BY <2>2
  <1>2. ASSUME NEW i \in 1..9 PROVE Control(names[i]) \in Controls
    <2>1. names[i] \in Plain
      <3>1. names \in Seq(Plain) /\ Len(names) = 9
        BY DEF Plain
      <3> HIDE DEF names
      <3>2. QED
        BY <3>1, ElementOfSeq
    <2>2. QED
      BY <2>1, PlainControl
  <1> HIDE DEF names
  <1>3. rest \in Seq(Controls)
    BY <1>2, IsASeq
  <1>4. System = cards \o rest
    BY DEF System, names
  <1> HIDE DEF cards, rest
  <1>5. QED
    BY <1>1, <1>3, <1>4, ConcatProperties

LEMMA TilingControls ==
  ASSUME Lists(config) PROVE Tiling \in Seq(Controls)
  <1> DEFINE combos  == <<Control("ToggleTiling"), Control("ComboInnerGap"),
                          Control("ComboOuterGap")>>
             names   == <<"TilingToggle", "TilingToggleFloat", "TilingToggleSplit",
                          "TilingFocusLeft", "TilingFocusRight", "TilingFocusUp",
                          "TilingFocusDown", "TilingSwapLeft", "TilingSwapRight",
                          "TilingSwapUp", "TilingSwapDown", "TilingRatioGrow",
                          "TilingRatioShrink">>
             targets == Targets(names)
             deletes == Deletes("FloatRuleDelete", config.floats)
  <1>1. combos \in Seq(Controls)
    <2>1. /\ Control("ToggleTiling") \in Controls
          /\ Control("ComboInnerGap") \in Controls
          /\ Control("ComboOuterGap") \in Controls
      BY PlainControl DEF Plain
    <2>2. QED
      BY <2>1
  <1>2. names \in Seq(Recorded)
    BY DEF Recorded
  <1>3. Tiling = (combos \o targets) \o deletes
    BY DEF Tiling
  <1> HIDE DEF names, combos
  <1>4. targets \in Seq(Controls) /\ deletes \in Seq(Controls)
    BY <1>2, TargetsAreControls, DeletesAreControls DEF Lists
  <1> HIDE DEF targets, deletes
  <1>5. QED
    BY <1>1, <1>3, <1>4, ConcatProperties

LEMMA HotkeysControls == Hotkeys \in Seq(Controls)
  <1> DEFINE field(i) == Hotkey(<<IF i % 2 = 1 THEN "Switch" ELSE "Move", (i + 1) \div 2>>)
             a == Targets(<<"Overview">>)
             b == [i \in 1..2 * MAX_SPACES |-> field(i)]
             c == Targets(<<"Prev", "Next", "ToggleSticky">>)
  <1>1. a \in Seq(Controls) /\ c \in Seq(Controls)
    <2>1. <<"Overview">> \in Seq(Recorded)
      BY DEF Recorded
    <2>2. <<"Prev", "Next", "ToggleSticky">> \in Seq(Recorded)
      BY DEF Recorded
    <2>3. QED
      BY <2>1, <2>2, TargetsAreControls
  <1>2. ASSUME NEW i \in 1..18 PROVE field(i) \in Controls
    <2>1. (i + 1) \div 2 \in Nat
      OBVIOUS
    <2>2. QED
      BY <2>1 DEF Hotkey, Controls, Recorded
  <1>3. b \in Seq(Controls)
    <2>1. 2 * MAX_SPACES = 18
      BY DEF MAX_SPACES
    <2> HIDE DEF field
    <2>2. QED
      BY <1>2, <2>1, IsASeq
  <1>4. Hotkeys = (a \o b) \o c
    BY DEF Hotkeys
  <1> HIDE DEF a, b, c
  <1>5. QED
    BY <1>1, <1>3, <1>4, ConcatProperties

LEMMA WorkspacesControls ==
  ASSUME Lists(config) PROVE Workspaces \in Seq(Controls)
  <1> DEFINE a == <<Control("ToggleAutoRestore"), Control("BtnCapture"), Control("BtnRestore")>>
             b == Deletes("RuleDelete", config.rules)
  <1>1. a \in Seq(Controls)
    <2>1. /\ Control("ToggleAutoRestore") \in Controls
          /\ Control("BtnCapture") \in Controls
          /\ Control("BtnRestore") \in Controls
      BY PlainControl DEF Plain
    <2>2. QED
      BY <2>1
  <1>2. b \in Seq(Controls)
    BY DeletesAreControls DEF Lists
  <1>3. Workspaces = a \o b
    BY DEF Workspaces
  <1> HIDE DEF a, b
  <1>4. QED
    BY <1>1, <1>2, <1>3, ConcatProperties

LEMMA FocusOrderControls ==
  ASSUME WindowInvariant PROVE FocusOrder \in Seq(Controls)
  <1> DEFINE page == CASE win.page = "System"     -> System
                       [] win.page = "Tiling"     -> Tiling
                       [] win.page = "Hotkeys"    -> Hotkeys
                       [] win.page = "Workspaces" -> Workspaces
             tabs == [i \in 1..4 |-> Nav(Page_ALL[i])]
             hero == <<Control("BtnReload")>>
             foot == <<Control("BtnReset")>>
  <1>1. page \in Seq(Controls)
    <2>1. win.page \in Pages /\ Lists(config)
      BY DEF WindowInvariant, WinSound
    <2>2. /\ "System" # "Tiling" /\ "System" # "Hotkeys" /\ "System" # "Workspaces"
          /\ "Tiling" # "Hotkeys" /\ "Tiling" # "Workspaces" /\ "Hotkeys" # "Workspaces"
      OBVIOUS
    <2>3. \/ win.page = "System" /\ page = System
          \/ win.page = "Tiling" /\ page = Tiling
          \/ win.page = "Hotkeys" /\ page = Hotkeys
          \/ win.page = "Workspaces" /\ page = Workspaces
      BY Zenon, <2>1, <2>2 DEF Pages
    <2>4. QED
      BY <2>1, <2>3, SystemControls, TilingControls, HotkeysControls, WorkspacesControls
  <1>2. hero \in Seq(Controls) /\ foot \in Seq(Controls)
    <2>1. /\ Control("BtnReload") \in Controls
          /\ Control("BtnReset") \in Controls
      BY PlainControl DEF Plain
    <2>2. QED
      BY <2>1
  <1>3. tabs \in Seq(Controls)
    <2>1. ASSUME NEW i \in 1..4 PROVE Nav(Page_ALL[i]) \in Controls
      <3>1. Page_ALL[i] \in Pages
        BY DEF Page_ALL, Pages
      <3>2. QED
        BY <3>1 DEF Nav, Controls
    <2>2. QED
      BY <2>1, IsASeq
  <1>4. FocusOrder = tabs \o ((hero \o page) \o foot)
    BY Zenon DEF FocusOrder, build_page
  <1> HIDE DEF page, tabs, hero, foot
  <1>5. QED
    BY <1>1, <1>2, <1>3, <1>4, ConcatProperties

\* What a gesture finds is a control of the page, the thumb, or nothing.
LEMMA HitIsAControl ==
  ASSUME WindowInvariant, NEW t \in HitTargets PROVE t \in Controls
  <1>1. Control("Thumb") \in Controls /\ Nothing \in Controls
    BY PlainControl DEF Nothing, Plain
  <1>2. ASSUME NEW c \in Shown PROVE c \in Controls
    <2>1. PICK i \in 1..Len(FocusOrder) : c = FocusOrder[i]
      <3>1. FocusOrder \in Seq(Controls)
        BY FocusOrderControls
      <3>2. DOMAIN FocusOrder = 1..Len(FocusOrder)
        BY <3>1, LenProperties
      <3> HIDE DEF FocusOrder
      <3>3. QED
        BY <3>2 DEF Shown, ToSet
    <2>2. QED
      BY <2>1, FocusOrderControls, ElementOfSeq
  <1>3. QED
    BY <1>1, <1>2 DEF HitTargets

-----------------------------------------------------------------------------
(* What the handlers do to the window's state *)

\* A window that differs in nothing the invariant speaks of.
LEMMA Untouched ==
  ASSUME NEW w, NEW e, WinSound(w), DOMAIN e = WinFields, e.page \in Pages,
         e.combo = w.combo, e.popups = w.popups, e.capturing = w.capturing,
         e.hook = w.hook, e.capture_hook = w.capture_hook
  PROVE  WinSound(e)
  BY DEF WinSound, Dropdown, Recorder

LEMMA PlainFields ==
  ASSUME NEW w, WinSound(w), NEW v
  PROVE  /\ WinSound([w EXCEPT !.banner = v])
         /\ WinSound([w EXCEPT !.running = v])
         /\ WinSound([w EXCEPT !.autostart = v])
         /\ WinSound([w EXCEPT !.pressed = v])
         /\ WinSound([w EXCEPT !.focus = v])
         /\ WinSound([w EXCEPT !.grab = v])
         /\ WinSound([w EXCEPT !.theme = v])
         /\ WinSound([w EXCEPT !.mode = v])
         /\ v \in Pages => WinSound([w EXCEPT !.page = v])
  BY DEF WinSound, Dropdown, Recorder, WinFields

LEMMA BannerSound ==
  ASSUME NEW w, WinSound(w) PROVE WinSound(Banner(w))
  BY PlainFields DEF Banner

LEMMA StopSound ==
  ASSUME NEW w, WinSound(w) PROVE WinSound(stop_recording(w))
  <1>1. CASE w.capturing = NoTarget
    BY <1>1 DEF stop_recording
  <1>2. CASE w.capturing # NoTarget
    <2> DEFINE e == stop_recording(w)
    <2>1. e = [w EXCEPT !.capturing = NoTarget, !.hook = FALSE, !.capture_hook = FALSE]
      BY <1>2 DEF stop_recording
    <2>2. /\ DOMAIN e = WinFields /\ e.page = w.page /\ e.combo = w.combo
          /\ e.popups = w.popups /\ e.capturing = NoTarget /\ e.hook = FALSE
          /\ e.capture_hook = FALSE
      BY <2>1 DEF WinSound, WinFields
    <2> HIDE DEF e
    <2>3. WinSound(e)
      BY <2>2 DEF WinSound, Dropdown, Recorder
    <2>4. QED
      BY <2>3 DEF e
  <1>3. QED
    BY <1>1, <1>2

LEMMA CloseComboSound ==
  ASSUME NEW w, WinSound(w)
  PROVE  WinSound(close_combo(w)) /\ close_combo(w).combo = NoCombo
  <1>1. CASE w.combo = NoCombo
    BY <1>1 DEF close_combo
  <1>2. CASE w.combo # NoCombo
    <2> DEFINE e == close_combo(w)
    <2>1. e = [w EXCEPT !.combo = NoCombo, !.popups = w.popups - 1]
      BY <1>2 DEF close_combo
    <2>2. w.popups = 1
      BY <1>2 DEF WinSound, Dropdown
    <2>3. /\ DOMAIN e = WinFields /\ e.page = w.page /\ e.combo = NoCombo
          /\ e.popups = 0 /\ e.capturing = w.capturing /\ e.hook = w.hook
          /\ e.capture_hook = w.capture_hook
      BY <2>1, <2>2 DEF WinSound, WinFields
    <2> HIDE DEF e
    <2>4. WinSound(e)
      BY <2>3 DEF WinSound, Dropdown, Recorder
    <2>5. QED
      BY <2>3, <2>4 DEF e
  <1>3. QED
    BY <1>1, <1>2

LEMMA OpenComboSound ==
  ASSUME NEW w, WinSound(w), w.combo = NoCombo, NEW kind \in Kinds, NEW row
  PROVE  WinSound([w EXCEPT !.combo = [kind |-> kind, hover |-> row], !.popups = w.popups + 1])
  <1> DEFINE combo == [kind |-> kind, hover |-> row]
             e     == [w EXCEPT !.combo = combo, !.popups = w.popups + 1]
  <1>1. combo # NoCombo /\ DOMAIN combo = {"kind", "hover"} /\ combo.kind = kind
    BY DEF NoCombo, Kinds
  <1> HIDE DEF combo
  <1>2. w.popups = 0
    BY DEF WinSound, Dropdown, NoCombo, Kinds
  <1>3. /\ DOMAIN e = WinFields /\ e.page = w.page /\ e.combo = combo
        /\ e.popups = 1 /\ e.capturing = w.capturing /\ e.hook = w.hook
        /\ e.capture_hook = w.capture_hook
    BY <1>2 DEF WinSound, WinFields
  <1> HIDE DEF e
  <1>4. WinSound(e)
    BY <1>1, <1>3 DEF WinSound, Dropdown, Recorder
  <1>5. QED
    BY <1>4 DEF e, combo

LEMMA HoverSound ==
  ASSUME NEW w, WinSound(w), w.combo # NoCombo, NEW row
  PROVE  WinSound([w EXCEPT !.combo.hover = row])
  <1> DEFINE combo == [w.combo EXCEPT !.hover = row]
             e     == [w EXCEPT !.combo = combo]
  <1>1. DOMAIN w.combo = {"kind", "hover"} /\ w.combo.kind \in Kinds
    BY DEF WinSound, Dropdown, Recorder
  <1>2. combo # NoCombo /\ DOMAIN combo = {"kind", "hover"} /\ combo.kind \in Kinds
    <2>1. combo.kind = w.combo.kind /\ DOMAIN combo = {"kind", "hover"}
      BY <1>1
    <2> HIDE DEF combo
    <2>2. QED
      BY <1>1, <2>1 DEF NoCombo, Kinds
  <1> HIDE DEF combo
  <1>3. /\ DOMAIN e = WinFields /\ e.page = w.page /\ e.combo = combo
        /\ e.popups = w.popups /\ e.capturing = w.capturing /\ e.hook = w.hook
        /\ e.capture_hook = w.capture_hook
    BY DEF WinSound, Dropdown, Recorder, WinFields
  <1>4. w.popups = 1
    BY DEF WinSound, Dropdown
  <1>5. [w EXCEPT !.combo.hover = row] = e
    BY DEF combo
  <1> HIDE DEF e
  <1>6. WinSound(e)
    BY <1>2, <1>3, <1>4 DEF WinSound, Dropdown, Recorder
  <1>7. QED
    BY <1>5, <1>6

\* A field that records a hotkey with a name, under the hook or without it.
LEMMA RecordSound ==
  ASSUME NEW w, WinSound(w), NEW target, target # NoTarget
  PROVE  /\ WinSound([w EXCEPT !.capturing = target, !.hook = TRUE, !.capture_hook = TRUE])
         /\ WinSound([w EXCEPT !.capturing = target, !.hook = FALSE, !.capture_hook = FALSE])
  <1>1. ASSUME NEW hooked \in BOOLEAN
        PROVE  WinSound([w EXCEPT !.capturing = target, !.hook = hooked,
                                  !.capture_hook = hooked])
    <2> DEFINE e == [w EXCEPT !.capturing = target, !.hook = hooked, !.capture_hook = hooked]
    <2>1. /\ DOMAIN e = WinFields /\ e.page = w.page /\ e.combo = w.combo
          /\ e.popups = w.popups /\ e.capturing = target /\ e.hook = hooked
          /\ e.capture_hook = hooked
      BY DEF WinSound, Dropdown, Recorder, WinFields
    <2> HIDE DEF e
    <2>2. WinSound(e)
      BY <2>1 DEF WinSound, Dropdown, Recorder
    <2>3. QED
      BY <2>2 DEF e
  <1>2. QED
    BY Zenon, <1>1

LEMMA ViewSound ==
  ASSUME NEW w, WinSound(w), NEW view \in refresh_daemon_status(w) PROVE WinSound(view)
  <1>1. PICK elevated \in is_daemon_elevated :
          view = [w EXCEPT !.running = is_daemon_running, !.mode = task \/ elevated,
                           !.autostart = is_autostart_enabled]
    BY DEF refresh_daemon_status
  <1>2. /\ DOMAIN view = WinFields /\ view.page = w.page /\ view.combo = w.combo
        /\ view.popups = w.popups /\ view.capturing = w.capturing /\ view.hook = w.hook
        /\ view.capture_hook = w.capture_hook
    BY <1>1 DEF WinSound, WinFields
  <1>3. QED
    BY <1>2, Untouched DEF WinSound, Dropdown, Recorder

LEMMA OpenedSound == WinSound(Opened)
  <1>1. /\ DOMAIN Opened = WinFields /\ Opened.page = "System" /\ Opened.combo = NoCombo
        /\ Opened.popups = 0 /\ Opened.capturing = NoTarget /\ Opened.hook = FALSE
        /\ Opened.capture_hook = FALSE
    BY DEF Opened, WinFields
  <1>2. QED
    BY <1>1 DEF WinSound, Pages, Dropdown, Recorder

-----------------------------------------------------------------------------
(* What they do to the configuration and its file *)

LEMMA ConstantLists == Lists(Default) /\ Lists(Imported)
  BY SettingsAssumption DEF Lists, ConfigFields

LEMMA ListFields ==
  ASSUME NEW c, Lists(c), NEW v
  PROVE  /\ Lists([c EXCEPT !.on = v]) /\ Lists([c EXCEPT !.language = v])
         /\ Lists([c EXCEPT !.inner = v]) /\ Lists([c EXCEPT !.outer = v])
         /\ Lists([c EXCEPT !.keys = v])
         /\ v \in Seq(STRING) => Lists([c EXCEPT !.rules = v]) /\ Lists([c EXCEPT !.floats = v])
  BY DEF Lists, ConfigFields

LEMMA WithoutRule ==
  ASSUME NEW s \in Seq(STRING), NEW i \in DOMAIN s PROVE RemoveAt(s, i) \in Seq(STRING)
  <1>1. i \in 1..Len(s)
    BY LenProperties
  <1>2. SubSeq(s, 1, i - 1) \in Seq(STRING) /\ SubSeq(s, i + 1, Len(s)) \in Seq(STRING)
    BY <1>1, SubSeqProperties
  <1>3. QED
    BY <1>2, ConcatProperties DEF RemoveAt

-----------------------------------------------------------------------------
(* What a control does *)

\* The result of every handler.
Kept == WinSound(win') /\ Lists(config') /\ Lists(file')

LEMMA EditKept ==
  ASSUME WindowInvariant, NEW w, WinSound(w), NEW c, Lists(c), Edit(w, c) PROVE Kept
  <1>1. win' = [Banner(w) EXCEPT !.running = is_daemon_running]
    BY DEF Edit, after_action
  <1>2. WinSound(win')
    BY <1>1, BannerSound, PlainFields
  <1>3. config' = c /\ (file' = c \/ file' = file)
    BY DEF Edit, autosave
  <1>4. QED
    BY <1>2, <1>3 DEF Kept, WindowInvariant

LEMMA OnlyWindowKept ==
  ASSUME WindowInvariant, OnlyWindow, WinSound(win') PROVE Kept
  BY DEF OnlyWindow, Kept, WindowInvariant

LEMMA NavKept ==
  ASSUME WindowInvariant, NEW w, WinSound(w), NEW c \in Controls, ActNav(w, c) PROVE Kept
  <1>1. c[2] \in Pages
    <2>1. c[1] \in {"Nav", "NavCard"}
      BY DEF ActNav
    <2>2. c \in {"Nav", "NavCard"} \X Pages \X Nat
      BY <2>1 DEF Controls, Plain
    <2>3. QED
      BY <2>2
  <1>2. WinSound(win')
    BY <1>1, StopSound, PlainFields DEF ActNav
  <1>3. QED
    BY <1>2, OnlyWindowKept DEF ActNav

LEMMA FlipKept ==
  ASSUME WindowInvariant, NEW w, WinSound(w), NEW c, ActFlip(w, c) PROVE Kept
  <1> DEFINE edited == [config EXCEPT !.on = IF c[1] \in @ THEN @ \ {c[1]} ELSE @ \cup {c[1]}]
  <1>1. Lists(edited)
    BY ListFields DEF WindowInvariant
  <1>2. WinSound(stop_recording(w)) /\ Edit(stop_recording(w), edited)
    BY StopSound DEF ActFlip
  <1> HIDE DEF edited
  <1>3. QED
    BY <1>1, <1>2, EditKept

LEMMA ComboKept ==
  ASSUME WindowInvariant, NEW w, WinSound(w), NEW c, ActCombo(w, c) PROVE Kept
  <1> DEFINE w1 == stop_recording(w)
             w2 == close_combo(w1)
             row == combo_selected_index(c[1])
  <1>1. WinSound(w1) /\ WinSound(w2) /\ w2.combo = NoCombo
    BY StopSound, CloseComboSound
  <1>2. c[1] \in Kinds
    BY DEF ActCombo
  <1>3. \/ win' = w2
        \/ win' = [w2 EXCEPT !.combo = [kind |-> c[1], hover |-> row], !.popups = w2.popups + 1]
    BY DEF ActCombo, open_combo
  <1> HIDE DEF w1, w2, row
  <1>4. WinSound(win')
    <2> DEFINE e == [w2 EXCEPT !.combo = [kind |-> c[1], hover |-> row],
                               !.popups = w2.popups + 1]
    <2>1. WinSound(e)
      BY <1>1, <1>2, OpenComboSound
    <2>2. win' = w2 \/ win' = e
      BY <1>3
    <2> HIDE DEF e
    <2>3. QED
      BY <1>1, <2>1, <2>2
  <1>5. QED
    BY <1>4 DEF ActCombo, Kept, WindowInvariant

LEMMA HotkeyKept ==
  ASSUME WindowInvariant, NEW w, WinSound(w), NEW c \in Controls, ActHotkey(w, c) PROVE Kept
  <1> DEFINE target == <<c[2], c[3]>>
  <1>1. target # NoTarget
    <2>1. c[1] = "Hotkey"
      BY DEF ActHotkey
    <2>2. c \in {"Hotkey"} \X Recorded \X Nat
      BY <2>1 DEF Controls, Plain
    <2>3. c[2] \in Recorded
      BY <2>2
    <2>4. c[2] # ""
      BY <2>3 DEF Recorded
    <2>5. QED
      BY <2>4 DEF NoTarget
  <1>2. \/ win' = stop_recording(w)
        \/ win' = [w EXCEPT !.capturing = target, !.hook = TRUE, !.capture_hook = TRUE]
        \/ win' = [w EXCEPT !.capturing = target, !.hook = FALSE, !.capture_hook = FALSE]
    BY DEF ActHotkey
  <1> HIDE DEF target
  <1>3. WinSound(win')
    <2>1. CASE win' = stop_recording(w)
      BY <2>1, StopSound
    <2>2. CASE win' = [w EXCEPT !.capturing = target, !.hook = TRUE, !.capture_hook = TRUE]
      BY Zenon, <1>1, <2>2, RecordSound
    <2>3. CASE win' = [w EXCEPT !.capturing = target, !.hook = FALSE, !.capture_hook = FALSE]
      BY Zenon, <1>1, <2>3, RecordSound
    <2>4. QED
      BY Zenon, <1>2, <2>1, <2>2, <2>3
  <1>4. QED
    BY <1>3 DEF ActHotkey, Kept, WindowInvariant

LEMMA DeleteKept ==
  ASSUME WindowInvariant, NEW w, WinSound(w), NEW c, ActDelete(w, c) PROVE Kept
  <1> DEFINE w1 == stop_recording(w)
  <1>1. WinSound(w1)
    BY StopSound
  <1>2. Lists(config)
    BY DEF WindowInvariant
  <1>3. CASE /\ c[3] \in DOMAIN config.rules
             /\ Edit(w1, [config EXCEPT !.rules = RemoveAt(@, c[3])])
    <2> DEFINE edited == [config EXCEPT !.rules = RemoveAt(@, c[3])]
    <2>1. RemoveAt(config.rules, c[3]) \in Seq(STRING)
      BY <1>2, <1>3, WithoutRule DEF Lists
    <2>2. Lists(edited)
      BY <1>2, <2>1, ListFields
    <2>3. Edit(w1, edited)
      BY <1>3
    <2> HIDE DEF edited, w1
    <2>4. QED
      BY <1>1, <2>2, <2>3, EditKept
  <1>4. CASE /\ c[3] \in DOMAIN config.floats
             /\ Edit(w1, [config EXCEPT !.floats = RemoveAt(@, c[3])])
    <2> DEFINE edited == [config EXCEPT !.floats = RemoveAt(@, c[3])]
    <2>1. RemoveAt(config.floats, c[3]) \in Seq(STRING)
      BY <1>2, <1>4, WithoutRule DEF Lists
    <2>2. Lists(edited)
      BY <1>2, <2>1, ListFields
    <2>3. Edit(w1, edited)
      BY <1>4
    <2> HIDE DEF edited, w1
    <2>4. QED
      BY <1>1, <2>2, <2>3, EditKept
  <1>5. QED
    BY <1>3, <1>4 DEF ActDelete

\* The controls that leave the configuration alone and the window with at most
\* a banner, a new view of the daemon, or the end of a recording.
LEMMA PlainControlsKept ==
  ASSUME WindowInvariant, NEW w, WinSound(w), NEW c,
         \/ ActReload(w, c) \/ ActCapture(w, c) \/ ActRestore(w, c) \/ ActDialog(w, c)
         \/ ActElevated(w, c) \/ ActAutostart(w, c)
  PROVE  Kept
  <1> DEFINE w1 == stop_recording(w)
  <1>1. WinSound(w1) /\ WinSound(Banner(w1))
    BY StopSound, BannerSound
  <1>2. ASSUME NEW enable PROVE WinSound([Banner(w1) EXCEPT !.autostart = enable])
    BY <1>1, PlainFields
  <1>3. config' = config /\ file' = file
    BY DEF ActReload, ActCapture, ActRestore, ActDialog, ActElevated, ActAutostart, OnlyWindow
  <1>4. WinSound(win')
    <2>1. CASE ActReload(w, c)
      BY <1>1, <2>1 DEF ActReload
    <2>2. CASE ActCapture(w, c)
      BY <1>1, <2>2 DEF ActCapture, after_action
    <2>3. CASE ActRestore(w, c)
      BY <1>1, <2>3, ViewSound DEF ActRestore, after_action
    <2>4. CASE ActDialog(w, c)
      BY <1>1, <2>4 DEF ActDialog
    <2>5. CASE ActElevated(w, c)
      BY <1>1, <2>5 DEF ActElevated, run_elevated_command, after_action
    <2>6. CASE ActAutostart(w, c)
      BY <1>1, <1>2, <2>6 DEF ActAutostart, run_elevated_command, after_action
    <2>7. QED
      BY <2>1, <2>2, <2>3, <2>4, <2>5, <2>6
  <1>5. QED
    BY <1>3, <1>4 DEF Kept, WindowInvariant

LEMMA ResetKept ==
  ASSUME WindowInvariant, NEW w, WinSound(w), NEW c, ActReset(w, c) PROVE Kept
  <1> DEFINE edited == [Default EXCEPT !.language = config.language]
  <1>1. Lists(edited)
    BY ConstantLists, ListFields
  <1>2. WinSound(stop_recording(w)) /\ Edit(stop_recording(w), edited)
    BY StopSound DEF ActReset
  <1> HIDE DEF edited
  <1>3. QED
    BY <1>1, <1>2, EditKept

LEMMA ActivateKept ==
  ASSUME WindowInvariant, NEW w, WinSound(w), NEW c \in Controls, activate(w, c) PROVE Kept
  BY NavKept, FlipKept, ComboKept, HotkeyKept, DeleteKept, PlainControlsKept, ResetKept
     DEF activate

-----------------------------------------------------------------------------
(* Input *)

LEMMA LeftDownKept ==
  ASSUME WindowInvariant, LeftDown PROVE Kept
  <1> DEFINE w == close_combo([win EXCEPT !.focus = 0])
  <1>1. WinSound(w)
    BY PlainFields, CloseComboSound DEF WindowInvariant
  <1>2. PICK t \in HitTargets :
          win' = IF win.combo # NoCombo /\ t[1] \in Kinds THEN w
                 ELSE [w EXCEPT !.grab    = @ \/ t = Control("Thumb"),
                                !.pressed = IF t \in Shown THEN t ELSE @]
    BY DEF LeftDown
  <1> DEFINE grab == w.grab \/ t = Control("Thumb")
             pressed == IF t \in Shown THEN t ELSE w.pressed
             e == [w EXCEPT !.grab = grab, !.pressed = pressed]
  <1>3. win' = w \/ win' = e
    BY <1>2
  <1> HIDE DEF w, grab, pressed
  <1>4. /\ DOMAIN e = WinFields /\ e.page = w.page /\ e.combo = w.combo
        /\ e.popups = w.popups /\ e.capturing = w.capturing /\ e.hook = w.hook
        /\ e.capture_hook = w.capture_hook
    BY <1>1 DEF WinSound, WinFields
  <1> HIDE DEF e
  <1>5. WinSound(e)
    BY <1>1, <1>4, Untouched DEF WinSound
  <1>6. QED
    BY <1>1, <1>3, <1>5, OnlyWindowKept DEF LeftDown

LEMMA LeftUpKept ==
  ASSUME WindowInvariant, LeftUp PROVE Kept
  <1> DEFINE w == [win EXCEPT !.pressed = Nothing]
  <1>1. WinSound(w) /\ WinSound([win EXCEPT !.grab = FALSE])
    BY Zenon, PlainFields DEF WindowInvariant
  <1>2. CASE win' = [win EXCEPT !.grab = FALSE] /\ OnlyWindow
    BY Zenon, <1>1, <1>2, OnlyWindowKept
  <1>3. CASE \E t \in HitTargets : activate(w, t)
    BY <1>1, <1>3, HitIsAControl, ActivateKept
  <1>4. CASE win' = w /\ OnlyWindow
    BY <1>1, <1>4, OnlyWindowKept
  <1>5. QED
    BY Zenon, <1>2, <1>3, <1>4 DEF LeftUp

LEMMA DismissKept ==
  ASSUME WindowInvariant, Dismiss PROVE Kept
  BY CloseComboSound, OnlyWindowKept DEF WindowInvariant, Dismiss

\* The setting that a row of the dropdown stands for.
LEMMA CommitKept ==
  ASSUME WindowInvariant, win.combo # NoCombo, NEW row, commit_combo(row) PROVE Kept
  <1> DEFINE w    == close_combo(win)
             kind == win.combo.kind
             edited == CASE kind = "ComboLanguage" -> [config EXCEPT !.language = row]
                         [] kind = "ComboInnerGap" -> [config EXCEPT !.inner = Presets[row]]
                         [] kind = "ComboOuterGap" -> [config EXCEPT !.outer = Presets[row]]
                         [] OTHER                  -> config
             e == [w EXCEPT !.banner = "commit", !.running = is_daemon_running]
  <1>1. WinSound(w)
    BY CloseComboSound DEF WindowInvariant
  <1>2. Lists(edited)
    <2>1. /\ "ComboLanguage" # "ComboInnerGap" /\ "ComboLanguage" # "ComboOuterGap"
          /\ "ComboInnerGap" # "ComboOuterGap" /\ "ComboTheme" # "ComboLanguage"
          /\ "ComboTheme" # "ComboInnerGap" /\ "ComboTheme" # "ComboOuterGap"
      OBVIOUS
    <2>2. kind \in Kinds
      BY DEF WindowInvariant, WinSound, Dropdown
    <2>3. \/ edited = [config EXCEPT !.language = row]
          \/ edited = [config EXCEPT !.inner = Presets[row]]
          \/ edited = [config EXCEPT !.outer = Presets[row]]
          \/ edited = config
      BY Zenon, <2>1, <2>2 DEF Kinds
    <2>4. /\ Lists([config EXCEPT !.language = row])
          /\ Lists([config EXCEPT !.inner = Presets[row]])
          /\ Lists([config EXCEPT !.outer = Presets[row]])
          /\ Lists(config)
      BY Zenon, ListFields DEF WindowInvariant
    <2> HIDE DEF edited
    <2>5. QED
      BY <2>3, <2>4
  <1>3. \/ /\ edited = config /\ UNCHANGED <<config, file>>
           /\ win' = w \/ win' = [w EXCEPT !.theme = row]
        \/ autosave(edited) /\ win' = e
    BY Zenon DEF commit_combo
  <1> HIDE DEF w, edited
  <1>4. WinSound(e)
    <2>1. /\ DOMAIN e = WinFields /\ e.page = w.page /\ e.combo = w.combo
          /\ e.popups = w.popups /\ e.capturing = w.capturing /\ e.hook = w.hook
          /\ e.capture_hook = w.capture_hook
      BY <1>1 DEF WinSound, WinFields
    <2> HIDE DEF e
    <2>2. QED
      BY <1>1, <2>1, Untouched DEF WinSound
  <1>5. WinSound([w EXCEPT !.theme = row])
    BY <1>1, PlainFields
  <1> HIDE DEF e
  <1>6. QED
    BY <1>1, <1>2, <1>3, <1>4, <1>5 DEF Kept, WindowInvariant, autosave

LEMMA KeyInComboKept ==
  ASSUME WindowInvariant, KeyInCombo PROVE Kept
  <1>1. WinSound(win) /\ win.combo # NoCombo
    BY DEF KeyInCombo, WindowInvariant
  <1>2. CASE win' = close_combo(win) /\ OnlyWindow
    BY <1>1, <1>2, CloseComboSound, OnlyWindowKept
  <1>3. CASE OnlyWindow /\ \E row : win' = [win EXCEPT !.combo.hover = row]
    BY <1>1, <1>3, HoverSound, OnlyWindowKept
  <1>4. CASE commit_combo(hovered_or_selected)
    BY <1>1, <1>4, CommitKept
  <1>5. QED
    BY <1>2, <1>3, <1>4 DEF KeyInCombo

LEMMA RecorderKeyKept ==
  ASSUME WindowInvariant, NEW key, handle_recorder_key(key) PROVE Kept
  <1> DEFINE w == stop_recording(win)
             edited == [config EXCEPT !.keys = (win.capturing :> key) @@ @]
             e == [Banner(w) EXCEPT !.running = is_daemon_running]
  <1>1. WinSound(w) /\ WinSound(e)
    BY StopSound, BannerSound, PlainFields DEF WindowInvariant
  <1>2. Lists(edited)
    BY ListFields DEF WindowInvariant
  <1>3. \/ win' = w /\ OnlyWindow
        \/ autosave(edited) /\ win' = e
    BY DEF handle_recorder_key, after_action
  <1> HIDE DEF w, edited, e
  <1>4. QED
    BY <1>1, <1>2, <1>3, OnlyWindowKept DEF Kept, WindowInvariant, autosave

LEMMA KeysKept ==
  ASSUME WindowInvariant, KeyRecorded \/ Tab \/ Enter \/ HookStrikes PROVE Kept
  <1>1. CASE KeyRecorded
    BY <1>1, RecorderKeyKept DEF KeyRecorded
  <1>2. CASE Tab
    <2>1. PICK i : win' = [win EXCEPT !.focus = i]
      BY <1>2 DEF Tab
    <2>2. WinSound(win')
      BY <2>1, PlainFields DEF WindowInvariant
    <2>3. QED
      BY <1>2, <2>2, OnlyWindowKept DEF Tab
  <1>3. CASE Enter
    <2>1. FocusOrder \in Seq(Controls)
      BY FocusOrderControls
    <2>2. DOMAIN FocusOrder = 1..Len(FocusOrder)
      BY <2>1, LenProperties
    <2> HIDE DEF FocusOrder
    <2>3. FocusOrder[win.focus] \in Controls /\ activate(win, FocusOrder[win.focus])
      BY <1>3, <2>1, <2>2, ElementOfSeq DEF Enter
    <2>4. QED
      BY <2>3, ActivateKept DEF WindowInvariant
  <1>4. CASE HookStrikes
    BY <1>4, OnlyWindowKept DEF HookStrikes, WindowInvariant
  <1>5. QED
    BY <1>1, <1>2, <1>3, <1>4

LEMMA PopupMouseKept ==
  ASSUME WindowInvariant, PopupMouse PROVE Kept
  <1>1. WinSound(win) /\ win.combo # NoCombo /\ OnlyWindow
    BY DEF PopupMouse, WindowInvariant
  <1>2. win' = win \/ \E row : win' = [win EXCEPT !.combo.hover = row]
    BY DEF PopupMouse
  <1>3. QED
    BY <1>1, <1>2, HoverSound, OnlyWindowKept

-----------------------------------------------------------------------------
(* Messages, timers, and the rest of the system *)

LEMMA HandledKept ==
  ASSUME WindowInvariant, Handled PROVE Kept
  <1> DEFINE m == Head(posted)
  <1>1. CASE handle_recorder_key(m.arg)
    BY <1>1, RecorderKeyKept
  <1>2. CASE win.combo # NoCombo /\ commit_combo(m.arg)
    BY <1>2, CommitKept
  <1>3. CASE win' = win /\ OnlyWindow
    BY <1>3, OnlyWindowKept DEF WindowInvariant
  <1>4. CASE win' = close_combo(stop_recording(win)) /\ UNCHANGED <<config, file>>
    BY <1>4, StopSound, CloseComboSound DEF WindowInvariant, Kept
  <1>5. QED
    BY <1>1, <1>2, <1>3, <1>4 DEF Handled

LEMMA DialogKept ==
  ASSUME WindowInvariant, run_file_dialog PROVE Kept
  <1> DEFINE e == [Banner(win) EXCEPT !.running = is_daemon_running]
  <1>1. WinSound(Banner(win)) /\ WinSound(e)
    BY BannerSound, PlainFields DEF WindowInvariant
  <1>2. \/ UNCHANGED <<win, config, file>>
        \/ win' = Banner(win) /\ UNCHANGED <<config, file>>
        \/ autosave(Imported) /\ win' = e
    BY DEF run_file_dialog, after_action
  <1> HIDE DEF e
  <1>3. QED
    BY <1>1, <1>2, ConstantLists DEF Kept, WindowInvariant, autosave

LEMMA TimersKept ==
  ASSUME WindowInvariant, BannerTimer \/ CaptureTimer PROVE Kept
  <1>1. CASE BannerTimer
    BY <1>1, PlainFields, OnlyWindowKept DEF BannerTimer, WindowInvariant
  <1>2. CASE CaptureTimer
    BY <1>2, BannerSound DEF CaptureTimer, WindowInvariant, Kept
  <1>3. QED
    BY <1>1, <1>2

LEMMA FocusKept ==
  ASSUME WindowInvariant, Deactivated \/ Activated PROVE Kept
  <1>1. CASE Deactivated
    BY <1>1, StopSound, CloseComboSound, OnlyWindowKept DEF Deactivated, WindowInvariant
  <1>2. CASE Activated
    BY <1>2, OnlyWindowKept DEF Activated, WindowInvariant
  <1>3. QED
    BY <1>1, <1>2

LEMMA ReturnsKept ==
  ASSUME WindowInvariant, HelperReturns \/ ReloadReturns PROVE Kept
  <1>1. WinSound(Banner(win))
    BY BannerSound DEF WindowInvariant
  <1>2. \/ win' = Banner(win)
        \/ \E view \in refresh_daemon_status(Banner(win)) : win' = view
    BY DEF HelperReturns, ReloadReturns, after_action
  <1>3. WinSound(win')
    BY <1>1, <1>2, ViewSound
  <1>4. QED
    BY <1>3 DEF HelperReturns, ReloadReturns, Kept, WindowInvariant

LEMMA SystemKept ==
  ASSUME WindowInvariant,
         Close \/ run_settings \/ DaemonCaptures \/ LogOffAndOn \/ Processes
  PROVE  Kept
  <1>1. CASE Close
    BY <1>1, OpenedSound, ConstantLists DEF Close, Kept, WindowInvariant
  <1>2. CASE run_settings
    BY <1>2, OpenedSound, ViewSound DEF run_settings, Kept, WindowInvariant
  <1>3. CASE DaemonCaptures
    <2>1. Lists([file EXCEPT !.rules = Captured])
      BY SettingsAssumption, ListFields DEF WindowInvariant
    <2>2. QED
      BY <1>3, <2>1 DEF DaemonCaptures, Kept, WindowInvariant
  <1>4. CASE LogOffAndOn
    BY <1>4, OpenedSound, ConstantLists DEF LogOffAndOn, Kept, WindowInvariant
  <1>5. CASE Processes
    BY <1>5 DEF Processes, window, Kept, WindowInvariant
  <1>6. QED
    BY <1>1, <1>2, <1>3, <1>4, <1>5

LEMMA WindowStep ==
  ASSUME WindowInvariant, [Next]_vars PROVE WindowInvariant'
  <1>1. Kept <=> WindowInvariant'
    BY DEF Kept, WindowInvariant
  <1>2. CASE UNCHANGED vars
    BY <1>2 DEF vars, window, WindowInvariant
  <1>3. CASE Next
    BY <1>1, <1>3, LeftDownKept, LeftUpKept, DismissKept, KeyInComboKept, KeysKept,
       PopupMouseKept, HandledKept, DialogKept, TimersKept, FocusKept, ReturnsKept,
       SystemKept DEF Next
  <1>4. QED
    BY <1>2, <1>3

-----------------------------------------------------------------------------
(* What follows *)

\* The invariant of the window, its copy of the configuration and its file.
THEOREM WindowAlwaysSound == Spec => []WindowInvariant
  <1>1. Init => WindowInvariant
    BY OpenedSound, ConstantLists DEF Init, WindowInvariant
  <1>2. WindowInvariant /\ [Next]_vars => WindowInvariant'
    BY WindowStep
  <1>3. QED
    BY <1>1, <1>2, PTL DEF Spec

\* The recorder's hook is installed exactly while a field records with it, by
\* whichever of its ways a recording ends: stop_recording by another control, a
\* dialog or the loss of the focus, handle_recorder_key, the field itself.
THEOREM HookLivesOnlyDuringCaptureCorrect == Spec => []HookLivesOnlyDuringCapture
  <1>1. WindowInvariant => HookLivesOnlyDuringCapture
    BY DEF WindowInvariant, WinSound, Recorder, HookLivesOnlyDuringCapture
  <1>2. QED
    BY <1>1, WindowAlwaysSound, PTL

\* There is one window of a dropdown while there is a dropdown, and none
\* otherwise (open_combo, close_combo).
THEOREM PopupIsTheDropdownCorrect == Spec => []PopupIsTheDropdown
  <1>1. WindowInvariant => PopupIsTheDropdown
    <2>1. ASSUME DOMAIN win.combo = {"kind", "hover"}, win.combo.kind \in Kinds
          PROVE  win.combo # NoCombo
      BY <2>1 DEF NoCombo, Kinds
    <2>2. QED
      BY <2>1 DEF WindowInvariant, WinSound, Dropdown, PopupIsTheDropdown
  <1>2. QED
    BY <1>1, WindowAlwaysSound, PTL

-----------------------------------------------------------------------------
(* The helpers.  When none starts while another runs, the one there is has    *)
(* the task it registered until it is done with the Run value.               *)

ProcFields == {"does", "at", "elevated", "by", "target", "exit"}

HelpersSound ==
  /\ DOMAIN procs = Procs /\ \A p \in Procs : DOMAIN procs[p] = ProcFields
  /\ \A p, q \in Procs : procs[p].does \in Flags /\ procs[q].does \in Flags => p = q
  /\ \A p \in Procs : procs[p].does \in Flags /\ procs[p].at \in {"run_key", "launch"} =>
        /\ procs[p].does # "restart"
        /\ procs[p].does = "enable" => task

\* A later state of the processes, in which no helper is new and none has come
\* to the Run value or beyond.
NoNewHelper(ps, qs) ==
  /\ DOMAIN qs = Procs
  /\ \A p \in Procs :
        /\ DOMAIN qs[p] = ProcFields
        /\ qs[p].does \in Flags =>
              /\ qs[p].does = ps[p].does
              /\ qs[p].at = ps[p].at \/ qs[p].at \in {"waiting", "stopped"}

\* What the steps keep that touch neither the task nor the Run value.
Calm == NoNewHelper(procs, procs') /\ task' = task /\ run_key' = run_key

\* The body of AutostartRetained.
Retained ==
  /\ is_autostart_enabled /\ ~is_autostart_enabled' =>
        \/ run_key # run_key' /\ win # win'
        \/ \E p \in SetUps : Helper(p, "stopped") /\ Helper(p, "run_key")'
  /\ \A p \in SetUps : Helper(p, "run_key") /\ Helper(p, "launch")' /\ slips' = slips
        => is_autostart_enabled'

LEMMA CalmKeeps ==
  ASSUME HelpersSound, Calm PROVE HelpersSound' /\ Retained
  <1>1. HelpersSound'
    BY DEF HelpersSound, Calm, NoNewHelper
  <1>2. is_autostart_enabled' = is_autostart_enabled
    BY DEF Calm, is_autostart_enabled
  <1>3. ASSUME NEW p \in Procs, Helper(p, "run_key"), Helper(p, "launch")' PROVE FALSE
    BY <1>3 DEF Calm, NoNewHelper, Helper
  <1>4. QED
    BY <1>1, <1>2, <1>3 DEF Retained, SetUps

LEMMA SameProcs ==
  ASSUME HelpersSound, UNCHANGED <<task, run_key, procs>> PROVE Calm
  BY DEF HelpersSound, Calm, NoNewHelper

LEMMA RecordFields ==
  /\ DOMAIN Idle = ProcFields /\ Idle.does = "none" /\ Idle.at = "none"
  /\ \A does, elevated, by :
        /\ DOMAIN Launched(does, elevated, by) = ProcFields
        /\ Launched(does, elevated, by).does = does
        /\ Launched(does, elevated, by).at = "start"
  /\ \A p, code : DOMAIN Ended(p, code) = ProcFields /\ Ended(p, code).does \notin Flags
  <1>1. DOMAIN Idle = ProcFields /\ Idle.does = "none" /\ Idle.at = "none"
    BY DEF Idle, ProcFields
  <1>2. ASSUME NEW does, NEW elevated, NEW by
        PROVE  /\ DOMAIN Launched(does, elevated, by) = ProcFields
               /\ Launched(does, elevated, by).does = does
               /\ Launched(does, elevated, by).at = "start"
    BY DEF Launched, Idle, ProcFields
  <1>3. ASSUME NEW p, NEW code
        PROVE  DOMAIN Ended(p, code) = ProcFields /\ Ended(p, code).does \notin Flags
    BY DEF Ended, Idle, ProcFields, Flags
  <1>4. QED
    BY <1>1, <1>2, <1>3

\* A process that is no helper may take any place, its own or a new one.
LEMMA ReplacedIsNoHelper ==
  ASSUME NEW ps, NEW qs, NoNewHelper(ps, qs), NEW p, NEW new,
         DOMAIN new = ProcFields, new.does \notin Flags
  PROVE  NoNewHelper(ps, [qs EXCEPT ![p] = new])
  BY DEF NoNewHelper

LEMMA SpawnedIsNoHelper ==
  ASSUME NEW ps, NEW qs, NoNewHelper(ps, qs), NEW elevated, NEW by
  PROVE  NoNewHelper(ps, Spawn(qs, Launched("daemon", elevated, by)))
  <1> DEFINE new == Launched("daemon", elevated, by)
  <1>1. DOMAIN new = ProcFields /\ new.does \notin Flags
    BY RecordFields DEF Flags
  <1> HIDE DEF new
  <1>2. NoNewHelper(ps, Spawn(qs, new))
    BY <1>1, ReplacedIsNoHelper DEF Spawn
  <1>3. QED
    BY <1>2 DEF new

LEMMA DetachedIsNoHelper ==
  ASSUME NEW qs, NoNewHelper(procs, qs), NEW elevated, NEW by,
         spawn_daemon_detached(qs, elevated, by)
  PROVE  NoNewHelper(procs, procs')
  BY SpawnedIsNoHelper DEF spawn_daemon_detached

LEMMA TaskIsNoHelper ==
  ASSUME NEW qs, NoNewHelper(procs, qs), RunTask(qs)
  PROVE  NoNewHelper(procs, procs')
  BY SpawnedIsNoHelper DEF RunTask

\* A helper that starts when none runs is the only one, and at its start.
LEMMA OnlyHelper ==
  ASSUME HelpersSound, \A p \in Procs : procs[p].does \notin Flags,
         NEW does, NEW elevated, NEW by,
         procs' = Spawn(procs, Launched(does, elevated, by)), task' = task, run_key' = run_key
  PROVE  HelpersSound' /\ Retained
  <1> DEFINE new == Launched(does, elevated, by)
  <1>1. DOMAIN new = ProcFields /\ new.at = "start"
    BY RecordFields
  <1>2. PICK s : procs' = [procs EXCEPT ![s] = new]
    BY DEF Spawn
  <1> HIDE DEF new
  <1>3. HelpersSound'
    BY <1>1, <1>2 DEF HelpersSound
  <1>4. is_autostart_enabled' = is_autostart_enabled
    BY DEF is_autostart_enabled
  <1>5. \A p \in Procs : ~Helper(p, "run_key")
    BY DEF Helper
  <1>6. QED
    BY <1>3, <1>4, <1>5 DEF Retained, SetUps

-----------------------------------------------------------------------------
(* The steps of the processes *)

LEMMA DaemonSteps ==
  ASSUME HelpersSound, NEW p \in Procs,
         Guard(p) \/ CreateWindow(p) \/ MarkElevated(p) \/ Exit(p) \/ Refuse(p)
  PROVE  Calm
  <1>1. NoNewHelper(procs, procs)
    BY DEF HelpersSound, NoNewHelper
  <1>2. \E new : /\ procs' = [procs EXCEPT ![p] = new]
                 /\ DOMAIN new = ProcFields /\ new.does \notin Flags
    <2>1. ASSUME NEW at, procs[p].does = "daemon"
          PROVE  /\ DOMAIN [procs[p] EXCEPT !.at = at] = ProcFields
                 /\ [procs[p] EXCEPT !.at = at].does \notin Flags
      BY <2>1 DEF HelpersSound, ProcFields, Flags
    <2>2. \/ procs' = [procs EXCEPT ![p] = Idle]
          \/ \E at : procs[p].does = "daemon" /\ procs' = [procs EXCEPT ![p] = [procs[p] EXCEPT !.at = at]]
          \/ procs' = [procs EXCEPT ![p] = Ended(p, "failed")]
      BY DEF Guard, CreateWindow, MarkElevated, Exit, Refuse, Daemon
    <2>3. DOMAIN Idle = ProcFields /\ Idle.does \notin Flags
      BY RecordFields DEF Flags
    <2>4. DOMAIN Ended(p, "failed") = ProcFields /\ Ended(p, "failed").does \notin Flags
      BY RecordFields
    <2>5. QED
      BY <2>1, <2>2, <2>3, <2>4
  <1>3. NoNewHelper(procs, procs')
    <2>1. PICK new : /\ procs' = [procs EXCEPT ![p] = new]
                     /\ DOMAIN new = ProcFields /\ new.does \notin Flags
      BY <1>2
    <2>2. NoNewHelper(procs, [procs EXCEPT ![p] = new])
      BY <1>1, <2>1, ReplacedIsNoHelper
    <2>3. QED
      BY <2>1, <2>2
  <1>4. QED
    BY <1>3 DEF Calm, Guard, CreateWindow, MarkElevated, Exit, Refuse

LEMMA StopSteps ==
  ASSUME HelpersSound, NEW p \in Procs, stop_running_daemon(p) \/ Stopped(p)
  PROVE  Calm
  <1>1. CASE procs' = [procs EXCEPT ![p].at = "stopped"]
    BY <1>1 DEF HelpersSound, NoNewHelper, Calm, ProcFields, stop_running_daemon, Stopped
  <1>2. CASE procs' = [procs EXCEPT ![p].at = "stopped", ![p].target = None]
    BY <1>2 DEF HelpersSound, NoNewHelper, Calm, ProcFields, stop_running_daemon, Stopped
  <1>3. ASSUME NEW d \in find_daemon_window, NEW t, NEW heard, Helper(p, "start"),
               procs' = [procs EXCEPT ![p].at = "waiting", ![p].target = t, ![d].exit = heard]
        PROVE  NoNewHelper(procs, procs')
    <2>1. d # p /\ d \in Procs
      BY <1>3 DEF find_daemon_window, Helper, Flags
    <2>2. /\ DOMAIN procs' = Procs
          /\ \A q \in Procs \ {p, d} : procs'[q] = procs[q]
          /\ procs'[p] = [procs[p] EXCEPT !.at = "waiting", !.target = t]
          /\ procs'[d] = [procs[d] EXCEPT !.exit = heard]
      BY <1>3, <2>1 DEF HelpersSound
    <2>3. /\ DOMAIN procs'[p] = ProcFields /\ procs'[p].does = procs[p].does
          /\ procs'[p].at = "waiting"
      BY <2>2 DEF HelpersSound, ProcFields
    <2>4. /\ DOMAIN procs'[d] = ProcFields /\ procs'[d].does = procs[d].does
          /\ procs'[d].at = procs[d].at
      BY <2>1, <2>2 DEF HelpersSound, ProcFields
    <2>5. QED
      BY <2>2, <2>3, <2>4 DEF NoNewHelper, HelpersSound
  <1>4. QED
    BY <1>1, <1>2, <1>3 DEF stop_running_daemon, Stopped, Calm

LEMMA LastSteps ==
  ASSUME HelpersSound, NEW p \in Procs, Launch(p) \/ handle_restart_daemon(p)
  PROVE  Calm
  <1>1. NoNewHelper(procs, procs)
    BY DEF HelpersSound, NoNewHelper
  <1>2. CASE Launch(p)
    <2> DEFINE left == [procs EXCEPT ![p] = Ended(p, "success")]
    <2>1. NoNewHelper(procs, left)
      BY <1>1, RecordFields, ReplacedIsNoHelper
    <2>2. spawn_daemon_detached(left, procs[p].elevated, procs[p].does)
      BY <1>2 DEF Launch
    <2> HIDE DEF left
    <2>3. QED
      BY <1>2, <2>1, <2>2, DetachedIsNoHelper DEF Launch, Calm
  <1>3. CASE handle_restart_daemon(p)
    <2> DEFINE left == [procs EXCEPT ![p] = Idle]
    <2>1. NoNewHelper(procs, left)
      BY <1>1, RecordFields, ReplacedIsNoHelper DEF Flags
    <2>2. \/ RunTask(left)
          \/ procs' = Spawn(left, Launched("daemon", procs[p].elevated, "restart"))
          \/ spawn_daemon_detached(left, procs[p].elevated, "restart")
      BY <1>3 DEF handle_restart_daemon
    <2> HIDE DEF left
    <2>3. NoNewHelper(procs, procs')
      BY <2>1, <2>2, DetachedIsNoHelper, TaskIsNoHelper, SpawnedIsNoHelper
    <2>4. QED
      BY <1>3, <2>3 DEF handle_restart_daemon, Calm
  <1>4. QED
    BY <1>2, <1>3

\* A helper that has found no daemon, or waited for one, makes its changes: to
\* the task, then to the Run value, whatever another process does meanwhile.
LEMMA InstallStep ==
  ASSUME ~Overlap, HelpersSound, NEW p \in Procs, install_elevated_task(p)
  PROVE  HelpersSound' /\ Retained
  <1>1. procs[p].does = "enable" /\ procs[p].at = "stopped" /\ run_key' = run_key
    BY DEF install_elevated_task, Helper
  <1>2. CASE task' = TRUE /\ procs' = [procs EXCEPT ![p].at = "run_key"]
    <2>1. /\ DOMAIN procs' = Procs
          /\ \A q \in Procs : DOMAIN procs'[q] = ProcFields /\ procs'[q].does = procs[q].does
          /\ \A q \in Procs \ {p} : procs'[q].at = procs[q].at
          /\ procs'[p].at = "run_key"
      BY <1>2 DEF HelpersSound, ProcFields
    <2>2. HelpersSound'
      BY <1>1, <1>2, <2>1 DEF HelpersSound
    <2>3. is_autostart_enabled'
      BY <1>2 DEF is_autostart_enabled
    <2>4. QED
      BY <2>2, <2>3 DEF Retained
  <1>3. CASE task' = task /\ procs' = [procs EXCEPT ![p] = Ended(p, "failed")]
    <2>1. NoNewHelper(procs, procs)
      BY DEF HelpersSound, NoNewHelper
    <2>2. Calm
      BY <1>1, <1>3, <2>1, RecordFields, ReplacedIsNoHelper DEF Calm
    <2>3. QED
      BY <2>2, CalmKeeps
  <1>4. QED
    BY <1>2, <1>3 DEF install_elevated_task

LEMMA RemoveStep ==
  ASSUME ~Overlap, HelpersSound, NEW p \in Procs, remove_elevated_task(p)
  PROVE  HelpersSound' /\ Retained
  <1>1. /\ procs[p].does = "disable" /\ procs[p].at = "stopped"
        /\ procs' = [procs EXCEPT ![p].at = "run_key"]
    BY DEF remove_elevated_task, Helper
  <1>2. /\ DOMAIN procs' = Procs
        /\ \A q \in Procs : DOMAIN procs'[q] = ProcFields /\ procs'[q].does = procs[q].does
        /\ \A q \in Procs \ {p} : procs'[q].at = procs[q].at
        /\ procs'[p].at = "run_key"
    BY <1>1 DEF HelpersSound, ProcFields
  <1>3. \A q \in Procs \ {p} : procs[q].does \notin Flags
    BY <1>1 DEF HelpersSound, Flags
  <1>4. HelpersSound'
    <2>1. procs'[p].does = "disable"
      BY <1>1, <1>2
    <2>2. QED
      BY <1>2, <1>3, <2>1 DEF HelpersSound
  <1>5. Helper(p, "stopped") /\ Helper(p, "run_key")' /\ p \in SetUps
    BY <1>1, <1>2 DEF Helper, Flags, SetUps
  <1>6. ASSUME NEW q \in Procs PROVE ~(Helper(q, "run_key") /\ Helper(q, "launch")')
    BY <1>1, <1>2 DEF Helper
  <1>7. QED
    BY <1>4, <1>5, <1>6 DEF Retained, SetUps

LEMMA RunKeyStep ==
  ASSUME ~Overlap, HelpersSound, slips \in Nat, NEW p \in Procs, set_run_key_enabled(p)
  PROVE  HelpersSound' /\ Retained
  <1>1. /\ procs[p].does \in Flags /\ procs[p].at = "run_key" /\ task' = task
        /\ procs' = [procs EXCEPT ![p].at = "launch"]
    BY DEF set_run_key_enabled, Helper
  <1>2. /\ DOMAIN procs' = Procs
        /\ \A q \in Procs : DOMAIN procs'[q] = ProcFields /\ procs'[q].does = procs[q].does
        /\ \A q \in Procs \ {p} : procs'[q].at = procs[q].at
        /\ procs'[p].at = "launch"
    BY <1>1 DEF HelpersSound, ProcFields
  <1>3. procs[p].does = "disable" \/ (procs[p].does = "enable" /\ task)
    <2>1. procs[p].does # "restart" /\ (procs[p].does = "enable" => task)
      BY Zenon, <1>1 DEF HelpersSound
    <2>2. procs[p].does = "disable" \/ procs[p].does = "enable"
      <3>1. procs[p].does \in Flags /\ procs[p].does # "restart"
        BY <1>1, <2>1
      <3>2. QED
        BY <3>1 DEF Flags
    <2>3. QED
      BY Zenon, <2>1, <2>2
  <1>4. HelpersSound'
    <2>1. \A q \in Procs \ {p} : procs[q].does \notin Flags
      BY <1>1 DEF HelpersSound
    <2>2. \A q \in Procs : procs'[q].does \in Flags => q = p
      BY <1>2, <2>1
    <2>3. procs'[p].does # "restart" /\ (procs'[p].does = "enable" => task)
      BY <1>2, <1>3
    <2>4. QED
      BY <1>1, <1>2, <2>2, <2>3 DEF HelpersSound
  <1>5. \/ slips' = slips /\ (run_key' <=> procs[p].does = "disable")
        \/ slips' # slips /\ run_key' = run_key
    <2>1. Slip => slips' # slips
      BY DEF Slip
    <2>2. QED
      BY Zenon, <2>1 DEF set_run_key_enabled, Fine
  <1>6. is_autostart_enabled /\ ~is_autostart_enabled' => FALSE
    BY <1>1, <1>3, <1>5 DEF is_autostart_enabled
  <1>7. slips' = slips => is_autostart_enabled'
    BY <1>1, <1>3, <1>5 DEF is_autostart_enabled
  <1>8. QED
    BY <1>4, <1>6, <1>7 DEF Retained

LEMMA ProcStepRetains ==
  ASSUME ~Overlap, HelpersSound, slips \in Nat, NEW p \in Procs, ProcStep(p)
  PROVE  HelpersSound' /\ Retained
  BY DaemonSteps, StopSteps, LastSteps, InstallStep, RemoveStep, RunKeyStep, CalmKeeps
     DEF ProcStep

LEMMA ProcessesRetain ==
  ASSUME ~Overlap, HelpersSound, slips \in Nat, Processes PROVE HelpersSound' /\ Retained
  <1>1. CASE \E p \in Procs : ProcStep(p)
    BY <1>1, ProcStepRetains
  <1>2. CASE RunFlag
    <2>1. PICK does \in Flags \cup {"daemon"}, elevated \in BOOLEAN :
            /\ does \in Flags => MayStart
            /\ procs' = Spawn(procs, Launched(does, elevated, "user"))
      BY <1>2 DEF RunFlag
    <2>2. task' = task /\ run_key' = run_key
      BY <1>2 DEF RunFlag
    <2>3. CASE does \in Flags
      BY <2>1, <2>2, <2>3, OnlyHelper DEF MayStart
    <2>4. CASE does = "daemon"
      <3>1. NoNewHelper(procs, procs)
        BY DEF HelpersSound, NoNewHelper
      <3>2. Calm
        BY <2>1, <2>2, <2>4, <3>1, SpawnedIsNoHelper DEF Calm
      <3>3. QED
        BY <3>2, CalmKeeps
    <2>5. QED
      BY <2>1, <2>3, <2>4
  <1>3. CASE QuitByHand
    <2>1. PICK d \in find_daemon_window : \/ procs' = [procs EXCEPT ![d].exit = TRUE]
                                          \/ procs' = [procs EXCEPT ![d] = Idle]
      BY <1>3 DEF QuitByHand
    <2>2. d \in Procs
      BY DEF find_daemon_window
    <2>3. NoNewHelper(procs, procs')
      <3>1. NoNewHelper(procs, procs)
        BY DEF HelpersSound, NoNewHelper
      <3>2. CASE procs' = [procs EXCEPT ![d].exit = TRUE]
        BY <2>2, <3>2 DEF HelpersSound, NoNewHelper, ProcFields
      <3>3. CASE procs' = [procs EXCEPT ![d] = Idle]
        BY <3>1, <3>3, RecordFields, ReplacedIsNoHelper DEF Flags
      <3>4. QED
        BY <2>1, <3>2, <3>3
    <2>4. Calm
      BY <1>3, <2>3 DEF QuitByHand, Calm
    <2>5. QED
      BY <2>4, CalmKeeps
  <1>4. QED
    BY <1>1, <1>2, <1>3 DEF Processes

LEMMA RelogonRetains ==
  ASSUME HelpersSound, LogOffAndOn PROVE HelpersSound' /\ Retained
  <1> DEFINE none   == [p \in Procs |-> Idle]
             byRun  == IF run_key THEN Spawn(none, Launched("daemon", FALSE, "run_key")) ELSE none
             byTask == IF task THEN Spawn(byRun, Launched("daemon", TRUE, "task")) ELSE byRun
  <1>1. NoNewHelper(procs, none)
    BY RecordFields DEF NoNewHelper, Flags
  <1>2. procs' = byTask /\ task' = task /\ run_key' = run_key
    BY DEF LogOffAndOn, Relogon
  <1> HIDE DEF none
  <1>3. NoNewHelper(procs, byRun)
    BY <1>1, SpawnedIsNoHelper
  <1> HIDE DEF byRun
  <1>4. NoNewHelper(procs, byTask)
    BY <1>3, SpawnedIsNoHelper
  <1> HIDE DEF byTask
  <1>5. Calm
    BY <1>2, <1>4 DEF Calm
  <1>6. QED
    BY <1>5, CalmKeeps

-----------------------------------------------------------------------------
(* The steps of the window *)

LEMMA EditCalm ==
  ASSUME HelpersSound, NEW w, NEW c, Edit(w, c) PROVE Calm
  BY SameProcs DEF Edit

LEMMA RunElevatedRetains ==
  ASSUME ~Overlap, HelpersSound, NEW w, NEW what, NEW enable,
         run_elevated_command(w, what, enable), task' = task, run_key' = run_key
  PROVE  HelpersSound' /\ Retained
  <1>1. CASE procs' = procs
    BY <1>1, SameProcs, CalmKeeps
  <1>2. CASE MayStart /\ \E does :
                procs' = Spawn(procs, Launched(does, TRUE, "settings"))
    BY <1>2, OnlyHelper DEF MayStart
  <1>3. QED
    BY <1>1, <1>2 DEF run_elevated_command

LEMMA ReloadRetains ==
  ASSUME ~Overlap, HelpersSound, NEW w, NEW c, ActReload(w, c)
  PROVE  HelpersSound' /\ Retained
  <1>1. task' = task /\ run_key' = run_key
    BY DEF ActReload
  <1>2. ASSUME NEW elevated, MayStart,
               procs' = Spawn(procs, Launched("restart", elevated, "user"))
        PROVE  HelpersSound' /\ Retained
    BY <1>1, <1>2, OnlyHelper DEF MayStart
  <1>3. ASSUME NEW elevated,
               \/ RunTask(procs)
               \/ procs' = Spawn(procs, Launched("daemon", elevated, "user"))
               \/ spawn_daemon_detached(procs, elevated, "user")
        PROVE  HelpersSound' /\ Retained
    <2>1. NoNewHelper(procs, procs)
      BY DEF HelpersSound, NoNewHelper
    <2>2. NoNewHelper(procs, procs')
      BY <1>3, <2>1, DetachedIsNoHelper, TaskIsNoHelper, SpawnedIsNoHelper
    <2>3. QED
      BY <1>1, <2>2, CalmKeeps DEF Calm
  <1>4. QED
    BY <1>2, <1>3 DEF ActReload

\* The only step of the window that takes the Run value away says so.
LEMMA AutostartRetains ==
  ASSUME ~Overlap, HelpersSound, NEW w, WinSound(w), w.autostart = win.autostart, NEW c,
         ActAutostart(w, c)
  PROVE  HelpersSound' /\ Retained
  <1> DEFINE w1 == stop_recording(w)
             enable == ~w.autostart
  <1>1. task' = task
    BY DEF ActAutostart
  <1>2. CASE run_key' = run_key /\ run_elevated_command(w1, "autostart", enable)
    BY <1>1, <1>2, RunElevatedRetains
  <1>3. CASE /\ run_key' = enable /\ procs' = procs
             /\ win' = [Banner(w1) EXCEPT !.autostart = enable]
    <2>1. "autostart" \in DOMAIN Banner(w1)
      BY StopSound, BannerSound DEF WinSound, WinFields
    <2> HIDE DEF w1
    <2>2. win'.autostart = enable
      BY <1>3, <2>1
    <2>3. ~run_key' => win' # win
      BY <1>3, <2>2
    <2>4. HelpersSound'
      BY <1>1, <1>3 DEF HelpersSound
    <2>5. \A p \in Procs : ~(Helper(p, "run_key") /\ Helper(p, "launch")')
      BY <1>3 DEF Helper
    <2>6. is_autostart_enabled /\ ~is_autostart_enabled' => run_key # run_key' /\ win # win'
      BY <1>1, <2>3 DEF is_autostart_enabled
    <2>7. QED
      BY <2>4, <2>5, <2>6 DEF Retained, SetUps
  <1>4. CASE run_key' = run_key /\ procs' = procs
    BY <1>1, <1>4, SameProcs, CalmKeeps
  <1>5. QED
    BY Zenon, <1>2, <1>3, <1>4 DEF ActAutostart, after_action

LEMMA ActivateRetains ==
  ASSUME ~Overlap, HelpersSound, NEW w, WinSound(w), w.autostart = win.autostart, NEW c,
         activate(w, c)
  PROVE  HelpersSound' /\ Retained
  <1>1. CASE ActNav(w, c) \/ ActCombo(w, c) \/ ActCapture(w, c) \/ ActRestore(w, c)
             \/ ActDialog(w, c) \/ ActHotkey(w, c)
    <2>1. UNCHANGED <<task, run_key, procs>>
      BY <1>1 DEF ActNav, ActCombo, ActCapture, ActRestore, ActDialog, ActHotkey, OnlyWindow,
                  elevation
    <2>2. QED
      BY <2>1, SameProcs, CalmKeeps
  <1>2. CASE ActFlip(w, c) \/ ActReset(w, c) \/ ActDelete(w, c)
    <2>1. \E w1, edited : Edit(w1, edited)
      BY <1>2 DEF ActFlip, ActReset, ActDelete
    <2>2. QED
      BY <2>1, EditCalm, CalmKeeps
  <1>3. CASE ActReload(w, c)
    BY <1>3, ReloadRetains
  <1>4. CASE ActElevated(w, c)
    BY <1>4, RunElevatedRetains DEF ActElevated
  <1>5. CASE ActAutostart(w, c)
    BY <1>5, AutostartRetains
  <1>6. QED
    BY <1>1, <1>2, <1>3, <1>4, <1>5 DEF activate

LEMMA LeftUpRetains ==
  ASSUME ~Overlap, WindowInvariant, HelpersSound, LeftUp PROVE HelpersSound' /\ Retained
  <1> DEFINE w == [win EXCEPT !.pressed = Nothing]
  <1>1. WinSound(w)
    BY PlainFields DEF WindowInvariant
  <1>2. w.autostart = win.autostart
    BY DEF WindowInvariant, WinSound, WinFields
  <1>3. CASE OnlyWindow
    BY <1>3, SameProcs, CalmKeeps DEF OnlyWindow, elevation
  <1>4. CASE \E t \in HitTargets : activate(w, t)
    BY <1>1, <1>2, <1>4, ActivateRetains
  <1>5. QED
    BY Zenon, <1>3, <1>4 DEF LeftUp

LEMMA HelperReturnsCalm ==
  ASSUME HelpersSound, HelperReturns PROVE Calm
  <1>1. NoNewHelper(procs, procs)
    BY DEF HelpersSound, NoNewHelper
  <1>2. NoNewHelper(procs, procs')
    BY <1>1, RecordFields, ReplacedIsNoHelper DEF HelperReturns, Flags
  <1>3. QED
    BY <1>2 DEF HelperReturns, Calm

LEMMA StepRetains ==
  ASSUME ~Overlap, WindowInvariant, HelpersSound, slips \in Nat, [Next]_vars
  PROVE  HelpersSound' /\ [Retained]_vars
  <1>1. CASE UNCHANGED vars
    BY <1>1 DEF vars, elevation, HelpersSound
  <1>2. CASE LeftDown \/ Dismiss \/ KeyInCombo \/ KeyRecorded \/ Tab \/ HookStrikes
             \/ PopupMouse \/ Handled \/ run_file_dialog \/ BannerTimer \/ CaptureTimer
             \/ Deactivated \/ Activated \/ ReloadReturns \/ Close \/ run_settings
             \/ DaemonCaptures
    <2>1. UNCHANGED <<task, run_key, procs>>
      BY <1>2 DEF LeftDown, Dismiss, KeyInCombo, KeyRecorded, Tab, HookStrikes, PopupMouse,
                  Handled, run_file_dialog, BannerTimer, CaptureTimer, Deactivated, Activated,
                  ReloadReturns, Close, run_settings, DaemonCaptures, OnlyWindow, elevation,
                  commit_combo, handle_recorder_key
    <2>2. QED
      BY <2>1, SameProcs, CalmKeeps
  <1>3. CASE LeftUp
    BY <1>3, LeftUpRetains
  <1>4. CASE Enter
    BY <1>4, ActivateRetains DEF Enter, WindowInvariant
  <1>5. CASE HelperReturns
    BY <1>5, HelperReturnsCalm, CalmKeeps
  <1>6. CASE LogOffAndOn
    BY <1>6, RelogonRetains
  <1>7. CASE Processes
    BY <1>7, ProcessesRetain
  <1>8. CASE HelpersSound' /\ Retained
    BY <1>8
  <1>9. QED
    BY Zenon, <1>1, <1>2, <1>3, <1>4, <1>5, <1>6, <1>7, <1>8 DEF Next

\* What is left of the bound on the failing calls.
LEMMA SlipsStep ==
  ASSUME slips \in Nat, [Next]_vars PROVE slips' \in Nat
  <1>1. Slip => slips' \in Nat
    BY DEF Slip
  <1>2. Fine => slips' \in Nat
    BY DEF Fine
  <1>3. CASE UNCHANGED slips
    BY <1>3
  <1>4. ASSUME NEW w, NEW c PROVE Edit(w, c) => Fine \/ Slip
    BY DEF Edit, autosave
  <1>5. ASSUME NEW w, NEW c, activate(w, c) PROVE Fine \/ Slip \/ UNCHANGED slips
    <2>1. CASE ActFlip(w, c) \/ ActReset(w, c) \/ ActDelete(w, c)
      BY <1>4, <2>1 DEF ActFlip, ActReset, ActDelete
    <2>2. CASE ActNav(w, c) \/ ActCombo(w, c) \/ ActCapture(w, c) \/ ActRestore(w, c)
               \/ ActDialog(w, c) \/ ActHotkey(w, c)
      BY <2>2 DEF ActNav, ActCombo, ActCapture, ActRestore, ActDialog, ActHotkey, OnlyWindow,
                  elevation, open_combo, Fine
    <2>3. CASE ActReload(w, c) \/ ActElevated(w, c) \/ ActAutostart(w, c)
      BY <2>3 DEF ActReload, ActElevated, ActAutostart, RunTask, spawn_daemon_detached
    <2>4. QED
      BY <1>5, <2>1, <2>2, <2>3 DEF activate
  <1>6. CASE LeftUp \/ Enter
    BY <1>1, <1>2, <1>5, <1>6 DEF LeftUp, Enter, OnlyWindow, elevation
  <1>7. CASE LeftDown \/ Dismiss \/ KeyInCombo \/ KeyRecorded \/ Tab \/ HookStrikes
             \/ PopupMouse \/ Handled \/ run_file_dialog
    BY <1>1, <1>2, <1>7 DEF LeftDown, Dismiss, KeyInCombo, KeyRecorded, Tab, HookStrikes,
       PopupMouse, Handled, run_file_dialog, OnlyWindow, elevation, commit_combo,
       handle_recorder_key, autosave
  <1>8. CASE BannerTimer \/ CaptureTimer \/ Deactivated \/ Activated \/ HelperReturns
             \/ ReloadReturns \/ Close \/ run_settings \/ DaemonCaptures \/ LogOffAndOn
    BY <1>8 DEF BannerTimer, CaptureTimer, Deactivated, Activated, HelperReturns,
       ReloadReturns, Close, run_settings, DaemonCaptures, LogOffAndOn, Relogon, OnlyWindow,
       elevation
  <1>9. ASSUME NEW p \in Procs, ProcStep(p) PROVE slips' \in Nat
    BY <1>1, <1>2, <1>9 DEF ProcStep, Guard, CreateWindow, MarkElevated, Exit, Refuse,
       stop_running_daemon, Stopped, install_elevated_task, remove_elevated_task,
       set_run_key_enabled, Launch, handle_restart_daemon, RunTask, spawn_daemon_detached
  <1>10. CASE Processes
    BY <1>1, <1>9, <1>10 DEF Processes, RunFlag, QuitByHand
  <1>11. QED
    BY <1>3, <1>6, <1>7, <1>8, <1>10 DEF Next, vars, elevation

LEMMA HelpersAtFirst == Init => HelpersSound
  <1> SUFFICES ASSUME Init PROVE HelpersSound
    OBVIOUS
  <1>1. PICK up \in BOOLEAN, by \in {"task", "run_key"} : procs = [p \in Procs |->
                 IF p = 1 /\ up THEN [Launched("daemon", task, by) EXCEPT !.at = "up"]
                 ELSE Idle]
    BY DEF Init
  <1> DEFINE first == [Launched("daemon", task, by) EXCEPT !.at = "up"]
  <1>2. DOMAIN first = ProcFields /\ first.does = "daemon"
    BY RecordFields DEF ProcFields
  <1>3. DOMAIN Idle = ProcFields /\ Idle.does = "none"
    BY RecordFields
  <1> HIDE DEF first
  <1>4. \A p \in Procs : procs[p] = first \/ procs[p] = Idle
    BY <1>1 DEF first
  <1>5. QED
    BY <1>1, <1>2, <1>3, <1>4 DEF HelpersSound, Flags

\* Unless two helpers overlap, the user's autostart is lost in one step only, by
\* the switch for it or by a --disable-elevation that has yet to write the Run
\* value, and a helper that has written the Run value leaves it on
\* (install_elevated_task, remove_elevated_task, set_run_key_enabled, ActAutostart).
THEOREM AutostartRetainedCorrect == ASSUME ~Overlap PROVE Spec => AutostartRetained
  <1>1. Init => HelpersSound /\ slips \in Nat
    BY HelpersAtFirst, ElevationAssumption DEF Init
  <1>2. slips \in Nat /\ [Next]_vars => (slips \in Nat)'
    BY SlipsStep
  <1>3. WindowInvariant /\ HelpersSound /\ slips \in Nat /\ [Next]_vars
          => HelpersSound' /\
             [/\ is_autostart_enabled /\ ~is_autostart_enabled' =>
                   \/ run_key # run_key' /\ win # win'
                   \/ \E p \in SetUps : Helper(p, "stopped") /\ Helper(p, "run_key")'
              /\ \A p \in SetUps : Helper(p, "run_key") /\ Helper(p, "launch")' /\ slips' = slips
                   => is_autostart_enabled']_vars
    BY StepRetains DEF Retained
  <1>4. QED
    BY <1>1, <1>2, <1>3, WindowAlwaysSound, PTL DEF Spec, AutostartRetained
=============================================================================
