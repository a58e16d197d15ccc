--------------------------- MODULE SettingsWindow ---------------------------
(***************************************************************************)
(* The settings window (winspaces-ui, settings): one window procedure over *)
(* controls laid out a page at a time, a dropdown in a window of its own,  *)
(* a hotkey recorder with a keyboard hook, two timers, a file dialog, and  *)
(* the helpers it runs and waits for to switch the autostart and the       *)
(* elevated mode (module Elevation).                                       *)
(*                                                                         *)
(* A point is the control that lies there: scrolling decides which can be  *)
(* reached, and is left out but for closing the dropdown.  Painting, the   *)
(* highlight under the pointer and what banners say are left out too.      *)
(***************************************************************************)
EXTENDS Elevation, Sequences, SequencesExt, TLC

CONSTANTS
    Hands,      \* bound: sets of controls and gestures, one of which the user keeps to
    Languages,  \* rows of the language dropdown
    Presets,    \* GAP_PRESETS
    Keys,       \* keys that record, "Esc" not among them
    Elevations, \* the elevations its process may have, from whoever opened it
    Default,    \* Config::default, and the file at the start
    Imported,   \* the configuration in the file the user imports
    Captured    \* the rules the daemon captures

ASSUME SettingsAssumption ==
    /\ Languages \in Nat \ {0} /\ Len(Presets) > 2
    /\ "Esc" \notin Keys /\ Elevations \subseteq BOOLEAN
    /\ \A c \in {Default, Imported} :
          /\ DOMAIN c = {"on", "language", "inner", "outer", "keys", "rules", "floats"}
          /\ c.rules \in Seq(STRING) /\ c.floats \in Seq(STRING)
    /\ Captured \in Seq(STRING)

VARIABLES
    win,       \* the window, its dropdown, its hook; its view of the daemon
    where,     \* it is in front, behind another window, or closed
    config,    \* its copy of the configuration
    file,      \* settings.json
    timers,    \* TIMER_BANNER, TIMER_CAPTURE, where armed
    posted,    \* messages it posted to itself, handled before any input
    dialog,    \* the file dialog that is up
    call,      \* what the thread waits for, deaf to everything else
    capture,   \* the daemon has a capture request to handle
    hand       \* the controls and gestures of this behaviour

window == <<win, where, config, file, timers, posted, dialog, call, capture>>
vars   == <<elevation, window, hand>>

-----------------------------------------------------------------------------
\* The controls of a page, in the order of the focus.

Page_ALL == <<"System", "Tiling", "Hotkeys", "Workspaces">>

Control(id)        == <<id, "", 0>>
Nav(page)          == <<"Nav", page, 0>>
NavCard(page, ord) == <<"NavCard", page, ord>>
Hotkey(target)     == <<"Hotkey", target[1], target[2]>>
Nothing            == Control("")
Terminal           == Control("Terminal")
Switches           == {Control("ToggleAutostart"), Control("ToggleElevated")}
NoTarget           == <<"", 0>>

Targets(names) == [i \in DOMAIN names |-> Hotkey(<<names[i], 0>>)]
Deletes(id, list) == [i \in DOMAIN list |-> <<id, "", i>>]

System ==
    <<NavCard("Tiling", 0), NavCard("Hotkeys", 1), NavCard("Hotkeys", 2),
      NavCard("Workspaces", 3)>>
    \o [i \in 1 .. 9 |-> Control(
          <<"ToggleShowAll", "ToggleWinTab", "ToggleSpaceIndicator", "ToggleAutostart",
            "ToggleElevated", "ComboTheme", "ComboLanguage", "BtnExport", "BtnImport">>[i])]

Tiling ==
    <<Control("ToggleTiling"), Control("ComboInnerGap"), Control("ComboOuterGap")>>
    \o Targets(<<"TilingToggle", "TilingToggleFloat", "TilingToggleSplit", "TilingFocusLeft",
                 "TilingFocusRight", "TilingFocusUp", "TilingFocusDown", "TilingSwapLeft",
                 "TilingSwapRight", "TilingSwapUp", "TilingSwapDown", "TilingRatioGrow",
                 "TilingRatioShrink">>)
    \o Deletes("FloatRuleDelete", config.floats)

MAX_SPACES == 9

Hotkeys ==
    Targets(<<"Overview">>)
    \o [i \in 1 .. 2 * MAX_SPACES |->
            Hotkey(<<IF i % 2 = 1 THEN "Switch" ELSE "Move", (i + 1) \div 2>>)]
    \o Targets(<<"Prev", "Next", "ToggleSticky">>)

Workspaces ==
    <<Control("ToggleAutoRestore"), Control("BtnCapture"), Control("BtnRestore")>>
    \o Deletes("RuleDelete", config.rules)

\* The hero card first, the footer last.
build_page(page) ==
    <<Control("BtnReload")>>
    \o (CASE page = "System"     -> System
          [] page = "Tiling"     -> Tiling
          [] page = "Hotkeys"    -> Hotkeys
          [] page = "Workspaces" -> Workspaces)
    \o <<Control("BtnReset")>>

FocusOrder == [i \in 1 .. 4 |-> Nav(Page_ALL[i])] \o build_page(win.page)
Shown      == ToSet(FocusOrder)

\* Where the button goes down or up: a control, the thumb of the bar, or neither.
HitTargets == (hand \cap (Shown \cup {Control("Thumb")})) \cup {Nothing}

-----------------------------------------------------------------------------
\* The dropdown and the recorder.

NoCombo == [kind |-> "none", hover |-> 0]
Kinds   == {"ComboTheme", "ComboLanguage", "ComboInnerGap", "ComboOuterGap"}

\* Rows count from 1; hover 0 is no row.
combo_item_count(kind) ==
    CASE kind = "ComboTheme"    -> 3
      [] kind = "ComboLanguage" -> Languages
      [] OTHER                  -> Len(Presets)

PresetRow(gap) == IF \E i \in DOMAIN Presets : Presets[i] = gap
                  THEN CHOOSE i \in DOMAIN Presets : Presets[i] = gap ELSE 3

combo_selected_index(kind) ==
    CASE kind = "ComboTheme"    -> win.theme
      [] kind = "ComboLanguage" -> config.language
      [] kind = "ComboInnerGap" -> PresetRow(config.inner)
      [] kind = "ComboOuterGap" -> PresetRow(config.outer)

hovered_or_selected ==
    IF win.combo.hover # 0 THEN win.combo.hover ELSE combo_selected_index(win.combo.kind)

close_combo(w) ==
    IF w.combo = NoCombo THEN w ELSE [w EXCEPT !.combo = NoCombo, !.popups = @ - 1]

\* Faulty variant: the recording ends and its hook stays.
stop_recordingUnderHook(w) ==
    IF w.capturing = NoTarget THEN w ELSE [w EXCEPT !.capturing = NoTarget, !.capture_hook = FALSE]

\* capture_hook counts while recording only, and is put back with it here.
stop_recording(w) ==
    IF w.capturing = NoTarget THEN w
    ELSE [w EXCEPT !.capturing = NoTarget, !.hook = FALSE, !.capture_hook = FALSE]

-----------------------------------------------------------------------------
\* Saving, banners and the view of the daemon.

\* after_action: a banner that is up goes in four seconds.
after_action(w) ==
    /\ win' = w
    /\ timers' = IF w.banner = "none" THEN timers ELSE timers \cup {"banner"}

Banner(w) == [w EXCEPT !.banner = "action"]

\* The daemon is told of the file either way (modules Control and Hotkeys).
autosave(edited) ==
    /\ config' = edited
    /\ \/ Fine /\ file' = edited
       \/ Slip /\ file' = file

Edit(w, edited) ==
    /\ autosave(edited)
    /\ after_action([Banner(w) EXCEPT !.running = is_daemon_running])
    /\ UNCHANGED <<where, posted, dialog, call, capture, task, run_key, procs, flags, logons>>

\* Nothing but the window itself, its timers and its place.
OnlyWindow == UNCHANGED <<config, file, dialog, call, capture, elevation>>

\* The views a refresh may end with.
refresh_daemon_status(w) ==
    {[w EXCEPT !.running = is_daemon_running, !.mode = task \/ elevated,
               !.autostart = is_autostart_enabled] : elevated \in is_daemon_elevated}

-----------------------------------------------------------------------------
\* activate: what a control does, w being the window after the gesture.  Any
\* control but a hotkey field ends a recording first.

ActNav(w, c) ==
    /\ c[1] \in {"Nav", "NavCard"}
    /\ win' = [stop_recording(w) EXCEPT !.page = c[2]]
    /\ UNCHANGED <<where, timers, posted>> /\ OnlyWindow

Flips == {"ToggleShowAll", "ToggleWinTab", "ToggleSpaceIndicator", "ToggleAutoRestore",
          "ToggleTiling"}

ActFlip(w, c) ==
    /\ c[1] \in Flips
    /\ Edit(stop_recording(w),
            [config EXCEPT !.on = IF c[1] \in @ THEN @ \ {c[1]} ELSE @ \cup {c[1]}])

\* Faulty variant: the dropdown of another field is forgotten, not closed.
open_comboOverAnother(w, kind) ==
    \/ /\ Fine
       /\ win' = [w EXCEPT !.combo = [kind |-> kind, hover |-> combo_selected_index(kind)],
                           !.popups = @ + 1]
    \/ Slip /\ win' = w

\* The dropdown of another field is closed on the way; its window may fail.
open_combo(w, kind) ==
    LET w1 == close_combo(w) IN
    \/ /\ Fine
       /\ win' = [w1 EXCEPT !.combo = [kind |-> kind, hover |-> combo_selected_index(kind)],
                            !.popups = @ + 1]
    \/ Slip /\ win' = w1

ActCombo(w, c) ==
    LET w1 == stop_recording(w) IN
    /\ c[1] \in Kinds
    /\ \/ w.combo.kind = c[1] /\ Fine /\ win' = close_combo(w1)
       \/ w.combo.kind # c[1] /\ open_combo(w1, c[1])
    /\ UNCHANGED <<where, config, file, timers, posted, dialog, call, capture,
                   task, run_key, procs, flags, logons>>

\* Restart through the helper, or start; the thread sleeps over it.  A child has
\* the elevation of the window's process.
ActReload(w, c) == \E elevated \in Elevations :
    /\ c = Control("BtnReload")
    /\ win' = stop_recording(w) /\ call' = [call EXCEPT !.does = "reload"]
    /\ IF w.running
       THEN /\ Spare(procs) # {} /\ MayStart /\ Fine
            /\ procs' = Spawn(procs, Launched("restart", elevated, "user"))
       ELSE \/ w.mode /\ task /\ RunTask(procs)
            \/ w.mode /\ task /\ Slip /\ Spare(procs) # {}
               /\ procs' = Spawn(procs, Launched("daemon", elevated, "user"))
            \/ ~(w.mode /\ task) /\ spawn_daemon_detached(procs, elevated, "user")
    /\ UNCHANGED <<where, config, file, timers, posted, dialog, capture,
                   task, run_key, flags, logons>>

\* The daemon is asked, and its file read again in 300 ms.
ActCapture(w, c) ==
    /\ c = Control("BtnCapture")
    /\ IF is_daemon_running
       THEN /\ win' = stop_recording(w)
            /\ timers' = timers \cup {"capture"} /\ capture' = TRUE
       ELSE after_action(Banner(stop_recording(w))) /\ capture' = capture
    /\ UNCHANGED <<where, config, file, posted, dialog, call, elevation>>

ActRestore(w, c) ==
    /\ c = Control("BtnRestore")
    /\ \E view \in refresh_daemon_status(Banner(stop_recording(w))) : after_action(view)
    /\ UNCHANGED <<where, config, file, posted, dialog, call, capture, elevation>>

ActReset(w, c) ==
    /\ c = Control("BtnReset")
    /\ Edit(stop_recording(w), [Default EXCEPT !.language = config.language])

\* The dialog runs a message loop of its own: only a message asks for it.
ActDialog(w, c) ==
    /\ c[1] \in {"BtnExport", "BtnImport"}
    /\ posted' = Append(posted, [is |-> "dialog", arg |-> c[1]])
    /\ win' = stop_recording(w)
    /\ UNCHANGED <<where, timers>> /\ OnlyWindow

ActHotkey(w, c) ==
    LET target == <<c[2], c[3]>> IN
    /\ c[1] = "Hotkey"
    /\ \/ w.capturing = target /\ Fine /\ win' = stop_recording(w)
       \/ w.capturing # target /\ Fine
          /\ win' = [w EXCEPT !.capturing = target, !.hook = TRUE, !.capture_hook = TRUE]
       \/ w.capturing # target /\ Slip
          /\ win' = [w EXCEPT !.capturing = target, !.hook = FALSE, !.capture_hook = FALSE]
    /\ UNCHANGED <<where, config, file, timers, posted, dialog, call, capture,
                   task, run_key, procs, flags, logons>>

ActDelete(w, c) ==
    LET w1 == stop_recording(w)
        from(list) == c[3] \in DOMAIN list
    IN
    \/ /\ c[1] = "RuleDelete" /\ from(config.rules)
       /\ Edit(w1, [config EXCEPT !.rules = RemoveAt(@, c[3])])
    \/ /\ c[1] = "FloatRuleDelete" /\ from(config.floats)
       /\ Edit(w1, [config EXCEPT !.floats = RemoveAt(@, c[3])])

-----------------------------------------------------------------------------
\* The two switches that need a helper.

\* run_elevated_command: the consent refused, or the helper runs and the
\* thread waits for it.
run_elevated_command(w, what, enable) ==
    \/ /\ after_action(Banner(w)) /\ UNCHANGED <<procs, call>>
    \/ /\ Spare(procs) # {} /\ MayStart
       /\ LET new == Spawn(procs, Launched(IF enable THEN "enable" ELSE "disable",
                                           TRUE, "settings"))
          IN  /\ procs' = new
              /\ call' = [does |-> what, enable |-> enable,
                          helper |-> CHOOSE p \in Procs : new[p] # procs[p]]
       /\ win' = w /\ timers' = timers

ActElevated(w, c) ==
    /\ c = Control("ToggleElevated")
    /\ run_elevated_command(stop_recording(w), "elevated", ~w.mode)
    /\ UNCHANGED <<where, config, file, posted, dialog, capture, task, run_key, flags,
                   slips, logons>>

ActAutostart(w, c) ==
    LET w1 == stop_recording(w) enable == ~w.autostart IN
    /\ c = Control("ToggleAutostart")
    /\ \/ w.mode /\ Fine /\ run_key' = run_key
          /\ run_elevated_command(w1, "autostart", enable)
       \/ ~w.mode /\ Fine /\ run_key' = enable
          /\ after_action([Banner(w1) EXCEPT !.autostart = enable])
          /\ UNCHANGED <<procs, call>>
       \/ ~w.mode /\ Slip /\ run_key' = run_key
          /\ after_action(Banner(w1))
          /\ UNCHANGED <<procs, call>>
    /\ UNCHANGED <<where, config, file, posted, dialog, capture, task, flags, logons>>

activate(w, c) ==
    \/ ActNav(w, c) \/ ActFlip(w, c) \/ ActCombo(w, c) \/ ActReload(w, c)
    \/ ActCapture(w, c) \/ ActRestore(w, c) \/ ActReset(w, c) \/ ActDialog(w, c)
    \/ ActHotkey(w, c) \/ ActDelete(w, c) \/ ActElevated(w, c) \/ ActAutostart(w, c)

NoCall == [does |-> "none", enable |-> FALSE, helper |-> None]

\* The helper has ended; only its success makes the window look again.
HelperReturns ==
    /\ call.helper # None /\ procs[call.helper].does = "ended"
    /\ procs' = [procs EXCEPT ![call.helper] = Idle]
    /\ call' = NoCall
    /\ IF procs[call.helper].at = "success"
       THEN \E view \in refresh_daemon_status(Banner(win)) : after_action(view)
       ELSE after_action(Banner(win))
    /\ UNCHANGED <<where, config, file, posted, dialog, capture, task, run_key, flags,
                   slips, logons, hand>>

\* The sleep over a restart is over, wherever the restart is.
ReloadReturns ==
    /\ call.does = "reload" /\ call' = NoCall
    /\ \E view \in refresh_daemon_status(Banner(win)) : after_action(view)
    /\ UNCHANGED <<where, config, file, posted, dialog, capture, elevation, hand>>

-----------------------------------------------------------------------------
\* Input, once the messages it posted to itself are handled.

Awake == where # "closed" /\ call = NoCall
Input == Awake /\ posted = <<>> /\ dialog = "none"

\* A press anywhere closes the dropdown; on a dropdown's field that is all.
LeftDown ==
    /\ Input /\ where' = "front"
    /\ \E t \in HitTargets :
          LET w == close_combo([win EXCEPT !.focus = 0]) IN
          win' = IF win.combo # NoCombo /\ t[1] \in Kinds THEN w
                 ELSE [w EXCEPT !.grab    = @ \/ t = Control("Thumb"),
                                !.pressed = IF t \in Shown THEN t ELSE @]
    /\ UNCHANGED <<timers, posted, hand>> /\ OnlyWindow

\* The window has the mouse captured: the button may go up while it is behind.
LeftUp ==
    /\ Input /\ UNCHANGED hand
    /\ \/ /\ win.grab /\ win' = [win EXCEPT !.grab = FALSE]
          /\ UNCHANGED <<where, timers, posted>> /\ OnlyWindow
       \/ /\ ~win.grab /\ win.pressed # Nothing
          /\ \E t \in HitTargets :
                LET w == [win EXCEPT !.pressed = Nothing] IN
                \/ t = win.pressed /\ activate(w, t)
                \/ /\ t # win.pressed /\ win' = w
                   /\ UNCHANGED <<where, timers, posted>> /\ OnlyWindow

\* scroll_by when it moves the page, and a press on the caption.
Dismiss ==
    /\ Input /\ win.combo # NoCombo
    /\ win' = close_combo(win)
    /\ UNCHANGED <<where, timers, posted, hand>> /\ OnlyWindow

\* Under the hook no key arrives but as a message of the recorder's.
Typing == Input /\ where = "front" /\ ~win.hook /\ UNCHANGED hand

\* commit_combo, by a key or by the message of a click: the setting is saved if
\* the row changes it.  The banner comes without after_action.
commit_combo(row) ==
    LET w    == close_combo(win)
        kind == win.combo.kind
        edited == CASE kind = "ComboLanguage" -> [config EXCEPT !.language = row]
                    [] kind = "ComboInnerGap" -> [config EXCEPT !.inner = Presets[row]]
                    [] kind = "ComboOuterGap" -> [config EXCEPT !.outer = Presets[row]]
                    [] OTHER                  -> config
    IN
    /\ IF edited = config
       THEN /\ win' = IF kind = "ComboTheme" THEN [w EXCEPT !.theme = row] ELSE w
            /\ UNCHANGED <<config, file, slips>>
       ELSE autosave(edited) /\ win' = [w EXCEPT !.banner = "commit", !.running = is_daemon_running]
    /\ UNCHANGED <<where, timers, dialog, call, capture, task, run_key, procs, flags, logons>>

KeyInCombo ==
    /\ Typing /\ win.combo # NoCombo /\ posted' = posted
    /\ \/ win' = close_combo(win) /\ UNCHANGED <<where, timers>> /\ OnlyWindow
       \/ LET count == combo_item_count(win.combo.kind) IN
          /\ \E by \in {1, count - 1} :
                win' = [win EXCEPT !.combo.hover = ((hovered_or_selected - 1 + by) % count) + 1]
          /\ UNCHANGED <<where, timers>> /\ OnlyWindow
       \/ commit_combo(hovered_or_selected)

\* handle_recorder_key: Escape keeps the old key.
handle_recorder_key(key) ==
    \/ /\ key = "Esc" /\ win' = stop_recording(win)
       /\ UNCHANGED <<where, timers>> /\ OnlyWindow
    \/ /\ key # "Esc"
       /\ autosave([config EXCEPT !.keys = (win.capturing :> key) @@ @])
       /\ after_action([Banner(stop_recording(win)) EXCEPT !.running = is_daemon_running])
       /\ UNCHANGED <<where, dialog, call, capture, task, run_key, procs, flags, logons>>

KeyRecorded ==
    /\ Typing /\ win.combo = NoCombo /\ win.capturing # NoTarget /\ ~win.capture_hook
    /\ \E key \in Keys \cup {"Esc"} : handle_recorder_key(key)
    /\ UNCHANGED posted

\* Tab as often as it takes; focus 0 is keyboard_nav off.
Tab ==
    /\ Typing /\ Control("Tab") \in hand /\ win.combo = NoCombo /\ win.capturing = NoTarget
    /\ \E i \in DOMAIN FocusOrder :
          FocusOrder[i] \in hand /\ win' = [win EXCEPT !.focus = i]
    /\ UNCHANGED <<where, timers, posted>> /\ OnlyWindow

Enter ==
    /\ Typing /\ win.combo = NoCombo /\ win.capturing = NoTarget
    /\ win.focus \in DOMAIN FocusOrder
    /\ activate(win, FocusOrder[win.focus])

\* The hook sees every key of every window, and posts it.
HookStrikes ==
    /\ win.hook /\ Len(posted) < 2
    /\ \E key \in Keys \cup {"Esc"} : posted' = Append(posted, [is |-> "key", arg |-> key])
    /\ UNCHANGED <<win, where, timers, hand>> /\ OnlyWindow

\* The dropdown has a window of its own, which never takes the focus.
PopupMouse ==
    /\ Input /\ win.combo # NoCombo
    /\ \/ /\ \E row \in 0 .. combo_item_count(win.combo.kind) : win' = [win EXCEPT !.combo.hover = row]
          /\ posted' = posted
       \/ /\ \E row \in 1 .. combo_item_count(win.combo.kind) :
                posted' = <<[is |-> "row", arg |-> row]>>
          /\ win' = win
    /\ UNCHANGED <<where, timers, hand>> /\ OnlyWindow

-----------------------------------------------------------------------------
\* The messages it posted, the timers, and the window among others.

Handled ==
    LET m == Head(posted) IN
    /\ Awake /\ posted # <<>> /\ posted' = Tail(posted) /\ UNCHANGED hand
    /\ \/ m.is = "key" /\ win.capturing # NoTarget /\ handle_recorder_key(m.arg)
       \/ m.is = "row" /\ win.combo # NoCombo /\ commit_combo(m.arg)
       \/ /\ m.is = "key" => win.capturing = NoTarget
          /\ m.is = "row" => win.combo = NoCombo
          /\ m.is # "dialog"
          /\ UNCHANGED <<win, where, timers>> /\ OnlyWindow
       \/ /\ m.is = "dialog"
          /\ win' = close_combo(stop_recording(win)) /\ where' = "behind"
          /\ dialog' = m.arg
          /\ UNCHANGED <<config, file, timers, call, capture, elevation>>

\* A path is picked and written or read, or not.
run_file_dialog ==
    /\ dialog # "none" /\ dialog' = "none" /\ where' = "front"
    /\ \/ UNCHANGED <<win, config, file, timers, slips>>
       \/ after_action(Banner(win)) /\ UNCHANGED <<config, file, slips>>
       \/ /\ dialog = "BtnImport" /\ autosave(Imported)
          /\ after_action([Banner(win) EXCEPT !.running = is_daemon_running])
    /\ UNCHANGED <<posted, call, capture, task, run_key, procs, flags, logons, hand>>

BannerTimer ==
    /\ Awake /\ "banner" \in timers /\ timers' = timers \ {"banner"}
    /\ win' = [win EXCEPT !.banner = "none"]
    /\ UNCHANGED <<where, posted, hand>> /\ OnlyWindow

CaptureTimer ==
    /\ Awake /\ "capture" \in timers
    /\ timers' = (timers \ {"capture"}) \cup {"banner"}
    /\ config' = file /\ win' = Banner(win)
    /\ UNCHANGED <<where, file, posted, dialog, call, capture, elevation, hand>>

\* A thread that waits does not take the message in.
Deactivated ==
    /\ Control("Leave") \in hand
    /\ where = "front" /\ where' = "behind"
    /\ win' = IF call = NoCall THEN close_combo(stop_recording(win)) ELSE win
    /\ UNCHANGED <<timers, posted, hand>> /\ OnlyWindow

Activated ==
    /\ where = "behind" /\ dialog = "none" /\ where' = "front"
    /\ UNCHANGED <<win, timers, posted, hand>> /\ OnlyWindow

-----------------------------------------------------------------------------
\* The settings process and the rest of the system.

Opened == [page |-> "System", banner |-> "none", pressed |-> Nothing, grab |-> FALSE,
           focus |-> 0, combo |-> NoCombo, popups |-> 0, theme |-> 1,
           capturing |-> NoTarget, hook |-> FALSE, capture_hook |-> FALSE,
           running |-> FALSE, mode |-> FALSE, autostart |-> FALSE]

\* WM_DESTROY, and the process after it.
Close ==
    /\ Input /\ where' = "closed" /\ win' = Opened /\ timers' = {} /\ config' = Default
    /\ UNCHANGED <<file, posted, dialog, call, capture, elevation, hand>>

run_settings ==
    /\ where = "closed" /\ Terminal \notin hand
    /\ where' = "front" /\ config' = file
    /\ win' \in refresh_daemon_status(Opened)
    /\ UNCHANGED <<file, timers, posted, dialog, call, capture, elevation, hand>>

DaemonCaptures ==
    /\ capture /\ capture' = FALSE
    /\ file' = IF is_daemon_running THEN [file EXCEPT !.rules = Captured] ELSE file
    /\ UNCHANGED <<win, where, config, timers, posted, dialog, call, elevation, hand>>

LogOffAndOn ==
    /\ Relogon
    /\ where' = "closed" /\ win' = Opened /\ timers' = {} /\ config' = Default
    /\ posted' = <<>> /\ dialog' = "none" /\ call' = NoCall /\ capture' = FALSE
    /\ UNCHANGED <<file, hand>>


\* Processes change in the behaviours about them only: with the flags of a
\* terminal, or the switches and the button of the window.
AboutProcesses == hand \cap (Switches \cup {Terminal, Control("BtnReload")}) # {}

Processes ==
    /\ AboutProcesses
    /\ (\E p \in Procs : ProcStep(p)) \/ RunFlag \/ QuitByHand
    /\ UNCHANGED <<window, hand>>

Init ==
    /\ hand \in Hands
    /\ where = "closed" /\ win = Opened /\ config = Default /\ file = Default
    /\ timers = {} /\ posted = <<>> /\ dialog = "none" /\ call = NoCall /\ capture = FALSE
    /\ task \in IF AboutProcesses THEN BOOLEAN ELSE {FALSE}
    /\ run_key = ~task
    /\ \E up \in BOOLEAN :
          LET by == IF task THEN "task" ELSE "run_key" IN
          procs = [p \in Procs |-> IF p = 1 /\ up
                                  THEN [Launched("daemon", task, by) EXCEPT !.at = "up"]
                                  ELSE Idle]
    /\ slips = MaxSlips
    /\ flags = IF Terminal \in hand THEN MaxFlags ELSE 0
    /\ logons = IF hand \cap (Switches \cup {Terminal}) # {} THEN Logons ELSE 0

Next ==
    \/ LeftDown \/ LeftUp \/ Dismiss \/ KeyInCombo \/ KeyRecorded \/ Tab \/ Enter
    \/ HookStrikes \/ PopupMouse \/ Handled \/ run_file_dialog
    \/ BannerTimer \/ CaptureTimer \/ Deactivated \/ Activated
    \/ HelperReturns \/ ReloadReturns
    \/ Close \/ run_settings \/ DaemonCaptures \/ LogOffAndOn
    \/ Processes

\* Every process gets the processor, and the window's thread when what it waits
\* for is over.
Fairness ==
    /\ \A p \in Procs : WF_vars(ProcStep(p) /\ UNCHANGED <<window, hand>>)
    /\ WF_vars(HelperReturns) /\ WF_vars(ReloadReturns)

Spec == Init /\ [][Next]_vars /\ Fairness
=============================================================================
