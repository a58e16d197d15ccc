------------------------- MODULE SettingsProperties -------------------------
(***************************************************************************)
(* What the settings window and the helpers promise, about the             *)
(* specification of SettingsWindow.                                        *)
(***************************************************************************)
EXTENDS SettingsWindow

\* The recorder's hook swallows every key of every window: it is installed
\* exactly while a field records with it, whichever way the recording ended
\* (stop_recording, handle_recorder_key, the hotkey arm of activate).
HookLivesOnlyDuringCapture ==
    win.hook <=> win.capturing # NoTarget /\ win.capture_hook

\* No window of a dropdown is left on the screen without the state that closes
\* it, also when the keyboard opens one dropdown under a press on another's
\* field (open_combo, close_combo).
PopupIsTheDropdown == win.popups = IF win.combo = NoCombo THEN 0 ELSE 1

\* The user's autostart is lost in one step only: the switch for it in standard
\* mode, or a --disable-elevation that has yet to write the Run value.  A helper
\* about to start the daemon again leaves it on, unless the write failed.  Two
\* set-ups that overlap can leave neither (Overlap).
AutostartRetained ==
    [][/\ is_autostart_enabled /\ ~is_autostart_enabled' =>
             \/ run_key # run_key' /\ win # win'
             \/ \E p \in SetUps : Helper(p, "stopped") /\ Helper(p, "run_key")'
       /\ \A p \in SetUps : Helper(p, "run_key") /\ Helper(p, "launch")' /\ slips' = slips
             => is_autostart_enabled']_vars

\* A helper that has set out to stop the daemon brings one up that nobody has
\* told to exit: unless a call failed, the wait ran out, the user, a crash or the
\* log-off ended one, or another helper is asked for meanwhile.
DaemonComesBack ==
    (\E p \in Procs : procs[p].does \in Flags /\ procs[p].at # "start")
      ~> \/ slips < MaxSlips \/ logons < Logons
         \/ \E p \in Procs : Helper(p, "start")
         \/ \E p \in Procs : Daemon(p, "up") /\ ~procs[p].exit

\* What --disable-elevation starts is the standard user daemon
\* (docs/ipc-and-config.md:245).
StandardAfterDisable ==
    \A p \in Procs : procs[p].does = "daemon" /\ procs[p].by = "disable" => ~procs[p].elevated
=============================================================================
