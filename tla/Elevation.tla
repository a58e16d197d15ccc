----------------------------- MODULE Elevation -----------------------------
(***************************************************************************)
(* The processes of the one executable that start, stop and replace the    *)
(* daemon (main.rs, elevation.rs) and the two things that start it at the  *)
(* logon, the Run value of the user and the scheduled task (autostart.rs). *)
(*                                                                         *)
(* A process is a daemon from its launch to its exit, or one run of a      *)
(* helper flag.  The children of an elevated process are elevated, what    *)
(* the task starts is elevated, what the Run value starts is not.          *)
(***************************************************************************)
EXTENDS Naturals

CONSTANTS
    MaxProcs,  \* bound: processes alive at once, a handle on a dead one included
    MaxFlags,  \* bound: flags run from a command line
    MaxSlips,  \* bound: calls that fail, crashes, exits asked for by hand
    Logons,    \* bound: times the user logs off and on
    Overlap,   \* bound: whether a helper may start while another runs
    None

ASSUME ElevationAssumption ==
    /\ MaxProcs \in Nat \ {0} /\ MaxFlags \in Nat /\ MaxSlips \in Nat /\ Logons \in Nat
    /\ Overlap \in BOOLEAN

Procs == 1 .. MaxProcs
Flags == {"enable", "disable", "restart"}

VARIABLES
    task,      \* the scheduled task is registered
    run_key,   \* the Run value is there
    procs,     \* the processes
    flags,     \* command lines left
    slips,     \* failing calls left
    logons     \* logons left

elevation == <<task, run_key, procs, flags, slips, logons>>

\* does: "daemon", a flag, or "ended" while its code is waited for; by: what
\* launched it; target: the process a helper waits for; exit: WM_COMMAND with
\* ID_TRAY_EXIT is in its queue.
Idle == [does |-> "none", at |-> "none", elevated |-> FALSE, by |-> "none",
         target |-> None, exit |-> FALSE]

Launched(does, elevated, by) ==
    [Idle EXCEPT !.does = does, !.at = "start", !.elevated = elevated, !.by = by]

\* Only the settings window waits for the code of what it launched.
Ended(p, code) ==
    IF procs[p].by = "settings" THEN [Idle EXCEPT !.does = "ended", !.at = code] ELSE Idle

Slip == slips > 0 /\ slips' = slips - 1
Fine == slips' = slips

-----------------------------------------------------------------------------
\* What any process can find out.

find_daemon_window == {p \in Procs : procs[p].does = "daemon" /\ procs[p].at \in {"window", "up"}}
is_daemon_running  == find_daemon_window # {}

\* The answers it may give: with two daemons the window found is either.
is_daemon_elevated ==
    IF is_daemon_running
    THEN {procs[p].at = "up" /\ procs[p].elevated : p \in find_daemon_window}
    ELSE {FALSE}

is_autostart_enabled == task \/ run_key

\* A process someone holds a handle on keeps its number.
Spare(ps) == {p \in Procs : ps[p].does = "none" /\ \A q \in Procs : ps[q].target # p}

Spawn(ps, child) ==
    LET p == CHOOSE p \in Spare(ps) : \A q \in Spare(ps) : p <= q IN [ps EXCEPT ![p] = child]

\* Command::spawn, which may fail.
spawn_daemon_detached(ps, elevated, by) ==
    /\ Spare(ps) # {}
    /\ \/ Fine /\ procs' = Spawn(ps, Launched("daemon", elevated, by))
       \/ Slip /\ procs' = ps

\* schtasks /run of a registered task; the policy IgnoreNew starts nothing
\* while a daemon the task started is alive, and reports success.
RunTask(ps) ==
    /\ Spare(ps) # {} /\ Fine
    /\ procs' = IF \E p \in Procs : ps[p].does = "daemon" /\ ps[p].by = "task" THEN ps
                ELSE Spawn(ps, Launched("daemon", TRUE, "task"))

-----------------------------------------------------------------------------
\* The daemon, from the guard against a second one to its exit.

Daemon(p, at) == procs[p].does = "daemon" /\ procs[p].at = at

Guard(p) ==
    /\ Daemon(p, "start")
    /\ procs' = [procs EXCEPT ![p] = IF is_daemon_running THEN Idle ELSE [@ EXCEPT !.at = "guarded"]]
    /\ UNCHANGED <<task, run_key, flags, slips, logons>>

CreateWindow(p) ==
    /\ Daemon(p, "guarded")
    /\ procs' = [procs EXCEPT ![p].at = "window"]
    /\ UNCHANGED <<task, run_key, flags, slips, logons>>

\* The elevated property and the message filter.
MarkElevated(p) ==
    /\ Daemon(p, "window")
    /\ procs' = [procs EXCEPT ![p].at = "up"]
    /\ UNCHANGED <<task, run_key, flags, slips, logons>>

Exit(p) ==
    /\ Daemon(p, "up") /\ procs[p].exit
    /\ procs' = [procs EXCEPT ![p] = Idle]
    /\ UNCHANGED <<task, run_key, flags, slips, logons>>

-----------------------------------------------------------------------------
\* The helpers.

Helper(p, at) == procs[p].does \in Flags /\ procs[p].at = at

\* Until the filter is in place a post from below is dropped.
Heard(p, d) ==
    procs[d].exit \/ procs[d].at = "up" \/ procs[p].elevated \/ ~procs[d].elevated

\* --enable-elevation asks first whether it is elevated itself.
Refuses(p) == procs[p].does = "enable" /\ ~procs[p].elevated

Refuse(p) ==
    /\ Helper(p, "start") /\ Refuses(p)
    /\ procs' = [procs EXCEPT ![p] = Ended(p, "failed")]
    /\ UNCHANGED <<task, run_key, flags, slips, logons>>

\* Faulty variant: the exit is posted and nothing waited for.
stop_running_daemonAtOnce(p) ==
    /\ Helper(p, "start") /\ ~Refuses(p)
    /\ \/ /\ ~is_daemon_running
          /\ procs' = [procs EXCEPT ![p].at = "stopped"]
       \/ \E d \in find_daemon_window :
             procs' = [procs EXCEPT ![p].at = "stopped", ![d].exit = Heard(p, d)]
    /\ UNCHANGED <<task, run_key, flags, slips, logons>>

\* The exit is posted and the process waited for; where it cannot be opened, that
\* no window is found.
stop_running_daemon(p) ==
    /\ Helper(p, "start") /\ ~Refuses(p)
    /\ \/ /\ ~is_daemon_running /\ Fine
          /\ procs' = [procs EXCEPT ![p].at = "stopped"]
       \/ \E d \in find_daemon_window, t \in Procs \cup {None} :
             /\ (t = d /\ Fine) \/ (t = None /\ Slip)
             /\ procs' = [procs EXCEPT ![p].at = "waiting", ![p].target = t, ![d].exit = Heard(p, d)]
    /\ UNCHANGED <<task, run_key, flags, logons>>

\* What a helper waits for has come about.
Gone(target) ==
    IF target = None THEN ~is_daemon_running ELSE procs[target].does = "none"

\* The daemon is gone, or the five seconds are over: the helper goes on.
Stopped(p) ==
    /\ Helper(p, "waiting")
    /\ IF Gone(procs[p].target) THEN Fine ELSE Slip
    /\ procs' = [procs EXCEPT ![p].at = "stopped", ![p].target = None]
    /\ UNCHANGED <<task, run_key, flags, logons>>

\* Faulty variant: a task that could not be registered is passed over.
install_elevated_taskOrNot(p) ==
    /\ Helper(p, "stopped") /\ procs[p].does = "enable"
    /\ \/ Fine /\ task' = TRUE
       \/ Slip /\ task' = task
    /\ procs' = [procs EXCEPT ![p].at = "run_key"]
    /\ UNCHANGED <<run_key, flags, logons>>

install_elevated_task(p) ==
    /\ Helper(p, "stopped") /\ procs[p].does = "enable"
    /\ \/ Fine /\ task' = TRUE /\ procs' = [procs EXCEPT ![p].at = "run_key"]
       \/ Slip /\ task' = task /\ procs' = [procs EXCEPT ![p] = Ended(p, "failed")]
    /\ UNCHANGED <<run_key, flags, logons>>

\* schtasks /delete needs elevation; a failure is logged and passed over.
remove_elevated_task(p) ==
    /\ Helper(p, "stopped") /\ procs[p].does = "disable"
    /\ IF task /\ procs[p].elevated
       THEN \/ Fine /\ task' = FALSE
            \/ Slip /\ task' = task
       ELSE Fine /\ task' = task
    /\ procs' = [procs EXCEPT ![p].at = "run_key"]
    /\ UNCHANGED <<run_key, flags, logons>>

\* The result is not looked at.
set_run_key_enabled(p) ==
    /\ Helper(p, "run_key")
    /\ \/ Fine /\ run_key' = (procs[p].does = "disable")
       \/ Slip /\ run_key' = run_key
    /\ procs' = [procs EXCEPT ![p].at = "launch"]
    /\ UNCHANGED <<task, flags, logons>>

\* The last act of --enable-elevation and --disable-elevation: the daemon is
\* a child of the helper.
Launch(p) ==
    /\ Helper(p, "launch")
    /\ spawn_daemon_detached([procs EXCEPT ![p] = Ended(p, "success")],
                             procs[p].elevated, procs[p].does)
    /\ UNCHANGED <<task, run_key, flags, logons>>

\* --restart, by way of the task when there is one.
handle_restart_daemon(p) ==
    LET left == [procs EXCEPT ![p] = Idle] IN
    /\ Helper(p, "stopped") /\ procs[p].does = "restart"
    /\ \/ task /\ RunTask(left)
       \/ /\ task /\ Slip
          /\ procs' = Spawn(left, Launched("daemon", procs[p].elevated, "restart"))
       \/ ~task /\ spawn_daemon_detached(left, procs[p].elevated, "restart")
    /\ UNCHANGED <<task, run_key, flags, logons>>

-----------------------------------------------------------------------------
\* The user, a crash, and the logon.

SetUps   == {p \in Procs : procs[p].does \in {"enable", "disable"}}
MayStart == Overlap \/ \A p \in Procs : procs[p].does \notin Flags

\* A flag, or none for the daemon, from a terminal that is elevated or not.
RunFlag ==
    /\ flags > 0 /\ flags' = flags - 1 /\ Spare(procs) # {}
    /\ \E does \in Flags \cup {"daemon"}, elevated \in BOOLEAN :
          /\ does \in Flags => MayStart
          /\ procs' = Spawn(procs, Launched(does, elevated, "user"))
    /\ UNCHANGED <<task, run_key, slips, logons>>

\* Exit in the tray menu, --exit, or the daemon crashes.
QuitByHand ==
    /\ Slip
    /\ \E p \in find_daemon_window :
          \/ procs' = [procs EXCEPT ![p].exit = TRUE]
          \/ procs' = [procs EXCEPT ![p] = Idle]
    /\ UNCHANGED <<task, run_key, flags, logons>>

\* Every process ends; at the next logon Explorer runs what the Run value
\* names and the scheduler the task.
Relogon ==
    LET none   == [p \in Procs |-> Idle]
        byRun  == IF run_key THEN Spawn(none, Launched("daemon", FALSE, "run_key")) ELSE none
        byTask == IF task THEN Spawn(byRun, Launched("daemon", TRUE, "task")) ELSE byRun
    IN  /\ logons > 0 /\ logons' = logons - 1
        /\ procs' = byTask
        /\ UNCHANGED <<task, run_key, flags, slips>>

\* What a process does on its own.
ProcStep(p) ==
    \/ Guard(p) \/ CreateWindow(p) \/ MarkElevated(p) \/ Exit(p)
    \/ Refuse(p) \/ stop_running_daemon(p) \/ Stopped(p)
    \/ install_elevated_task(p) \/ remove_elevated_task(p) \/ set_run_key_enabled(p)
    \/ Launch(p) \/ handle_restart_daemon(p)
=============================================================================
