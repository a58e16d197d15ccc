------------------------------ MODULE Control ------------------------------
(***************************************************************************)
(* The settings file, the daemon that runs by it, the settings window that *)
(* edits it from another process, and the hotkeys.  The two processes      *)
(* share only the file and the messages posted to the daemon's thread,     *)
(* which also carries the hotkeys.  RegisterHotKey is called once per key, *)
(* with other applications taking and giving back keys in between.         *)
(***************************************************************************)
EXTENDS Hotkeys, FiniteSets

CONSTANTS
    DefaultBind,   \* the bindings of Config::default
    Typed,         \* keys the user records in the settings window
    Missing,       \* the file is not there
    Corrupt,       \* the file does not parse
    QueueLimit,    \* bound: messages waiting for the daemon
    Budget         \* bound: acts of the user and of other applications

ASSUME ControlAssumption == /\ DefaultBind \in Bindings
                            /\ Typed \subseteq Keys
                            /\ QueueLimit \in Nat /\ Budget \in Nat

VARIABLES
    file,       \* settings.json
    daemon,     \* the daemon process, or None
    held,       \* the system's hotkey table for the daemon: id -> key
    foreign,    \* keys other applications hold
    queue,      \* messages posted to the daemon's thread
    settings,   \* the settings process, or None
    acts,       \* what is left of Budget
    dark,       \* the file was changed where the daemon could not be told
    moved       \* the displays changed since the hotkeys were registered

vars == <<file, daemon, held, foreign, queue, settings, acts, dark, moved>>

\* The fields of settings.json that the two processes both write or act on.
Config == [bind : Bindings, tiling : BOOLEAN, taskbar : BOOLEAN, rules : BOOLEAN]

Default == [bind |-> DefaultBind, tiling |-> FALSE, taskbar |-> FALSE, rules |-> FALSE]

Whys == {"startup", "toggle", "reload", "count"}

Registrations == [todo : Seq([id : Ids, key : {None} \cup Keys]), why : Whys]

\* cfg: the configuration in memory; handle: hotkeys are wanted; max: the most
\* spaces any display has; tiling and taskbar: the modes the space manager is
\* in; work: a registration under way, [todo, why], or None; quit: WM_QUIT is posted.
Daemon == [phase : {"booting", "running"}, cfg : Config, handle : BOOLEAN,
           max : 1 .. MaxSpaces, tiling : BOOLEAN, taskbar : BOOLEAN,
           work : {None} \cup Registrations,
           quit : BOOLEAN]

\* draft: the configuration the window edits; armed: the timer that re-reads
\* the file after a capture; recording: the binding whose key is recorded.
Settings == [draft : Config, armed : BOOLEAN, recording : {None} \cup Configurable]

Messages == [kind : {"hotkey"}, id : Ids, meant : SUBSET {Decode(id) : id \in Ids}]
            \cup [kind : {"reload", "capture", "taskbar", "exit"}]

\* Nothing else is taken for what is not there.
ASSUME NothingAssumption == /\ None \notin Daemon \cup Registrations
                            /\ {Missing, Corrupt} \cap Config = {}

Running == daemon # None /\ daemon.phase = "running"
Idle    == Running /\ daemon.work = None

-----------------------------------------------------------------------------
\* Files.

\* load_from_file answers a missing or corrupt file with the defaults, and
\* leaves them in its place.
Loaded == IF file \in {Missing, Corrupt} THEN Default ELSE file

Posted(msg) == IF Running THEN Append(queue, msg) ELSE queue

CanPost == Running => Len(queue) < QueueLimit

Reload == [kind |-> "reload"]

\* PostMessage finds the daemon by its window, which a booting daemon has not.
Unheard == dark \/ (daemon # None /\ ~Running)

Spend == acts > 0 /\ acts' = acts - 1

-----------------------------------------------------------------------------
\* Hotkeys.

\* register_all first withdraws everything the daemon holds.
Registering(why, cfg, n) == [todo |-> Plan(cfg.bind, n), why |-> why]

Opened == [draft |-> Loaded, armed |-> FALSE, recording |-> None]

\* Another settings process finds the window that is there and leaves.
Launched == IF settings = None THEN Opened ELSE settings

PassOver ==
    /\ Running /\ daemon.work # None
    /\ daemon.work.todo # <<>> /\ Head(daemon.work.todo).key = None
    /\ daemon' = [daemon EXCEPT !.work.todo = Tail(@)]
    /\ UNCHANGED <<file, held, foreign, queue, settings, acts, dark, moved>>

RegisterOne ==
    /\ Running /\ daemon.work # None
    /\ LET todo == daemon.work.todo IN
       /\ todo # <<>> /\ Head(todo).key # None
       /\ Head(todo).key \notin foreign \cup Range(held)
       /\ held' = [id \in DOMAIN held \cup {Head(todo).id} |->
                      IF id = Head(todo).id THEN Head(todo).key ELSE held[id]]
       /\ daemon' = [daemon EXCEPT !.work.todo = Tail(todo)]
    /\ UNCHANGED <<file, foreign, queue, settings, acts, dark, moved>>

\* Faulty variant: what was registered so far stays.
GivenUpHalfway == /\ daemon' = [daemon EXCEPT !.work = None]
                  /\ UNCHANGED <<held, settings, file>>

\* One key is taken: all of them are given back.  At startup and after the
\* toggle the settings window is opened, and hotkeys count as off.
GivenUp == /\ held' = NoKeys
           /\ IF daemon.work.why \in {"startup", "toggle"}
              THEN /\ daemon' = [daemon EXCEPT !.work = None, !.handle = FALSE]
                   /\ settings' = Launched
                   /\ file' = IF settings = None THEN Loaded ELSE file
              ELSE /\ daemon' = [daemon EXCEPT !.work = None]
                   /\ UNCHANGED <<settings, file>>

RegistrationFails ==
    /\ Running /\ daemon.work # None
    /\ daemon.work.todo # <<>>
    /\ Head(daemon.work.todo).key \in foreign \cup Range(held)
    /\ GivenUp
    /\ UNCHANGED <<foreign, queue, acts, dark, moved>>

RegistrationEnds ==
    /\ Running /\ daemon.work # None
    /\ daemon.work.todo = <<>>
    /\ daemon' = [daemon EXCEPT !.work = None]
    /\ UNCHANGED <<file, held, foreign, queue, settings, acts, dark, moved>>

\* Other applications.
Grab(key) == /\ Spend
             /\ key \notin foreign \cup Range(held)
             /\ foreign' = foreign \cup {key}
             /\ UNCHANGED <<file, daemon, held, queue, settings, dark, moved>>

Release(key) == /\ Spend
                /\ key \in foreign
                /\ foreign' = foreign \ {key}
                /\ UNCHANGED <<file, daemon, held, queue, settings, dark, moved>>

\* A key reaches the daemon when no recorder swallows it first.
Press(id) ==
    /\ Spend
    /\ settings # None => settings.recording = None
    /\ id \in DOMAIN held
    /\ Len(queue) < QueueLimit
    /\ queue' = Append(queue, [kind |-> "hotkey", id |-> id,
                               meant |-> MeantBy(daemon.cfg.bind, held[id])])
    /\ UNCHANGED <<file, daemon, held, foreign, settings, dark, moved>>

-----------------------------------------------------------------------------
\* What the daemon does with a message.

\* The one place a loaded configuration is pushed into the daemon.
Apply(cfg) ==
    [daemon EXCEPT !.cfg = cfg, !.taskbar = cfg.taskbar, !.tiling = cfg.tiling,
                   !.work = Registering("reload", cfg, daemon.max)]

OnReload == /\ daemon' = Apply(Loaded)
            /\ file' = Loaded
            /\ held' = NoKeys
            /\ dark' = FALSE
            /\ moved' = FALSE

\* A change of the daemon's own goes to its memory and, from there, over the file.
Persist(changed) == /\ daemon' = changed
                    /\ file' = changed.cfg
                    /\ dark' = FALSE
                    /\ UNCHANGED <<held, moved>>

OnCapture == Persist([daemon EXCEPT !.cfg.rules = TRUE])

ToggleTaskbar == Persist([daemon EXCEPT !.taskbar = ~daemon.cfg.taskbar,
                                        !.cfg.taskbar = ~daemon.cfg.taskbar])

ToggleTiling == Persist([daemon EXCEPT !.tiling = ~daemon.tiling,
                                       !.cfg.tiling = ~daemon.tiling])

ToggleHotkeys ==
    /\ held' = NoKeys
    /\ daemon' = IF daemon.handle THEN [daemon EXCEPT !.handle = FALSE]
                 ELSE [daemon EXCEPT !.handle = TRUE,
                          !.work = Registering("toggle", daemon.cfg, daemon.max)]
    /\ moved' = FALSE
    /\ UNCHANGED <<file, dark>>

Quit == /\ daemon' = [daemon EXCEPT !.quit = TRUE]
        /\ UNCHANGED <<file, held, dark, moved>>

\* Moving windows and switching are the space manager's.
NothingHere == UNCHANGED <<daemon, file, held, dark, moved>>

OnHotkey(command) ==
    CASE command.do = "exit"   -> Quit
      [] command.do = "toggle" -> ToggleHotkeys
      [] command.do = "tiling" -> ToggleTiling
      [] OTHER                 -> NothingHere

Handle ==
    /\ Idle
    /\ queue # <<>>
    /\ LET msg == Head(queue) IN
       CASE msg.kind = "hotkey"  -> OnHotkey(Decode(msg.id))
         [] msg.kind = "reload"  -> OnReload
         [] msg.kind = "capture" -> OnCapture
         [] msg.kind = "taskbar" -> ToggleTaskbar
         [] msg.kind = "exit"    -> Quit
    /\ queue' = Tail(queue)
    /\ UNCHANGED <<foreign, settings, acts>>

\* The tray menu and the command line post their commands.
Command(kind) ==
    /\ Spend
    /\ Running /\ Len(queue) < QueueLimit
    /\ queue' = Append(queue, [kind |-> kind])
    /\ UNCHANGED <<file, daemon, held, foreign, settings, dark, moved>>

\* Faulty variant: the keys are left as they were.
CountChangedSilently(n) == /\ daemon' = [daemon EXCEPT !.max = n]
                           /\ UNCHANGED <<held, moved>>

\* A space was added or removed, from the tray or from Overview.
CountChanged(n) ==
    IF n # daemon.max /\ daemon.handle
    THEN /\ daemon' = [daemon EXCEPT !.max = n,
                          !.work = Registering("count", daemon.cfg, n)]
         /\ held' = NoKeys
         /\ moved' = FALSE
    ELSE /\ daemon' = [daemon EXCEPT !.max = n]
         /\ UNCHANGED <<held, moved>>


AddOrRemoveSpace ==
    /\ Idle /\ Spend
    /\ \E n \in {daemon.max - 1, daemon.max + 1} \cap (1 .. MaxSpaces) : CountChanged(n)
    /\ UNCHANGED <<file, foreign, queue, settings, dark>>

\* A change of displays rebuilds the table of spaces, and no hotkey.
Reconcile ==
    /\ Idle /\ Spend
    /\ \E n \in (1 .. MaxSpaces) \ {daemon.max} : daemon' = [daemon EXCEPT !.max = n]
    /\ moved' = TRUE
    /\ UNCHANGED <<file, held, foreign, queue, settings, dark>>

-----------------------------------------------------------------------------
\* The daemon's life.

\* The configuration is read, and then the process looks for another daemon.
StartDaemon ==
    /\ Spend
    /\ file' = Loaded
    /\ IF Running
       THEN UNCHANGED <<daemon, dark>>
       ELSE /\ daemon = None
            /\ \E n \in 1 .. MaxSpaces :
                  daemon' = [phase |-> "booting", cfg |-> Loaded, handle |-> TRUE,
                             max |-> n, tiling |-> Loaded.tiling,
                             taskbar |-> Loaded.taskbar, work |-> None, quit |-> FALSE]
            /\ dark' = FALSE
    /\ UNCHANGED <<held, foreign, queue, settings, moved>>

OpenWindow ==
    /\ daemon # None /\ daemon.phase = "booting"
    /\ daemon' = [daemon EXCEPT !.phase = "running",
                     !.work = Registering("startup", daemon.cfg, daemon.max)]
    /\ moved' = FALSE
    /\ UNCHANGED <<file, held, foreign, queue, settings, acts, dark>>

Gone == /\ daemon' = None
        /\ held' = NoKeys
        /\ queue' = <<>>
        /\ dark' = FALSE
        /\ UNCHANGED <<file, foreign, settings, moved>>

\* WM_QUIT comes after every message that was posted.
Leave == /\ Idle /\ daemon.quit /\ queue = <<>>
         /\ Gone
         /\ UNCHANGED acts

Crash == /\ daemon # None /\ Spend
         /\ Gone

-----------------------------------------------------------------------------
\* The settings window.

OpenSettings ==
    /\ Spend
    /\ settings = None
    /\ settings' = Opened
    /\ file' = Loaded
    /\ dark' = (dark \/ (daemon # None /\ file # Loaded))
    /\ UNCHANGED <<daemon, held, foreign, queue, moved>>

CloseSettings ==
    /\ settings # None
    /\ settings' = None
    /\ UNCHANGED <<file, daemon, held, foreign, queue, acts, dark, moved>>

\* Faulty variant: the file is written and the daemon not told.
AutosaveWithoutNotice(draft) ==
    /\ settings' = [settings EXCEPT !.draft = draft, !.recording = None]
    /\ file' = draft
    /\ dark' = Unheard
    /\ UNCHANGED queue

\* Every edit is saved at once, whole, and the daemon told to read it again.
Autosave(draft) ==
    /\ CanPost
    /\ settings' = [settings EXCEPT !.draft = draft, !.recording = None]
    /\ file' = draft
    /\ queue' = Posted(Reload)
    /\ dark' = Unheard

Edit ==
    /\ settings # None /\ Spend
    /\ LET draft == settings.draft IN
       \/ Autosave([draft EXCEPT !.tiling = ~@])
       \/ Autosave([draft EXCEPT !.taskbar = ~@])
       \/ draft.rules /\ Autosave([draft EXCEPT !.rules = FALSE])
       \/ draft # Default /\ Autosave(Default)
    /\ UNCHANGED <<daemon, held, foreign, moved>>

\* The recorder's hook sees every key before the hotkeys do.
StartRecording(id) ==
    /\ settings # None /\ settings.recording = None
    /\ Spend
    /\ settings' = [settings EXCEPT !.recording = id]
    /\ UNCHANGED <<file, daemon, held, foreign, queue, dark, moved>>

Record(key) ==
    /\ settings # None /\ settings.recording # None
    /\ Autosave([settings.draft EXCEPT !.bind[settings.recording] = key])
    /\ UNCHANGED <<daemon, held, foreign, acts, moved>>

StopRecording ==
    /\ settings # None /\ settings.recording # None
    /\ settings' = [settings EXCEPT !.recording = None]
    /\ UNCHANGED <<file, daemon, held, foreign, queue, acts, dark, moved>>

\* The button of the Workspaces page asks the daemon, and reads the file later.
RequestCapture ==
    /\ settings # None /\ Running /\ Len(queue) < QueueLimit
    /\ Spend
    /\ queue' = Posted([kind |-> "capture"])
    /\ settings' = [settings EXCEPT !.armed = TRUE, !.recording = None]
    /\ UNCHANGED <<file, daemon, held, foreign, dark, moved>>

CaptureTimer ==
    /\ settings # None /\ settings.armed
    /\ settings' = [settings EXCEPT !.draft = Loaded, !.armed = FALSE]
    /\ file' = Loaded
    /\ dark' = (dark \/ (daemon # None /\ file # Loaded))
    /\ UNCHANGED <<daemon, held, foreign, queue, acts, moved>>

\* The user edits the file by hand, and may leave it unreadable.
HandEdit ==
    /\ Spend
    /\ file' \in {Corrupt} \cup (IF file \in {Missing, Corrupt} THEN {Default}
                                ELSE {[file EXCEPT !.rules = TRUE]})
    /\ file' # file
    /\ dark' = (daemon # None)
    /\ UNCHANGED <<daemon, held, foreign, queue, settings, moved>>

-----------------------------------------------------------------------------
Init ==
    /\ file \in {Missing, Default}
    /\ daemon = None
    /\ held = NoKeys
    /\ foreign = {}
    /\ queue = <<>>
    /\ settings = None
    /\ acts = Budget
    /\ dark = FALSE
    /\ moved = FALSE

Next ==
    \/ PassOver \/ RegisterOne \/ RegistrationFails \/ RegistrationEnds \/ Handle
    \/ \E key \in Keys : Grab(key) \/ Release(key)
    \/ \E id \in Ids : Press(id)
    \/ \E kind \in {"reload", "capture", "taskbar", "exit"} : Command(kind)
    \/ AddOrRemoveSpace \/ Reconcile
    \/ StartDaemon \/ OpenWindow \/ Leave \/ Crash
    \/ OpenSettings \/ CloseSettings \/ Edit
    \/ \E id \in Configurable : StartRecording(id)
    \/ \E key \in Typed : Record(key)
    \/ StopRecording \/ RequestCapture \/ CaptureTimer
    \/ HandEdit

Spec == Init /\ [][Next]_vars
=============================================================================
