------------------------- MODULE ControlProperties -------------------------
(***************************************************************************)
(* What the settings file, the two processes and the hotkeys owe the user. *)
(***************************************************************************)
EXTENDS Control

\* Every variable keeps its type.
TypeOK ==
    /\ file \in {Missing, Corrupt} \cup Config
    /\ daemon \in {None} \cup Daemon
    /\ DOMAIN held \subseteq Ids /\ held \in [DOMAIN held -> Keys]
    /\ foreign \subseteq Keys
    /\ queue \in Seq(Messages) /\ Len(queue) <= QueueLimit
    /\ settings \in {None} \cup Settings
    /\ acts \in Nat /\ dark \in BOOLEAN /\ moved \in BOOLEAN

\* register_all registers one key at a time and rolls back at the first that is
\* taken: seen from outside the daemon's handlers the table is all of the
\* bindings in force or nothing, whoever takes keys in the meantime, and
\* nothing is left over from an earlier configuration or count of spaces.
Table == INSTANCE HotkeyTable WITH
    bind  <- IF daemon = None THEN DefaultBind ELSE daemon.cfg.bind,
    table <- IF Idle THEN held ELSE NoKeys

HotkeysAreAtomic == Table!Spec

\* A key that is on its way to the daemon does what its binding said when it
\* was pressed, whatever is added, removed or re-registered before it arrives:
\* identifiers do not move (hotkeys.rs, the layout of the identifiers).
KeysMeanTheirBinding ==
    \A i \in DOMAIN queue :
        queue[i].kind = "hotkey" => Decode(queue[i].id) \in queue[i].meant

\* While hotkeys are on, the digits that are taken from other applications are
\* those of the spaces there are: after_space_count_change (spaces.rs).  A
\* change of displays is the exception the code makes, until the next change.
DigitsFollowCounts ==
    Idle /\ daemon.handle /\ ~moved =>
        held \in {NoKeys, Wanted(daemon.cfg.bind, daemon.max)}

\* Once the daemon has read its messages, the configuration it runs by is the
\* one in the file, whichever process changed it last.  A file changed by
\* hand, or while the daemon was starting, is not announced to it.
ConfigConverges ==
    Running /\ ~dark /\ (\A i \in DOMAIN queue : queue[i].kind # "reload") =>
        daemon.cfg = file

=============================================================================
