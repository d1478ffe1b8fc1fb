----------------------------- MODULE HookInstall -----------------------------
(***************************************************************************)
(* pew init and pew uninstall: the handler notify.cjs, which every hook    *)
(* calls, and the configuration of each tool that calls it.  Codex has one *)
(* notify slot: pew takes it over, keeps the command it found there in     *)
(* codex_notify_original.json and gives it back.  A wrapper (another       *)
(* notifier) does the same on its side.  Commands can be killed between    *)
(* two writes, and a file that is written in place can be torn.            *)
(***************************************************************************)
EXTENDS Integers, Sequences

CONSTANTS
    Selections,    \* the sets of sources a command is called with
    MaxCommands, MaxEdits, MaxFaults   \* bounds: commands, edits by users and tools, kills and failed deletions

Source == {"claude", "codex", "opencode", "openclaw", "pi"}
\* What a full uninstall also cleans: hooks of tools pew no longer supports.
Retired == "gemini"
Plugin == {"opencode", "pi", Retired}

VARIABLES
    notifyCjs,     \* absent, pew, old (an earlier version), unmarked (torn, or not pew's)
    settings,      \* Claude's settings.json: state of the file, how many entries hold which commands
    slot,          \* notify in Codex's config.toml, missing without that file
    original,      \* codex_notify_original.json
    wrapper,       \* the command the wrapper saved when it took the slot, NoFile if it never did
    plugin,        \* one file per tool: absent, pew, user
    openclaw,      \* its configuration file, whether pew is registered there, pew's plugin files
    op, sel,       \* the running command and its sources
    at, warned, changed, \* progress and result of each driver
    snapshot,      \* what the Claude driver read
    edits, commands, faults,
    wanted,        \* history: the user's own Claude hooks
    raced,         \* history: the user edited settings.json between a driver's read and write
    bare,          \* history: the wrapper took the slot from a pew that had saved nothing
    missed         \* history: files the last uninstall could not read or delete

files == <<notifyCjs, settings, slot, original, plugin, openclaw>>
driver == <<at, warned, changed, snapshot>>
bounds == <<edits, commands, faults>>
history == <<wanted, raced, bare, missed>>
hooksVars == <<files, wrapper, op, sel, driver, bounds, history>>

NoFile == "absent"
PewOwned == {"pew", "legacy"}     \* isPewOwnedCommand
Hooks == Source \cup {Retired}

\* Entries of settings.json by the commands they hold, and how many there are.
Entry == {"user", "pew", "both"}
NoEntries == [e \in Entry |-> 0]
Alone(e) == [NoEntries EXCEPT ![e] = 1]
PewEntries(entries) == entries["pew"] + entries["both"]
UserEntries(entries) == entries["user"] + entries["both"]

HooksInit ==
    /\ notifyCjs \in {"absent", "old"}
    /\ settings \in [file : {"missing", "ok"}, entries : {NoEntries}] \cup [file : {"ok"}, entries : {Alone("user")}]
    /\ slot \in {"missing", "none", "legacy", "wrapper"}
    /\ (slot = "legacy") = (notifyCjs = "old")
    /\ original = NoFile
    /\ wrapper = IF slot = "wrapper" THEN "none" ELSE NoFile
    /\ plugin = [p \in Plugin |-> IF p = Retired /\ notifyCjs = "old" THEN "pew" ELSE "absent"]
    /\ openclaw \in [file : {"missing", "ok"}, registered : {FALSE}, files : {FALSE}]
    /\ op = "none" /\ sel = {} /\ snapshot = settings
    /\ at = [s \in Hooks |-> "done"] /\ warned = {} /\ changed = {}
    /\ edits = 0 /\ commands = 0 /\ faults = 0
    /\ wanted = (settings.entries = Alone("user"))
    /\ raced = FALSE /\ bare = FALSE /\ missed = {}

Fault == faults < MaxFaults /\ faults' = faults + 1

-----------------------------------------------------------------------------
(* Users and tools.                                                        *)

Edit == edits < MaxEdits /\ edits' = edits + 1
EditOnly(x) == UNCHANGED <<op, sel, driver, commands, faults, missed, x>>

\* The user adds a hook of their own, or puts all hooks into one entry.
EditSettings ==
    /\ Edit /\ settings.file = "ok"
    /\ settings' \in {[settings EXCEPT !.entries["user"] = @ + 1],
                      [settings EXCEPT !.entries = Alone(IF PewEntries(@) > 0 THEN "both" ELSE "user")]}
    /\ wanted' = TRUE
    /\ raced' = (raced \/ at["claude"] = "read")
    /\ EditOnly(<<notifyCjs, slot, original, wrapper, plugin, openclaw, bare>>)

\* settings.json stops or starts to be readable.
BreakSettings ==
    /\ Edit /\ settings.file # "missing" /\ at["claude"] # "read"
    /\ settings' = [settings EXCEPT !.file = IF @ = "ok" THEN "invalid" ELSE "ok"]
    /\ EditOnly(<<notifyCjs, slot, original, wrapper, plugin, openclaw, wanted, raced, bare>>)

\* The wrapper takes the slot, between two commands of pew, and saves what it found.
TakeSlot ==
    /\ Edit /\ op = "none" /\ slot # "wrapper"
    /\ slot' = "wrapper" /\ wrapper' = IF slot = "missing" THEN "none" ELSE slot
    /\ bare' = (bare \/ (slot \in PewOwned /\ original = NoFile))
    /\ EditOnly(<<notifyCjs, settings, original, plugin, openclaw, wanted, raced>>)

-----------------------------------------------------------------------------
(* A command.                                                              *)

Full == sel = Source
BeginCommand(o) ==
    /\ op = "none" /\ commands < MaxCommands /\ commands' = commands + 1
    /\ op' = o /\ sel' \in Selections
    /\ warned' = {} /\ changed' = {}
    /\ UNCHANGED <<wrapper, settings, slot, original, plugin, openclaw, snapshot, edits, faults,
                   wanted, raced, bare>>

\* executeInit writes the handler before any hook; a user's file is replaced.
BeginInit ==
    /\ BeginCommand("init")
    /\ notifyCjs' = "pew"
    /\ at' = [s \in Hooks |-> IF s \in sel' THEN "todo" ELSE "done"]
    /\ missed' = {}

BeginUninstall ==
    /\ BeginCommand("uninstall")
    /\ at' = [s \in Hooks |-> IF s \in sel' \/ (s = Retired /\ sel' = Source) THEN "todo" ELSE "done"]
    /\ UNCHANGED <<notifyCjs, missed>>

\* A full command runs its drivers concurrently, one with selected sources
\* one after another.  No two touch the same file, so that one order stands
\* for all.
Order == <<"claude", "codex", "opencode", "openclaw", "pi", Retired>>
Turn(s) == \A i \in DOMAIN Order : Order[i] = s => \A j \in 1..(i - 1) : at[Order[j]] = "done"
Driver(s, o, from, to) == op = o /\ Turn(s) /\ at[s] = from /\ at' = [at EXCEPT ![s] = to]
DriverOnly(x) == UNCHANGED <<wrapper, op, sel, edits, commands, wanted, raced, bare, x>>
Warn(s) == warned' = warned \cup {s}
Changed(s) == changed' = changed \cup {s}
Quiet == UNCHANGED <<warned, changed>>
Miss(s) == missed' = missed \cup {s}

\* normalizeEntry and hasCommand: pew's command is added once.
WithPew(entries) ==
    IF PewEntries(entries) > 0 THEN entries ELSE [entries EXCEPT !["pew"] = @ + 1]

\* stripCommand: an entry left without hooks goes, the others stay.
WithoutPew(entries) ==
    [NoEntries EXCEPT !["user"] = UserEntries(entries)]

ReadSettings(o) ==
    /\ at["claude"] = "todo" /\ op = o
    /\ LET skip == settings.file = "invalid" \/ (o = "uninstall" /\ settings.file = "missing")
       IN  /\ at' = [at EXCEPT !["claude"] = IF skip THEN "done" ELSE "read"]
           /\ missed' = IF skip /\ settings.file = "invalid" THEN missed \cup {"claude"} ELSE missed
    /\ snapshot' = settings /\ Quiet
    /\ DriverOnly(<<files, faults>>)

\* A kill during the write leaves a file that does not parse; a copy of what
\* was read is beside it.
WriteSettings ==
    /\ at["claude"] = "read"
    /\ LET entries == IF op = "init" THEN WithPew(snapshot.entries) ELSE WithoutPew(snapshot.entries)
       IN  settings' = IF entries = snapshot.entries THEN settings
                       ELSE [file |-> "ok", entries |-> entries]
    /\ at' = [at EXCEPT !["claude"] = "done"]
    /\ IF settings' = settings THEN UNCHANGED changed ELSE Changed("claude")
    /\ UNCHANGED <<snapshot, warned>>
    /\ DriverOnly(<<notifyCjs, slot, original, plugin, openclaw, faults, missed>>)

\* ownership_conflict: a backup exists and the slot is not pew's.
Refuses == original # NoFile /\ slot \notin PewOwned \cup {"missing"}

\* installCodexNotifier: without a config.toml nothing; otherwise save a
\* foreign command first, then take the slot.
SaveOriginal ==
    /\ Driver("codex", "init", "todo", IF Refuses \/ slot \in {"missing", "pew"} THEN "done" ELSE "saved")
    /\ original' = IF original = NoFile /\ slot = "wrapper" THEN "wrapper" ELSE original
    /\ warned' = IF Refuses THEN warned \cup {"codex"} ELSE warned
    /\ DriverOnly(<<notifyCjs, settings, slot, plugin, openclaw, snapshot, changed, faults, missed>>)

InstallCodex ==
    /\ Driver("codex", "init", "saved", "done")
    /\ slot' = "pew" /\ Changed("codex")
    /\ DriverOnly(<<notifyCjs, settings, original, plugin, openclaw, snapshot, warned, faults, missed>>)

\* uninstallCodexNotifier: nothing to do or no config.toml, a backup that cannot be parsed or
\* that is pew itself, or give the slot back.
RestoreCodex ==
    /\ Driver("codex", "uninstall", "todo",
              IF slot \in PewOwned /\ original # "torn" THEN "restored" ELSE "done")
    /\ IF slot \notin PewOwned THEN UNCHANGED <<slot, warned, changed>>
       ELSE IF original = "torn" THEN Warn("codex") /\ UNCHANGED <<slot, changed>>
       ELSE /\ slot' = IF original = NoFile THEN "none" ELSE original
            /\ Changed("codex") /\ UNCHANGED warned
    /\ DriverOnly(<<notifyCjs, settings, original, plugin, openclaw, snapshot, faults, missed>>)

\* The backup goes after the configuration was written; failing is tolerated.
UnlinkOriginal ==
    /\ Driver("codex", "uninstall", "restored", "done")
    /\ \/ original' = NoFile /\ UNCHANGED faults
       \/ original # NoFile /\ Fault /\ UNCHANGED original
    /\ Quiet
    /\ DriverOnly(<<notifyCjs, settings, slot, plugin, openclaw, snapshot, missed>>)

InstallPlugin(p) ==
    /\ p \in Source /\ Driver(p, "init", "todo", "done")
    /\ plugin' = [plugin EXCEPT ![p] = "pew"]
    /\ IF plugin' = plugin THEN UNCHANGED changed ELSE Changed(p)
    /\ DriverOnly(<<notifyCjs, settings, slot, original, openclaw, snapshot, warned, faults, missed>>)

\* The OpenCode driver and the retired clean-up report a failed deletion,
\* the Pi driver ignores it.
UninstallPlugin(p) ==
    /\ Driver(p, "uninstall", "todo", "done")
    /\ \/ /\ plugin' = [plugin EXCEPT ![p] = IF @ = "pew" THEN "absent" ELSE @]
          /\ IF plugin[p] = "pew" THEN Changed(p) ELSE UNCHANGED changed
          /\ UNCHANGED <<warned, missed, faults>>
       \/ /\ plugin[p] = "pew" /\ Fault
          /\ IF p = "pi" THEN Changed(p) /\ Miss(p) /\ UNCHANGED warned
             ELSE Warn(p) /\ UNCHANGED <<changed, missed>>
          /\ UNCHANGED plugin
    /\ DriverOnly(<<notifyCjs, settings, slot, original, openclaw, snapshot>>)

\* The plugin files are written first; openclaw's own CLI registers them and
\* may fail or be absent.
InstallOpenClaw ==
    /\ Driver("openclaw", "init", "todo", "done")
    /\ \/ /\ openclaw.file = "ok"
          /\ openclaw' = [openclaw EXCEPT !.registered = TRUE, !.files = TRUE]
          /\ Changed("openclaw") /\ UNCHANGED warned
       \/ /\ openclaw' = [openclaw EXCEPT !.files = TRUE]
          /\ Warn("openclaw") /\ UNCHANGED changed
    /\ DriverOnly(<<notifyCjs, settings, slot, original, plugin, snapshot, faults, missed>>)

\* A configuration that does not parse at that moment is left as it is, and
\* the driver does not report it.
UninstallOpenClaw ==
    /\ Driver("openclaw", "uninstall", "todo", "done")
    /\ \/ /\ openclaw' = [openclaw EXCEPT !.registered = FALSE, !.files = FALSE]
          /\ IF openclaw.registered THEN Changed("openclaw") ELSE UNCHANGED changed
          /\ UNCHANGED <<faults, missed>>
       \/ /\ openclaw.file = "ok" /\ Fault
          /\ Miss("openclaw") /\ UNCHANGED <<openclaw, changed>>
    /\ DriverOnly(<<notifyCjs, settings, slot, original, plugin, snapshot, warned>>)

AllDone == \A s \in Hooks : at[s] = "done"

FinishInit ==
    /\ op = "init" /\ AllDone /\ op' = "none"
    /\ UNCHANGED <<files, wrapper, sel, driver, bounds, history>>

\* Mutant: the handler goes whatever the drivers reported.
HandlerMayGoAlways == TRUE

\* The handler is shared: it goes only with a full uninstall without warnings.
HandlerMayGo == Full /\ warned = {}

RemoveHandler ==
    /\ op = "uninstall" /\ AllDone /\ op' = "unlinked"
    /\ notifyCjs' = IF HandlerMayGo /\ notifyCjs \in {"pew", "old"} THEN "absent" ELSE notifyCjs
    /\ UNCHANGED <<settings, slot, original, plugin, openclaw, wrapper, sel, driver, bounds, history>>

\* codexDriverClean
CodexClean == "codex" \in changed /\ "codex" \notin warned

RemoveBackup ==
    /\ op = "unlinked" /\ op' = "none"
    /\ original' = IF "codex" \in sel /\ CodexClean THEN NoFile ELSE original
    /\ UNCHANGED <<notifyCjs, settings, slot, plugin, openclaw, wrapper, sel, driver, bounds, history>>

\* The command is killed; a write under way may leave a torn file.
KillCommand ==
    /\ op # "none" /\ Fault
    /\ op' = "none" /\ at' = [s \in Hooks |-> "done"]
    /\ \/ UNCHANGED <<settings, slot, original, notifyCjs>>
       \/ /\ at["claude"] = "read" /\ settings.file = "ok"
          /\ settings' = [settings EXCEPT !.file = "invalid"]
          /\ UNCHANGED <<slot, original, notifyCjs>>
       \/ /\ op = "init" /\ at["codex"] = "saved"
          /\ \/ slot = "wrapper" /\ original' = "torn" /\ UNCHANGED slot
             \/ slot' = "none" /\ UNCHANGED original
          /\ UNCHANGED <<settings, notifyCjs>>
       \/ /\ op = "uninstall" /\ at["codex"] = "restored"
          /\ slot' = "none"
          /\ UNCHANGED <<settings, original, notifyCjs>>
    /\ UNCHANGED <<plugin, openclaw, wrapper, sel, warned, changed, snapshot, edits, commands,
                   history>>

HooksNext ==
    \/ EditSettings \/ BreakSettings \/ TakeSlot
    \/ BeginInit \/ BeginUninstall
    \/ \E o \in {"init", "uninstall"} : ReadSettings(o)
    \/ WriteSettings \/ SaveOriginal \/ InstallCodex \/ RestoreCodex \/ UnlinkOriginal
    \/ \E p \in Plugin : InstallPlugin(p) \/ UninstallPlugin(p)
    \/ InstallOpenClaw \/ UninstallOpenClaw
    \/ FinishInit \/ RemoveHandler \/ RemoveBackup \/ KillCommand

HooksSpec == HooksInit /\ [][HooksNext]_hooksVars

-----------------------------------------------------------------------------
(* Properties.                                                             *)

CallsPew(s) ==
    CASE s = "claude"   -> settings.file = "ok" /\ PewEntries(settings.entries) > 0
      [] s = "codex"    -> slot \in PewOwned
      [] s = "openclaw" -> openclaw.registered
      [] OTHER          -> plugin[s] = "pew"

\* A tool whose configuration calls pew finds the handler there, whatever was
\* installed, uninstalled in part, refused or killed before; what a full
\* uninstall could not read or delete without saying so is excepted.
NoDanglingHook == notifyCjs = "absent" => \A s \in Hooks \ missed : ~CallsPew(s)

\* The command that was in Codex's slot before pew is in the slot or in the
\* backup, at every moment, also when a command is killed half-way.
OriginalKept == wrapper # NoFile => "wrapper" \in {slot, original}

\* pew forwards to the wrapper and the wrapper back to pew only if the
\* wrapper was installed over a pew that had found the slot empty.
NoSeededCycle ==
    slot \in PewOwned /\ original = "wrapper" /\ wrapper \in PewOwned => bare

\* The user's own hooks survive any sequence of installs and uninstalls, and
\* pew's command is there at most once; an edit that falls between a driver's
\* read and its write can be lost.
UserHooksKept ==
    ~raced => /\ wanted => UserEntries(settings.entries) > 0
              /\ PewEntries(settings.entries) <= 1
=============================================================================
