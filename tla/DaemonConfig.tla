---------------------------- MODULE DaemonConfig ----------------------------
(***************************************************************************)
(* The configuration of the daemon: the value behind a mutex that the RPCs *)
(* set_low_battery_threshold and set_battery_log_path change (server.rs),  *)
(* the file daemon.toml it is saved to by write_atomic (fs_util.rs), the   *)
(* battery log it switches (battery_log.rs), and the tray that follows it  *)
(* through a snapshot and an event stream (scyrox-tray, daemon.rs).        *)
(*                                                                         *)
(* Callers wait for the mutex with nothing but their request, so only the  *)
(* one that holds it has a state: what it saves and how far it is.  A call *)
(* whose client goes away is dropped and releases the mutex, while the     *)
(* file operation it was at runs on a thread of its own, later.  The       *)
(* directory maps names to inodes; a text is whole, empty, torn or a log.  *)
(* Bounds: the channel keeps fewer events than the 32 of the code; few     *)
(* calls are made, and few of them leave an operation at the same time.    *)
(***************************************************************************)
EXTENDS Naturals, Sequences

CONSTANTS Thresholds,    \* percentages a client may ask for, 10 among them
          LogPaths,      \* names a client may choose for the battery log
          Inodes,        \* files that can exist at a time
          Threads,       \* threads that may run what dropped calls left
          MaxCalls,      \* bound: calls that change something
          NewsCapacity   \* slots of the client event channel (32)

ASSUME ThresholdsAssumption == Thresholds \subseteq 0..100 /\ 10 \in Thresholds
ASSUME InodesAssumption == Inodes \subseteq Nat \ {0}
ASSUME LogPathsAssumption == "" \notin LogPaths
ASSUME NewsCapacityAssumption == NewsCapacity \in Nat \ {0}

VARIABLES daemon,    \* up, or down after a crash
          config,    \* the configuration in memory
          step,      \* how far the holder of the config mutex is, or "free"
          candidate, \* the configuration it wants to save
          prepared,  \* the battery log file it has opened, or 0
          out,       \* the temporary file it writes, or 0
          dir,       \* the inode each name stands for, or 0
          file,      \* what each inode holds
          unsynced,  \* inodes whose text has not reached the disk
          prior,     \* the inode daemon.toml stood for before the last rename
          sink,      \* the inode the battery log is appended to, or 0
          tray,      \* down, subscribed, informed of the threshold, or consuming
          shown,     \* the threshold the tray works with
          news,      \* the events its stream has not delivered
          skipped,   \* whether its stream lagged and skipped a change
          late,      \* what each thread has still to do for a dropped call
          stray,     \* history: what a dropped call put into daemon.toml last
          mixed,     \* history: a save began with a dropped call not done with TempFile
          calls

diskVars  == <<dir, file, unsynced, prior>>
saveVars  == <<step, candidate, prepared, out>>
trayVars  == <<tray, shown, news, skipped>>
lateVars  == <<late, stray, mixed>>
vars      == <<daemon, config, saveVars, diskVars, sink, trayVars, lateVars, calls>>

ConfigFile == "daemon.toml"
TempFile   == "daemon.tmp"    \* path.with_extension("tmp")
Names      == LogPaths \cup {ConfigFile, TempFile}

NoPath  == ""
Config  == [threshold : Thresholds, log : LogPaths \cup {NoPath}]
Default == [threshold |-> 10, log |-> NoPath]

Toml(c)  == [kind |-> "toml", config |-> c]
Text(k)  == [kind |-> k, config |-> Default]
Content  == {Toml(c) : c \in Config} \cup {Text(k) : k \in {"empty", "torn", "log"}}

Step == {"free", "preparing", "creating", "writing", "syncing", "renaming", "committing"}
Chatter == 101    \* an event that is not about the configuration

\* An operation: of the call that was at a step with a candidate and an open file, or the
\* removal of the temporary file after a failure.
LateOps == [step : (Step \ {"committing"}) \cup {"removing"}, candidate : Config,
            out : Inodes \cup {0}]
NoOp    == [step |-> "free", candidate |-> Default, out |-> 0]

DaemonTypeOK ==
    /\ daemon \in {"up", "down"}
    /\ config \in Config
    /\ step \in Step
    /\ candidate \in Config
    /\ prepared \in Inodes \cup {0}
    /\ out \in Inodes \cup {0}
    /\ dir \in [Names -> Inodes \cup {0}]
    /\ file \in [Inodes -> Content]
    /\ unsynced \in SUBSET Inodes
    /\ prior \in Inodes \cup {0}
    /\ sink \in Inodes \cup {0}
    /\ tray \in {"down", "subscribed", "informed", "consuming"}
    /\ shown \in Thresholds
    /\ news \in Seq(Thresholds \cup {Chatter})
    /\ Len(news) <= NewsCapacity
    /\ skipped \in BOOLEAN

LateTypeOK ==
    /\ late \in [Threads -> LateOps]
    /\ stray \in SUBSET Config
    /\ mixed \in BOOLEAN

TypeOK == DaemonTypeOK /\ LateTypeOK /\ calls \in Nat

\* The first start of a fresh installation.
Init ==
    /\ daemon = "down"
    /\ config = Default
    /\ step = "free"
    /\ candidate = Default
    /\ prepared = 0
    /\ out = 0
    /\ dir = [n \in Names |-> 0]
    /\ file = [i \in Inodes |-> Text("empty")]
    /\ unsynced = {}
    /\ prior = 0
    /\ sink = 0
    /\ tray = "down"
    /\ shown = 10
    /\ news = << >>
    /\ skipped = FALSE
    /\ late = [k \in Threads |-> NoOp]
    /\ stray = {}
    /\ mixed = FALSE
    /\ calls = 0

-----------------------------------------------------------------------------
(* Files. *)

Used  == {dir[n] : n \in Names} \cup {prior, sink, prepared, out}
             \cup {late[k].out : k \in Threads}
Spare == Inodes \ Used
Fresh == CHOOSE i \in Spare : TRUE

\* The inode of an open with create(true): the one the name stands for, or a new one.
Target(n) == IF dir[n] = 0 THEN Fresh ELSE dir[n]
CanOpen(n) == dir[n] # 0 \/ Spare # {}

\* Opening the name truncates what it stands for.
Truncate(n) ==
    /\ CanOpen(n)
    /\ dir' = [dir EXCEPT ![n] = Target(n)]
    /\ file' = [file EXCEPT ![Target(n)] = Text("empty")]
    /\ unsynced' = unsynced \cup {Target(n)}

\* Opening the name for appending leaves its text alone.
OpenAppend(n) ==
    /\ CanOpen(n)
    /\ dir' = [dir EXCEPT ![n] = Target(n)]
    /\ file' = IF dir[n] = 0 THEN [file EXCEPT ![Fresh] = Text("empty")] ELSE file

\* The text of a file without a name is of no interest any more.
Forget(gone) == [i \in Inodes |-> IF i \in gone THEN Text("empty") ELSE file[i]]

\* The files that have a name; the text of the others is lost anyway.
Live == {dir[n] : n \in Names} \ {0}

\* Over something else, the end of that may be left behind.
Write(i, text) ==
    /\ \E written \in {text} \cup (IF file[i] = Text("empty") THEN {} ELSE {Text("torn")}) :
         file' = [file EXCEPT ![i] = written]
    /\ unsynced' = unsynced \cup ({i} \cap Live)

RemoveTemp ==
    /\ dir' = [dir EXCEPT ![TempFile] = 0]
    /\ file' = Forget({dir[TempFile]})
    /\ unsynced' = unsynced \ {dir[TempFile]}

\* There is a temporary file to rename.
Rename ==
    /\ dir[TempFile] # 0
    /\ dir' = [dir EXCEPT ![ConfigFile] = dir[TempFile], ![TempFile] = 0]
    /\ prior' = dir[ConfigFile]
    /\ file' = Forget({prior})

-----------------------------------------------------------------------------
(* The event stream of the tray. *)

\* Mutant of Listening: the stream is opened after the snapshot was taken.
ListeningLate == tray = "consuming"

\* Events are kept for a stream from the moment it is opened.
Listening == tray # "down"

\* Mutant of Kept: an unbounded channel.
KeptAll == news

\* A full broadcast channel drops its oldest event; the stream will skip it.
Kept == IF Len(news) < NewsCapacity THEN news ELSE Tail(news)

Publish(e) ==
    IF Listening
    THEN /\ news' = Append(Kept, e)
         /\ skipped' = (skipped \/ (Kept # news /\ Head(news) # Chatter))
    ELSE UNCHANGED <<news, skipped>>

-----------------------------------------------------------------------------
(* set_low_battery_threshold and set_battery_log_path, under the config mutex. *)

Release == step' = "free" /\ candidate' = Default /\ prepared' = 0 /\ out' = 0

\* An equal value is answered without saving: no step.
AskThreshold ==
    /\ daemon = "up"
    /\ step = "free"
    /\ \E t \in Thresholds \ {config.threshold} :
         candidate' = [config EXCEPT !.threshold = t]
    /\ step' = "creating"
    /\ UNCHANGED <<daemon, config, prepared, out, diskVars, sink, trayVars, lateVars>>

AskLogPath ==
    /\ daemon = "up"
    /\ step = "free"
    /\ \E p \in LogPaths \cup {NoPath} :
         /\ p # config.log
         /\ candidate' = [config EXCEPT !.log = p]
         /\ step' = IF p = NoPath THEN "creating" ELSE "preparing"
    /\ UNCHANGED <<daemon, config, prepared, out, diskVars, sink, trayVars, lateVars>>

\* Mutant of ReservedNames: the files of the configuration are not reserved.
ReservedNamesNone == {}

\* The names that server.rs hands to the logger as reserved.
ReservedNames == {"daemon.toml", "daemon.toml.tmp"}

\* By its name, or as another name of the same file.
Aliases(p) ==
    \/ p \in ReservedNames
    \/ \E n \in ReservedNames \cap Names : dir[n] # 0 /\ dir[n] = dir[p]

\* BatteryLogger::prepare opens the file; the running log is not touched yet.
Prepare ==
    /\ step = "preparing"
    /\ ~Aliases(candidate.log)
    /\ OpenAppend(candidate.log)
    /\ prepared' = Target(candidate.log)
    /\ step' = "creating"
    /\ UNCHANGED <<daemon, config, candidate, out, unsynced, prior, sink, trayVars,
                   lateVars>>

\* A reserved path or an I/O error, before or after the file was opened: the caller is
\* told, the lock released.
PrepareFails ==
    /\ step = "preparing"
    /\ \/ UNCHANGED <<dir, file>>
       \/ candidate.log \notin ReservedNames /\ OpenAppend(candidate.log)
    /\ Release
    /\ UNCHANGED <<daemon, config, unsynced, prior, sink, trayVars, lateVars>>

\* The threads with something to do to the temporary file.
Pending == {k \in Threads : late[k].step \notin {"free", "preparing"}}

\* write_atomic: create, write, sync, rename.
SaveCreates ==
    /\ step = "creating"
    /\ Truncate(TempFile)
    /\ out' = Target(TempFile)
    /\ step' = "writing"
    /\ mixed' = (mixed \/ Pending # {})
    /\ UNCHANGED <<daemon, config, candidate, prepared, prior, sink, trayVars, late, stray>>

\* Mutant of AfterWrite: the rename does not wait for sync_all.
AfterWriteUnsynced == "renaming"

AfterWrite == "syncing"

SaveWrites ==
    /\ step = "writing"
    /\ Write(out, Toml(candidate))
    /\ step' = AfterWrite
    /\ UNCHANGED <<daemon, config, candidate, prepared, out, dir, prior, sink, trayVars,
                   lateVars>>

SaveSyncs ==
    /\ step = "syncing"
    /\ unsynced' = unsynced \ {out}
    /\ step' = "renaming"
    /\ UNCHANGED <<daemon, config, candidate, prepared, out, dir, file, prior, sink,
                   trayVars, lateVars>>

SaveRenames ==
    /\ step = "renaming"
    /\ Rename
    /\ step' = "committing"
    /\ stray' = {}
    /\ UNCHANGED <<daemon, config, candidate, prepared, out, unsynced, sink, trayVars, late,
                   mixed>>

\* What an operation of the call is given to work with.
Operation(at) ==
    [step      |-> at,
     candidate |-> IF at \in {"preparing", "writing", "renaming"} THEN candidate ELSE Default,
     out       |-> IF at \in {"writing", "syncing"} THEN out ELSE 0]

\* A thread is left with an operation of the call.
Leave(at) ==
    /\ \E k \in Threads : late[k] = NoOp /\ late' = [late EXCEPT ![k] = Operation(at)]
    /\ mixed' = (mixed \/ (at # "preparing" /\ Pending # {}))

\* Any of the four fails: the temporary file, which may hold half a text, is removed, if
\* that works, or later, if the call is dropped there, and the caller told; the
\* configuration in memory stays.
SaveFails ==
    /\ step \in {"creating", "writing", "syncing", "renaming"}
    /\ \/ RemoveTemp /\ UNCHANGED <<late, mixed>>
       \/ /\ UNCHANGED <<dir, unsynced>>
          /\ \/ UNCHANGED file
             \/ step = "writing" /\ file' = [file EXCEPT ![out] = Text("torn")]
          /\ Leave("removing") \/ UNCHANGED <<late, mixed>>
    /\ Release
    /\ UNCHANGED <<daemon, config, prior, sink, trayVars, stray>>

\* Mutant of Replaced: disabling the log leaves the old one open.
ReplacedIfOpened == IF prepared = 0 THEN sink ELSE prepared

\* The log the logger holds once the candidate is in force.
Replaced == IF candidate.log = config.log THEN sink ELSE prepared

\* Switch the log, then the configuration, then tell the clients, and only then unlock.
Commit ==
    /\ step = "committing"
    /\ sink' = Replaced
    /\ config' = candidate
    /\ Publish(candidate.threshold)
    /\ Release
    /\ UNCHANGED <<daemon, diskVars, tray, shown, lateVars>>

\* The client goes away: the mutex is released and memory stays as it is.  The operation the
\* call was at is over, or left to a thread.
Drop ==
    /\ step # "free"
    /\ \/ UNCHANGED <<late, mixed>>
       \/ step # "committing" /\ ~(step = "preparing" /\ candidate.log \in ReservedNames)
            /\ Leave(step)
    /\ stray' = IF step = "committing" THEN {candidate} ELSE stray
    /\ Release
    /\ UNCHANGED <<daemon, config, diskVars, sink, trayVars>>

Setter ==
    \/ Prepare \/ PrepareFails
    \/ SaveCreates \/ SaveWrites \/ SaveSyncs \/ SaveRenames \/ SaveFails
    \/ Commit \/ Drop

-----------------------------------------------------------------------------
(* What dropped calls left to their threads.  What fails was never left; only a write may  *)
(* fail half-way.                                                                          *)

LateOpens(op) ==
    /\ op.step = "preparing"
    /\ OpenAppend(op.candidate.log)
    /\ UNCHANGED <<unsynced, prior, stray>>

LateCreates(op) ==
    /\ op.step = "creating"
    /\ Truncate(TempFile)
    /\ UNCHANGED <<prior, stray>>

LateWrites(op) ==
    /\ op.step = "writing"
    /\ \E text \in {Toml(op.candidate), Text("torn")} : Write(op.out, text)
    /\ UNCHANGED <<dir, prior, stray>>

LateSyncs(op) ==
    /\ op.step = "syncing"
    /\ unsynced' = unsynced \ {op.out}
    /\ UNCHANGED <<dir, file, prior, stray>>

\* daemon.toml changes, and nobody tells the memory.
LateRenames(op) ==
    /\ op.step = "renaming"
    /\ Rename
    /\ stray' = {op.candidate}
    /\ UNCHANGED unsynced

\* The temporary file is gone.
LateRenameFails(op) ==
    /\ op.step = "renaming"
    /\ dir[TempFile] = 0
    /\ UNCHANGED <<diskVars, stray>>

LateRemoves(op) ==
    /\ op.step = "removing"
    /\ RemoveTemp
    /\ UNCHANGED <<prior, stray>>

Late ==
    /\ \E k \in Threads :
         /\ late' = [late EXCEPT ![k] = NoOp]
         /\ LET op == late[k] IN
              \/ LateOpens(op) \/ LateCreates(op) \/ LateWrites(op) \/ LateSyncs(op)
              \/ LateRenames(op) \/ LateRenameFails(op) \/ LateRemoves(op)
    /\ UNCHANGED <<daemon, config, saveVars, sink, trayVars, mixed>>

-----------------------------------------------------------------------------
(* The battery log, the tray, crashes and starts. *)

\* A record appended to anything but a log damages it.
LogRecord ==
    /\ sink # 0
    /\ file' = [file EXCEPT ![sink] =
                  IF @.kind \in {"empty", "log"} THEN Text("log") ELSE Text("torn")]
    /\ UNCHANGED <<daemon, config, saveVars, dir, unsynced, prior, sink, trayVars,
                   lateVars>>

OtherEvent ==
    /\ daemon = "up"
    /\ Listening
    /\ Publish(Chatter)
    /\ UNCHANGED <<daemon, config, saveVars, diskVars, sink, tray, shown, lateVars>>

TraySubscribes ==
    /\ daemon = "up"
    /\ tray = "down"
    /\ tray' = "subscribed"
    /\ UNCHANGED <<daemon, config, saveVars, diskVars, sink, shown, news, skipped,
                   lateVars>>

\* get_daemon_config takes the config mutex and cannot fail once it has it.
TrayReads ==
    /\ tray = "subscribed"
    /\ step = "free"
    /\ shown' = config.threshold
    /\ tray' = "informed"
    /\ UNCHANGED <<daemon, config, saveVars, diskVars, sink, news, skipped, lateVars>>

\* initial_state asks for the connection and the battery before the stream is consumed.
TrayShowsBattery ==
    /\ tray = "informed"
    /\ tray' = "consuming"
    /\ UNCHANGED <<daemon, config, saveVars, diskVars, sink, shown, news, skipped,
                   lateVars>>

TrayConsumes ==
    /\ tray = "consuming"
    /\ news # << >>
    /\ news' = Tail(news)
    /\ shown' = IF Head(news) = Chatter THEN shown ELSE Head(news)
    /\ UNCHANGED <<daemon, config, saveVars, diskVars, sink, tray, skipped, lateVars>>

\* The tray's threshold is read again before it is used.
TrayDown == tray' = "down" /\ shown' = 10 /\ news' = << >> /\ skipped' = FALSE

\* The stream ends and the tray starts over.
TrayDisconnects ==
    /\ tray # "down"
    /\ TrayDown
    /\ UNCHANGED <<daemon, config, saveVars, diskVars, sink, lateVars>>

Tray == TraySubscribes \/ TrayReads \/ TrayShowsBattery \/ TrayConsumes \/ TrayDisconnects

\* The daemon is killed or the machine stops: text that was not synced may be lost, and
\* so may the last rename.
Crash ==
    /\ daemon = "up"
    /\ daemon' = "down"
    /\ \E lost \in SUBSET unsynced :
         file' = [i \in Inodes |-> IF i \in lost THEN Text("torn") ELSE file[i]]
    /\ dir' \in {dir} \cup (IF prior = 0 THEN {} ELSE {[dir EXCEPT ![ConfigFile] = prior]})
    /\ unsynced' = {}
    /\ prior' = 0
    /\ Release
    /\ sink' = 0
    /\ config' = Default
    /\ TrayDown
    /\ late' = [k \in Threads |-> NoOp]
    /\ stray' = {}
    /\ UNCHANGED mixed

\* DaemonConfig::load without a file: the defaults are used, and saved.  One step: until
\* the rename there is no daemon.toml, and after it nothing is left to do.
StartFresh ==
    /\ daemon = "down"
    /\ dir[ConfigFile] = 0
    /\ Spare # {}
    /\ dir' = [dir EXCEPT ![ConfigFile] = Fresh]
    /\ file' = [file EXCEPT ![Fresh] = Toml(Default)]
    /\ config' = Default
    /\ daemon' = "up"
    /\ UNCHANGED <<saveVars, unsynced, prior, sink, trayVars, lateVars>>

\* What load makes of the file; every setting has a default, so an empty file is one.
Loaded ==
    IF file[dir[ConfigFile]].kind = "toml" THEN file[dir[ConfigFile]].config ELSE Default

\* A torn file, or a log that cannot be opened, keeps the daemon from starting.  With a
\* whole one it starts clean, whatever dropped calls did before.
Start ==
    /\ daemon = "down"
    /\ dir[ConfigFile] # 0
    /\ file[dir[ConfigFile]].kind \in {"toml", "empty"}
    /\ config' = Loaded
    /\ daemon' = "up"
    /\ \/ /\ Loaded.log = NoPath
          /\ sink' = 0
          /\ UNCHANGED <<dir, file>>
       \/ /\ Loaded.log # NoPath
          /\ ~Aliases(Loaded.log)
          /\ OpenAppend(Loaded.log)
          /\ sink' = Target(Loaded.log)
    /\ mixed' = (mixed /\ file[dir[ConfigFile]].kind # "toml")
    /\ UNCHANGED <<saveVars, unsynced, prior, trayVars, late, stray>>

-----------------------------------------------------------------------------

Ask == calls < MaxCalls /\ calls' = calls + 1 /\ (AskThreshold \/ AskLogPath)

Next ==
    \/ Ask
    \/ /\ \/ Setter \/ Late
          \/ LogRecord \/ OtherEvent
          \/ Tray
          \/ Crash \/ StartFresh \/ Start
       /\ UNCHANGED calls

Spec == Init /\ [][Next]_vars

-----------------------------------------------------------------------------
(* Properties. *)

\* The text of daemon.toml.
Saved == file[dir[ConfigFile]]

\* What daemon.toml is for while nobody saves: the configuration in memory, or what a
\* dropped call asked for, if that reached the file after it.
Lasting(c) == IF stray = {} THEN c ELSE CHOOSE s \in stray : TRUE

\* While nobody saves, memory and file agree; while somebody does, the file holds the old
\* configuration or the new one, whole: no failed step of write_atomic or of the log, and
\* no crash followed by a start, leaves the daemon with settings it would not find again.
\* Only a dropped call makes the two differ, and then the file is what it asked for, whole,
\* until the next save.  Not so, once a save began while a dropped call had still
\* something to do to the temporary file they share.
OldOrNew ==
    daemon = "up" /\ ~mixed =>
        Saved = Toml(IF step = "committing" THEN candidate ELSE Lasting(config))

\* The daemon can always be started again: after a crash at any moment, also one with the
\* operation of a dropped call pending, daemon.toml is missing, before the first start, or
\* whole, as long as no save shared the temporary file with such an operation.
Restartable ==
    daemon = "down" /\ ~mixed => dir[ConfigFile] = 0 \/ Saved.kind = "toml"

\* The log that is written is the one the configuration names, whatever failed on the way
\* there: set_battery_log_path switches both or none.
LogFollowsConfig ==
    daemon = "up" => sink = IF config.log = NoPath THEN 0 ELSE dir[config.log]

\* A tray that has read everything works with the daemon's threshold, however its
\* snapshot and its stream interleave with changes, unless its stream skipped a change.
CaughtUp ==
    tray = "consuming" /\ ~skipped /\ (\A k \in 1..Len(news) : news[k] = Chatter)
        => shown = config.threshold
-----------------------------------------------------------------------------
(* What the code says of itself and does not do; see the README. *)

\* "battery_log_path must not alias daemon.toml or daemon.toml.tmp" (BatteryLogOpenError,
\* battery_log.rs:35): the battery log is never the file of the configuration.
LogIsNotConfig == sink # 0 => sink # dir[ConfigFile]
=============================================================================
