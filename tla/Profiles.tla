------------------------------ MODULE Profiles ------------------------------
(***************************************************************************)
(* The profiles of the daemon: the files of ProfileStore (profiles.rs,     *)
(* fs_util.rs), the RPCs on them, and the profile that is active on the    *)
(* mouse (server.rs).                                                      *)
(*                                                                         *)
(* Nothing locks the store: the steps of two calls interleave at every     *)
(* await.  A profile is saved through a temporary file that all saves of   *)
(* that profile share.  A call whose client goes away is dropped, but the  *)
(* file operation it was waiting for may still be carried out, later.      *)
(***************************************************************************)
EXTENDS Naturals, FiniteSets, TLC

CONSTANTS
    Rpcs,         \* RPC handlers that run at a time
    Handler,      \* the task that handles device events
    Ids, Configs,
    DefaultId,    \* default_profile_id of the daemon's configuration
    None,
    Empty, Torn,  \* contents of a file that are no profile
    MaxCalls,     \* bound: calls and connections
    MaxFaults     \* bound: operations that fail, crashes, dropped calls

ASSUME ActorsAssumption == Handler \notin Rpcs
ASSUME IdsAssumption    == DefaultId \in Ids \cup {None} /\ None \notin Ids
ASSUME FiniteAssumption == IsFiniteSet(Ids) /\ IsFiniteSet(Rpcs)
ASSUME NoneAssumption   == {None} \cap Nat = {}
ASSUME ContentsAssumption ==
    {Empty, Torn} \cap [config : Configs, is_default : BOOLEAN] = {}

VARIABLES
    file,     \* id -> the inode that <id>.toml names, or None
    temp,     \* id -> the inode that <id>.tmp names, or None
    data,     \* inode -> its contents
    call,     \* actor -> the call it runs
    onMouse,  \* the profile whose settings the mouse has; None if they are no profile's
    active,   \* active_profile_id
    saved,    \* history: id -> what was last saved as it
    shared,   \* history: the ids of which two saves overlapped
    crossed,  \* history: what calls of one kind overlapped on, "store" or "mouse"
    sure,     \* history: this daemon was told of the application the mouse last took
    calls, faults

disk    == <<file, temp, data>>
history == <<saved, shared, crossed, sure>>
bounds  == <<calls, faults>>
vars    == <<file, temp, data, call, onMouse, active, saved, shared, crossed, sure, calls, faults>>

Actors == Rpcs \cup {Handler}
Inodes == 1..(2 * Cardinality(Ids) + Cardinality(Rpcs))

Mutating == {"create", "create default", "update", "delete", "set default"}
Applying == {"apply", "auto"}

Kind(op) == IF op \in Mutating THEN "store" ELSE "mouse"

\* pc: what it does next.  profile: the one it works on.  todo: ids it has still to list.
\* defaults: the others that were default when it listed them.  saving: what it saves.
NoCall == [pc |-> "idle", op |-> None, id |-> None, profile |-> None, todo |-> {},
           defaults |-> {}, saving |-> None, inode |-> None, dropped |-> FALSE]

\* load_profile: None stands for every error.
Loaded(id) ==
    IF file[id] = None THEN None
    ELSE IF data[file[id]] \in {Empty, Torn} THEN None
    ELSE data[file[id]]

-----------------------------------------------------------------------------
(* Calls. *)

At(t, pc)     == call[t].pc = pc
Become(t, c)  == call' = [call EXCEPT ![t] = c]
Return(t)     == Become(t, NoCall)

\* A call that was dropped takes no further step.
Proceed(t, c) == Become(t, IF call[t].dropped THEN NoCall ELSE c)

Saving(c, id, profile) == [c EXCEPT !.pc = "create tmp", !.saving = [id |-> id, profile |-> profile]]

OthersAt(kind, t) == {u \in Actors \ {t} : ~At(u, "idle") /\ Kind(call[u].op) = kind}

Begin(t, op, pc, id, profile) ==
    /\ At(t, "idle")
    /\ calls < MaxCalls
    /\ calls' = calls + 1
    /\ Become(t, [NoCall EXCEPT !.pc = pc, !.op = op, !.id = id, !.profile = profile])
    /\ crossed' = IF OthersAt(Kind(op), t) = {} THEN crossed ELSE crossed \cup {Kind(op)}
    /\ UNCHANGED <<disk, active, saved, shared, faults>>

\* A request leaves the mouse alone until its call gets there.
MouseIsLeft == UNCHANGED <<onMouse, sure>>

New(config) == [config |-> config, is_default |-> FALSE]

CreateProfile(t, id, config, set_as_default) ==
    /\ Begin(t, IF set_as_default THEN "create default" ELSE "create", "exists", id, New(config))
    /\ MouseIsLeft

\* Without a configuration in the request, it is the name that changes.
UpdateProfile(t, id, option) ==
    Begin(t, "update", "get", id, IF option = {} THEN None ELSE New(CHOOSE c \in option : TRUE))
      /\ MouseIsLeft

DeleteProfile(t, id)     == Begin(t, "delete", "exists", id, None) /\ MouseIsLeft
SetDefaultProfile(t, id) == Begin(t, "set default", "get", id, None) /\ MouseIsLeft
ApplyProfile(t, id)      == Begin(t, "apply", "get", id, None) /\ MouseIsLeft

\* A mouse is connected: the one that was, with the settings it keeps in its flash, or
\* another, with its own or a profile it took earlier.
Connected ==
    /\ Begin(Handler, "auto", "choose", None, None)
    /\ onMouse' \in Ids \cup {None}
    /\ sure' = (sure /\ onMouse' = onMouse)

-----------------------------------------------------------------------------
(* ProfileStore. *)

\* create and delete look whether the file exists before they do anything.
Exists(t) ==
    /\ At(t, "exists")
    /\ LET c == call[t] IN
         IF (file[c.id] = None) = (c.op = "delete") THEN Return(t)
         ELSE Proceed(t, IF c.op = "delete" THEN [c EXCEPT !.pc = "remove"]
                         ELSE Saving(c, c.id, c.profile))
    /\ UNCHANGED <<disk, onMouse, active, history, bounds>>

Remove(t) ==
    /\ At(t, "remove")
    /\ file' = [file EXCEPT ![call[t].id] = None]
    /\ saved' = [saved EXCEPT ![call[t].id] = None]
    /\ Return(t)
    /\ UNCHANGED <<temp, data, onMouse, active, shared, crossed, sure, bounds>>

Updated(profile, change) ==
    IF change = None THEN profile ELSE [change EXCEPT !.is_default = profile.is_default]

\* get, and what each call does with the profile it is given.
Get(t) ==
    /\ At(t, "get")
    /\ LET c == call[t]
           p == Loaded(c.id)
       IN IF p = None THEN Return(t)
          ELSE Proceed(t, CASE c.op = "update" -> Saving(c, c.id, Updated(p, c.profile))
                            [] c.op = "set default" ->
                                 [c EXCEPT !.pc = "list", !.profile = p,
                                           !.todo = {id \in Ids : file[id] # None}]
                            [] c.op \in Applying -> [c EXCEPT !.pc = "set config"])
    /\ UNCHANGED <<disk, onMouse, active, history, bounds>>

\* list reads one file after the other, and leaves out what is no profile.
List(t) ==
    /\ At(t, "list")
    /\ LET c == call[t] IN
         \/ /\ c.todo = {}
            /\ Proceed(t, [c EXCEPT !.pc = "unset"])
         \/ \E id \in c.todo :
              LET p     == Loaded(id)
                  found == IF p # None /\ id # c.id /\ p.is_default
                           THEN {[id |-> id, profile |-> p]} ELSE {}
              IN Proceed(t, [c EXCEPT !.todo = @ \ {id}, !.defaults = @ \cup found])
    /\ UNCHANGED <<disk, onMouse, active, history, bounds>>

\* Mutant of NextSaves: the other defaults stay.
NextSavesTargetOnly(c) == {Saving(c, c.id, [c.profile EXCEPT !.is_default = TRUE])}

\* set_default saves the other defaults first, and the new one, as it was read, last.
NextSaves(c) ==
    IF c.defaults = {} THEN {Saving(c, c.id, [c.profile EXCEPT !.is_default = TRUE])}
    ELSE {Saving([c EXCEPT !.defaults = @ \ {other}], other.id,
                 [other.profile EXCEPT !.is_default = FALSE]) : other \in c.defaults}

Unset(t) ==
    /\ At(t, "unset")
    /\ \E c \in NextSaves(call[t]) : Proceed(t, c)
    /\ UNCHANGED <<disk, onMouse, active, history, bounds>>

-----------------------------------------------------------------------------
(* write_atomic. *)

Free(i) == /\ \A id \in Ids : i # file[id] /\ i # temp[id]
           /\ \A t \in Actors : call[t].inode # i
Fresh   == CHOOSE i \in Inodes : Free(i)

\* Mutant of TmpInode: writes the file in place.
FileInode(id) == IF file[id] = None THEN Fresh ELSE file[id]

\* File::create takes the file that has the name, or a new one.
TmpInode(id) == IF temp[id] = None THEN Fresh ELSE temp[id]

Overlapping(t, id) ==
    \E u \in Actors \ {t} : /\ call[u].pc \in {"write", "rename"}
                            /\ call[u].saving.id = id

\* Creates or truncates the temporary file, whoever uses it.
CreateTmp(t) ==
    /\ At(t, "create tmp")
    /\ LET c  == call[t]
           id == c.saving.id
           i  == TmpInode(id)
       IN /\ data' = [data EXCEPT ![i] = Empty]
          /\ temp' = [temp EXCEPT ![id] = i]
          /\ shared' = IF Overlapping(t, id) THEN shared \cup {id} ELSE shared
          /\ Proceed(t, [c EXCEPT !.pc = "write", !.inode = i])
    /\ UNCHANGED <<file, onMouse, active, saved, crossed, sure, bounds>>

\* write_all and sync_all.  Over something else, its end may be left behind.
Write(t) ==
    /\ At(t, "write")
    /\ LET c == call[t] IN
         /\ \E contents \in {c.saving.profile} \cup (IF data[c.inode] = Empty THEN {} ELSE {Torn}) :
              data' = [data EXCEPT ![c.inode] = contents]
         /\ Proceed(t, [c EXCEPT !.pc = "rename"])
    /\ UNCHANGED <<file, temp, onMouse, active, history, bounds>>

\* What follows a save.
AfterSave(c) ==
    CASE c.op = "create default" ->
           [c EXCEPT !.pc = "get", !.op = "set default", !.saving = None, !.inode = None]
      [] c.op = "set default" /\ c.saving.id # c.id ->
           [c EXCEPT !.pc = "unset", !.saving = None, !.inode = None]
      [] OTHER -> NoCall

\* The rename fails if another save has renamed the temporary file away.
Rename(t) ==
    /\ At(t, "rename")
    /\ LET c  == call[t]
           id == c.saving.id
       IN IF temp[id] = None
          THEN Return(t) /\ UNCHANGED <<file, temp, saved>>
          ELSE /\ file' = [file EXCEPT ![id] = temp[id]]
               /\ temp' = [temp EXCEPT ![id] = None]
               /\ saved' = [saved EXCEPT ![id] = c.saving.profile]
               /\ Proceed(t, AfterSave(c))
    /\ UNCHANGED <<data, onMouse, active, shared, crossed, sure, bounds>>

\* Mutant of CleanUp: removes the file, not the temporary one.
CleanUpFile(id) == file' = [file EXCEPT ![id] = None] /\ UNCHANGED temp

\* The temporary file is removed if that can be done.
CleanUp(id) == temp' \in {temp, [temp EXCEPT ![id] = None]} /\ UNCHANGED file

\* Any of the three fails.
SaveFails(t) ==
    /\ call[t].pc \in {"create tmp", "write", "rename"}
    /\ faults < MaxFaults
    /\ faults' = faults + 1
    /\ CleanUp(call[t].saving.id)
    /\ Return(t)
    /\ UNCHANGED <<data, onMouse, active, history, calls>>

-----------------------------------------------------------------------------
(* The active profile. *)

\* auto_apply_profile: the last active profile, or the configured one.
Choose(t) ==
    /\ At(t, "choose")
    /\ LET id == IF active # None THEN active ELSE DefaultId IN
         IF id = None THEN Return(t) ELSE Proceed(t, [call[t] EXCEPT !.pc = "get", !.id = id])
    /\ UNCHANGED <<disk, onMouse, active, history, bounds>>

\* Under the mutex of the mouse.
SetConfig(t) ==
    /\ At(t, "set config")
    /\ onMouse' = call[t].id
    /\ sure' = TRUE
    /\ Proceed(t, [call[t] EXCEPT !.pc = "record"])
    /\ UNCHANGED <<disk, active, saved, shared, crossed, bounds>>

\* No mouse, or one that stops answering on the way.  It has the settings it had, a part of
\* the new ones, or all of them, if only the answer to the last packet was lost.
SetConfigFails(t) ==
    /\ At(t, "set config")
    /\ faults < MaxFaults
    /\ faults' = faults + 1
    /\ onMouse' \in {onMouse, None, call[t].id}
    /\ sure' = (sure /\ onMouse' = onMouse)
    /\ Return(t)
    /\ UNCHANGED <<disk, active, saved, shared, crossed, calls>>

\* Mutant of Recorded: not what was applied by itself.
RecordedIfAsked(t) == IF t = Handler THEN active ELSE call[t].id

Recorded(t) == call[t].id

\* After the mutex is released.
Record(t) ==
    /\ At(t, "record")
    /\ active' = Recorded(t)
    /\ Return(t)
    /\ UNCHANGED <<disk, onMouse, history, bounds>>

\* set_config and the setters of the service do not touch the record.
SettingsChanged ==
    /\ onMouse # None
    /\ onMouse' = None
    /\ UNCHANGED <<disk, call, active, history, bounds>>

-----------------------------------------------------------------------------
(* Dropped calls and crashes. *)

\* The client goes away: the call ends at once, or after the operation it is at.  One that is
\* dropped between the mouse and the record leaves the record behind.
Drop(t) ==
    /\ t \in Rpcs
    /\ ~At(t, "idle") /\ ~call[t].dropped
    /\ faults < MaxFaults
    /\ faults' = faults + 1
    /\ \/ Return(t)
       \/ Become(t, [call[t] EXCEPT !.dropped = TRUE])
    /\ crossed' = IF At(t, "record") \/ At(t, "set config") THEN crossed \cup {"mouse"} ELSE crossed
    /\ UNCHANGED <<disk, onMouse, active, saved, shared, sure, calls>>

\* The daemon starts again, with what is on the disk.  The mouse is not touched.
Crash ==
    /\ faults < MaxFaults
    /\ faults' = faults + 1
    /\ call' = [t \in Actors |-> NoCall]
    /\ active' = None
    /\ sure' = FALSE
    /\ UNCHANGED <<disk, onMouse, saved, shared, crossed, calls>>

-----------------------------------------------------------------------------
\* The profiles the daemon finds when it starts.
Found ==
    {found \in [Ids -> {None} \cup [config : Configs, is_default : BOOLEAN]] :
        Cardinality({id \in Ids : found[id] # None /\ found[id].is_default}) <= 1}

Inode == CHOOSE f \in [Ids -> Inodes] : \A i, j \in Ids : i # j => f[i] # f[j]

Init ==
    /\ saved \in Found
    /\ file = [id \in Ids |-> IF saved[id] = None THEN None ELSE Inode[id]]
    /\ temp = [id \in Ids |-> None]
    /\ data = [i \in Inodes |-> IF \E id \in Ids : file[id] = i
                               THEN saved[CHOOSE id \in Ids : file[id] = i] ELSE Empty]
    /\ call = [t \in Actors |-> NoCall]
    /\ onMouse \in Ids \cup {None}
    /\ active = None
    /\ shared = {}
    /\ crossed = {}
    /\ sure = FALSE
    /\ calls = 0
    /\ faults = 0

Request(t) ==
    \E id \in Ids :
        \/ \E config \in Configs :
             \/ \E set_as_default \in BOOLEAN : CreateProfile(t, id, config, set_as_default)
             \/ UpdateProfile(t, id, {config})
        \/ UpdateProfile(t, id, {})
        \/ DeleteProfile(t, id)
        \/ SetDefaultProfile(t, id)
        \/ ApplyProfile(t, id)

Step(t) ==
    \/ Exists(t) \/ Remove(t) \/ Get(t) \/ List(t) \/ Unset(t)
    \/ CreateTmp(t) \/ Write(t) \/ Rename(t) \/ SaveFails(t)
    \/ Choose(t) \/ SetConfig(t) \/ SetConfigFails(t) \/ Record(t)
    \/ Drop(t)

Next ==
    \/ \E t \in Rpcs : Request(t)
    \/ \E t \in Actors : Step(t)
    \/ Connected \/ SettingsChanged \/ Crash

Spec == Init /\ [][Next]_vars

RpcSymmetry == Permutations(Rpcs)

-----------------------------------------------------------------------------
(* Properties. *)

\* What a profile's file holds is what was last saved as that profile, whole, or nothing once
\* it was deleted, whatever fails, is dropped or crashes in between, as long as no two saves
\* of that profile overlapped: saves of other profiles do not disturb it.
SavedIsThere ==
    \A id \in Ids \ shared :
        (IF file[id] = None THEN None ELSE data[file[id]]) = saved[id]

\* As long as changes of the store do not overlap, no more than one profile is the default,
\* at every moment and after every failure and crash inside set_default.
AtMostOneDefault ==
    "store" \notin crossed =>
        \A i, j \in Ids :
            i # j /\ Loaded(i) # None /\ Loaded(j) # None
                => ~(Loaded(i).is_default /\ Loaded(j).is_default)

\* A profile disappears by delete_profile only: a save that fails, or is overtaken by
\* another save of the same profile, leaves a file behind.
OnlyDeleteRemoves ==
    [][\A id \in Ids :
          file[id] # None /\ file'[id] = None
              => \E t \in Actors : call[t].op = "delete" /\ call[t].id = id]_vars

\* As long as applications do not overlap and none is dropped on the way, the record never
\* names another profile than the one the mouse has, except in the moment between: not
\* after a failed application either, whether the mouse kept its settings or lost them.
\* Left out is a mouse with a profile nobody told this daemon of: it took all of an
\* application whose last answer was lost, or took it before the daemon was restarted.
RecordNamesMouse ==
    "mouse" \notin crossed /\ onMouse # None /\ sure /\ (\A t \in Actors : ~At(t, "record"))
        => active = onMouse
=============================================================================
