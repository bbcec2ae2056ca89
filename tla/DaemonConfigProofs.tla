------------------------- MODULE DaemonConfigProofs -------------------------
(***************************************************************************)
(* The configuration of the daemon survives: memory, daemon.toml and the   *)
(* battery log agree whatever step of a change fails, whenever a call is   *)
(* dropped and wherever the daemon stops, for any log names, any number of *)
(* inodes, of threads and of calls, and any channel.                       *)
(*                                                                         *)
(* The theorems on files assume what the code means to check and does not: *)
(* that the log is not put where write_atomic has its temporary file.      *)
(* Those on daemon.toml say what they do while no save shared that file    *)
(* with a dropped call; the one on the log holds whatever was shared.      *)
(***************************************************************************)
EXTENDS DaemonConfig, TLAPS

\* No client chooses the temporary file of write_atomic for the battery log.
LogIsNoTemp == TempFile \notin LogPaths

-----------------------------------------------------------------------------
(* Types. *)

LEMMA DefaultTypes == Default \in Config /\ 0 \notin Inodes /\ Chatter \notin Thresholds
  BY ThresholdsAssumption, InodesAssumption DEF Default, Config, Chatter

LEMMA TomlType == ASSUME NEW c \in Config PROVE Toml(c) \in Content
  BY DEF Content

LEMMA TextType == ASSUME NEW k \in {"empty", "torn", "log"} PROVE Text(k) \in Content
  BY DEF Content

LEMMA ContentFields ==
  ASSUME NEW x \in Content
  PROVE  x.config \in Config /\ (x.kind = "toml" => x = Toml(x.config))
  BY DefaultTypes DEF Content, Toml, Text

LEMMA FreshSpare == Spare # {} => Fresh \in Spare /\ Fresh \in Inodes
  BY DEF Fresh, Spare

LEMMA TargetType ==
  ASSUME DaemonTypeOK, NEW n \in Names, CanOpen(n)
  PROVE  Target(n) \in Inodes
  BY FreshSpare DEF DaemonTypeOK, CanOpen, Target

\* The channel stays within its capacity.
LEMMA PublishType ==
  ASSUME DaemonTypeOK, NEW e \in Thresholds \cup {Chatter}, Publish(e)
  PROVE  /\ news' \in Seq(Thresholds \cup {Chatter})
         /\ Len(news') <= NewsCapacity
         /\ skipped' \in BOOLEAN
  <1>1. news \in Seq(Thresholds \cup {Chatter}) /\ Len(news) <= NewsCapacity
        /\ NewsCapacity \in Nat \ {0} /\ skipped \in BOOLEAN
    BY NewsCapacityAssumption DEF DaemonTypeOK
  <1>2. Kept \in Seq(Thresholds \cup {Chatter}) /\ Len(Kept) < NewsCapacity
    <2>1. CASE Len(news) < NewsCapacity
      BY <1>1, <2>1 DEF Kept
    <2>2. CASE ~(Len(news) < NewsCapacity)
      <3>1. Len(news) = NewsCapacity /\ news # << >>
        BY <1>1, <2>2
      <3>2. Kept = Tail(news)
        BY <2>2 DEF Kept
      <3>3. Tail(news) \in Seq(Thresholds \cup {Chatter}) /\ Len(Tail(news)) = Len(news) - 1
        BY <1>1, <3>1
      <3> QED  BY <1>1, <3>1, <3>2, <3>3
    <2> QED  BY <2>1, <2>2
  <1>3. CASE Listening
    <2>1. news' = Append(Kept, e) /\ skipped' = (skipped \/ (Kept # news /\ Head(news) # Chatter))
      BY <1>3 DEF Publish
    <2>2. skipped' \in BOOLEAN
      BY <2>1
    <2>3. news' \in Seq(Thresholds \cup {Chatter}) /\ Len(news') = Len(Kept) + 1
      BY <1>2, <2>1
    <2>4. Len(Kept) \in Nat
      BY <1>2
    <2> QED  BY <1>1, <1>2, <2>2, <2>3, <2>4
  <1>4. CASE ~Listening
    BY <1>1, <1>4 DEF Publish
  <1> QED  BY <1>3, <1>4

\* Only a running daemon saves, and a log is opened only for a path that is new.
Opening ==
    /\ step # "free" => daemon = "up"
    /\ step = "preparing" => candidate.log \in LogPaths /\ candidate.log # config.log

DaemonTypes == DaemonTypeOK /\ Opening

\* A dropped call leaves the opening of no log in the place of daemon.toml.
LateOpening ==
    \A k \in Threads : late[k].step = "preparing" => late[k].candidate.log \in LogPaths \ {ConfigFile}

LateTypes == LateTypeOK /\ LateOpening

Types == DaemonTypes /\ LateTypes

LEMMA NoOpType == NoOp \in LateOps /\ NoOp.step = "free"
  BY DefaultTypes DEF NoOp, LateOps, Step

LEMMA TypesInit == Init => Types
  <1> SUFFICES ASSUME Init PROVE Types
    OBVIOUS
  <1>1. /\ Text("empty") \in Content /\ Default \in Config /\ 10 \in Thresholds
        /\ NewsCapacity \in Nat
    BY DefaultTypes, ThresholdsAssumption, TextType, NewsCapacityAssumption
  <1>2. file \in [Inodes -> Content] /\ dir \in [Names -> Inodes \cup {0}]
    BY <1>1 DEF Init
  <1>3. news \in Seq(Thresholds \cup {Chatter}) /\ Len(news) <= NewsCapacity
    BY <1>1 DEF Init
  <1>4. config \in Config /\ candidate \in Config
    BY <1>1 DEF Init
  <1>5. Opening
    BY DEF Init, Opening
  <1>6. DaemonTypes
    BY <1>1, <1>2, <1>3, <1>4, <1>5 DEF Init, DaemonTypes, DaemonTypeOK, Step
  <1>7. LateTypes
    <2>1. late = [k \in Threads |-> NoOp] /\ stray = {} /\ mixed = FALSE
      BY DEF Init
    <2> QED  BY <2>1, NoOpType DEF LateTypes, LateTypeOK, LateOpening
  <1> QED  BY <1>6, <1>7 DEF Types

\* Opening a file keeps the directory and the files in their types.
LEMMA OpenTypes ==
  ASSUME DaemonTypeOK, NEW n \in Names, OpenAppend(n) \/ Truncate(n)
  PROVE  /\ dir' \in [Names -> Inodes \cup {0}]
         /\ file' \in [Inodes -> Content]
         /\ Target(n) \in Inodes
  <1>1. Target(n) \in Inodes /\ Text("empty") \in Content
    BY TargetType, TextType DEF OpenAppend, Truncate
  <1> QED  BY <1>1 DEF OpenAppend, Truncate, DaemonTypeOK

LEMMA ReleaseTypes ==
  ASSUME Release
  PROVE  /\ step' \in Step /\ candidate' \in Config
         /\ prepared' \in Inodes \cup {0} /\ out' \in Inodes \cup {0}
  BY DefaultTypes DEF Release, Step

\* So does a write, a rename and a removal.
LEMMA FileTypes ==
  ASSUME DaemonTypeOK
  PROVE  /\ \A i \in Inodes \cup {0}, x \in Content :
               Write(i, x) => file' \in [Inodes -> Content] /\ unsynced' \in SUBSET Inodes
         /\ Rename => /\ dir' \in [Names -> Inodes \cup {0}] /\ file' \in [Inodes -> Content]
                       /\ prior' \in Inodes \cup {0}
         /\ RemoveTemp => /\ dir' \in [Names -> Inodes \cup {0}] /\ file' \in [Inodes -> Content]
                           /\ unsynced' \in SUBSET Inodes
  <1>0. /\ Text("torn") \in Content /\ Text("empty") \in Content
        /\ dir \in [Names -> Inodes \cup {0}] /\ file \in [Inodes -> Content]
        /\ unsynced \in SUBSET Inodes
        /\ \A n \in Names : dir[n] \in Inodes \cup {0}
    BY TextType DEF DaemonTypeOK
  <1>1. ASSUME NEW i \in Inodes \cup {0}, NEW x \in Content, Write(i, x)
        PROVE  file' \in [Inodes -> Content] /\ unsynced' \in SUBSET Inodes
    <2>1. PICK y \in Content : file' = [file EXCEPT ![i] = y]
      BY <1>0, <1>1 DEF Write
    <2>2. unsynced' = unsynced \cup ({i} \cap Live)
      BY <1>1 DEF Write
    <2>3. Live \in SUBSET Inodes
      BY <1>0 DEF Live
    <2> QED  BY <1>0, <2>1, <2>2, <2>3
  <1>2. ASSUME Rename
        PROVE  /\ dir' \in [Names -> Inodes \cup {0}] /\ file' \in [Inodes -> Content]
               /\ prior' \in Inodes \cup {0}
    BY <1>0, <1>2 DEF Rename, Forget, Names
  <1>3. ASSUME RemoveTemp
        PROVE  /\ dir' \in [Names -> Inodes \cup {0}] /\ file' \in [Inodes -> Content]
               /\ unsynced' \in SUBSET Inodes
    BY <1>0, <1>3 DEF RemoveTemp, Forget
  <1> QED  BY <1>1, <1>2, <1>3

LEMMA TypesAsk ==
  ASSUME DaemonTypes, AskThreshold \/ AskLogPath
  PROVE  DaemonTypes'
  <1> USE DEF DaemonTypes, DaemonTypeOK
  <1>1. CASE AskThreshold
    <2>1. candidate' \in Config
      BY <1>1 DEF AskThreshold, Config
    <2>2. /\ step' = "creating" /\ daemon = "up"
          /\ UNCHANGED <<daemon, config, prepared, out, diskVars, sink, trayVars>>
      BY <1>1 DEF AskThreshold
    <2>3. Opening'
      BY <2>2 DEF Opening
    <2>4. DaemonTypeOK'
      BY <2>1, <2>2 DEF diskVars, trayVars, Step
    <2> QED  BY <2>3, <2>4
  <1>2. CASE AskLogPath
    <2>1. PICK p \in LogPaths \cup {NoPath} :
            /\ p # config.log
            /\ candidate' = [config EXCEPT !.log = p]
            /\ step' = IF p = NoPath THEN "creating" ELSE "preparing"
      BY <1>2 DEF AskLogPath
    <2>2. candidate' \in Config /\ candidate'.log = p
      BY <2>1 DEF Config
    <2>3. daemon = "up" /\ UNCHANGED <<daemon, config, prepared, out, diskVars, sink, trayVars>>
      BY <1>2 DEF AskLogPath
    <2>4. Opening'
      BY <2>1, <2>2, <2>3 DEF Opening
    <2>5. DaemonTypeOK'
      BY <2>1, <2>2, <2>3 DEF diskVars, trayVars, Step
    <2> QED  BY <2>4, <2>5
  <1> QED  BY <1>1, <1>2

LEMMA TypesSetter ==
  ASSUME DaemonTypes, Setter
  PROVE  DaemonTypes'
  <1> USE DEF DaemonTypes, DaemonTypeOK
  <1>0. \A k \in {"empty", "torn", "log"} : Text(k) \in Content
    BY TextType
  <1>1. CASE Prepare
    <2>1. candidate.log \in Names
      BY <1>1 DEF Prepare, Opening, Names
    <2>2. /\ dir' \in [Names -> Inodes \cup {0}]
          /\ file' \in [Inodes -> Content]
          /\ Target(candidate.log) \in Inodes
      BY <1>1, <2>1, OpenTypes DEF Prepare
    <2> QED  BY <1>1, <2>2 DEF Prepare, trayVars, Opening, Step
  <1>2. CASE PrepareFails
    <2>1. candidate.log \in Names
      BY <1>2 DEF PrepareFails, Opening, Names
    <2>2. dir' \in [Names -> Inodes \cup {0}] /\ file' \in [Inodes -> Content]
      BY <1>2, <2>1, OpenTypes DEF PrepareFails
    <2> QED  BY <1>2, <2>2, ReleaseTypes DEF PrepareFails, trayVars, Opening, Release
  <1>3. CASE SaveCreates
    <2>1. TempFile \in Names
      BY DEF Names
    <2>2. /\ dir' \in [Names -> Inodes \cup {0}]
          /\ file' \in [Inodes -> Content]
          /\ Target(TempFile) \in Inodes
      BY <1>3, <2>1, OpenTypes DEF SaveCreates
    <2> QED  BY <1>3, <2>2 DEF SaveCreates, Truncate, trayVars, Opening, Step
  <1>4. CASE SaveWrites
    <2>1. file' \in [Inodes -> Content] /\ unsynced' \in SUBSET Inodes
      BY <1>4, TomlType, FileTypes DEF SaveWrites
    <2> QED  BY <1>4, <2>1 DEF SaveWrites, AfterWrite, trayVars, Opening, Step
  <1>5. CASE SaveSyncs
    BY <1>5 DEF SaveSyncs, trayVars, Opening, Step
  <1>6. CASE SaveRenames
    <2>1. /\ dir' \in [Names -> Inodes \cup {0}] /\ file' \in [Inodes -> Content]
          /\ prior' \in Inodes \cup {0}
      BY <1>6, FileTypes DEF SaveRenames
    <2> QED  BY <1>6, <2>1 DEF SaveRenames, trayVars, Opening, Step
  <1>7. CASE SaveFails
    <2>1. /\ dir' \in [Names -> Inodes \cup {0}] /\ file' \in [Inodes -> Content]
          /\ unsynced' \in SUBSET Inodes
      <3>1. CASE RemoveTemp
        BY <3>1, FileTypes
      <3>2. CASE UNCHANGED <<dir, unsynced>> /\ (UNCHANGED file \/ file' = [file EXCEPT ![out] = Text("torn")])
        BY <1>0, <3>2
      <3> QED  BY <1>7, <3>1, <3>2 DEF SaveFails
    <2> QED  BY <1>7, <2>1, ReleaseTypes DEF SaveFails, trayVars, Opening, Release
  <1>8. CASE Commit
    <2>1. candidate.threshold \in Thresholds
      BY DEF Config
    <2>2. /\ news' \in Seq(Thresholds \cup {Chatter})
          /\ Len(news') <= NewsCapacity
          /\ skipped' \in BOOLEAN
      BY <1>8, <2>1, PublishType DEF Commit
    <2> QED  BY <1>8, <2>2, ReleaseTypes DEF Commit, Replaced, diskVars, Opening, Release
  <1>9. CASE Drop
    BY <1>9, ReleaseTypes DEF Drop, diskVars, trayVars, Opening, Release
  <1> QED  BY <1>1, <1>2, <1>3, <1>4, <1>5, <1>6, <1>7, <1>8, <1>9 DEF Setter

LEMMA TypesLate ==
  ASSUME DaemonTypes, LateTypes, Late
  PROVE  DaemonTypes'
  <1>1. PICK k \in Threads : \E op \in {late[k]} :
            \/ LateOpens(op) \/ LateCreates(op) \/ LateWrites(op) \/ LateSyncs(op)
            \/ LateRenames(op) \/ LateRenameFails(op) \/ LateRemoves(op)
    BY DEF Late
  <1>2. PICK op \in {late[k]} :
            \/ LateOpens(op) \/ LateCreates(op) \/ LateWrites(op) \/ LateSyncs(op)
            \/ LateRenames(op) \/ LateRenameFails(op) \/ LateRemoves(op)
    BY <1>1
  <1>3. /\ op.candidate \in Config /\ op.out \in Inodes \cup {0}
        /\ op.step = "preparing" => op.candidate.log \in LogPaths
    <2>1. late[k] \in LateOps
      BY DEF LateTypes, LateTypeOK
    <2> QED  BY <1>2, <2>1 DEF LateTypes, LateOpening, LateOps
  <1>4. /\ dir' \in [Names -> Inodes \cup {0}] /\ file' \in [Inodes -> Content]
        /\ unsynced' \in SUBSET Inodes /\ prior' \in Inodes \cup {0}
    <2> USE DEF DaemonTypes
    <2>0. /\ dir \in [Names -> Inodes \cup {0}] /\ file \in [Inodes -> Content]
          /\ unsynced \in SUBSET Inodes /\ prior \in Inodes \cup {0}
      BY DEF DaemonTypeOK
    <2>1. CASE LateOpens(op)
      <3>1. op.candidate.log \in Names
        BY <1>3, <2>1 DEF LateOpens, Names
      <3> QED  BY <2>0, <2>1, <3>1, OpenTypes DEF LateOpens
    <2>2. CASE LateCreates(op)
      <3>1. TempFile \in Names
        BY DEF Names
      <3>2. unsynced' = unsynced \cup {Target(TempFile)}
        BY <2>2 DEF LateCreates, Truncate
      <3> QED  BY <2>0, <2>2, <3>1, <3>2, OpenTypes DEF LateCreates
    <2>3. CASE LateWrites(op)
      <3>1. PICK x \in Content : Write(op.out, x)
        BY <1>3, <2>3, TomlType, TextType DEF LateWrites
      <3> QED  BY <1>3, <2>0, <2>3, <3>1, FileTypes DEF LateWrites
    <2>4. CASE LateSyncs(op) \/ LateRenameFails(op)
      BY <2>0, <2>4 DEF LateSyncs, LateRenameFails, diskVars
    <2>5. CASE LateRenames(op)
      BY <2>0, <2>5, FileTypes DEF LateRenames
    <2>6. CASE LateRemoves(op)
      BY <2>0, <2>6, FileTypes DEF LateRemoves
    <2> QED  BY <1>2, <2>1, <2>2, <2>3, <2>4, <2>5, <2>6
  <1>5. UNCHANGED <<daemon, config, saveVars, sink, trayVars>>
    BY DEF Late
  <1> QED  BY <1>4, <1>5 DEF DaemonTypes, DaemonTypeOK, Opening, saveVars, trayVars

LEMMA TypesTray ==
  ASSUME DaemonTypes, Tray
  PROVE  DaemonTypes'
  <1>0. 10 \in Thresholds /\ NewsCapacity \in Nat
    BY ThresholdsAssumption, NewsCapacityAssumption
  <1> USE DEF DaemonTypes, DaemonTypeOK, Opening
  <1>1. CASE TrayConsumes
    <2>1. news' \in Seq(Thresholds \cup {Chatter}) /\ Len(news') = Len(news) - 1
          /\ Head(news) \in Thresholds \cup {Chatter} /\ Len(news) \in Nat
      BY <1>1 DEF TrayConsumes
    <2>2. Len(news') <= NewsCapacity /\ shown' \in Thresholds
      BY <1>0, <1>1, <2>1 DEF TrayConsumes
    <2> QED  BY <1>1, <2>1, <2>2 DEF TrayConsumes, saveVars, diskVars
  <1>2. CASE TrayDisconnects
    <2>1. news' \in Seq(Thresholds \cup {Chatter}) /\ Len(news') <= NewsCapacity
      BY <1>0, <1>2 DEF TrayDisconnects, TrayDown
    <2> QED  BY <1>0, <1>2, <2>1 DEF TrayDisconnects, TrayDown, saveVars, diskVars
  <1>3. CASE TraySubscribes \/ TrayReads \/ TrayShowsBattery
    BY <1>3 DEF TraySubscribes, TrayReads, TrayShowsBattery, Config, saveVars, diskVars
  <1> QED  BY <1>1, <1>2, <1>3 DEF Tray

LEMMA LoadedType == ASSUME DaemonTypeOK, dir[ConfigFile] # 0 PROVE Loaded \in Config
  <1>1. file[dir[ConfigFile]] \in Content
    BY DEF DaemonTypeOK, Names
  <1> QED  BY <1>1, ContentFields, DefaultTypes DEF Loaded

LEMMA TypesDaemon ==
  ASSUME DaemonTypes, Crash \/ StartFresh \/ Start
  PROVE  DaemonTypes'
  <1>0. /\ \A k \in {"empty", "torn", "log"} : Text(k) \in Content
        /\ Default \in Config /\ 10 \in Thresholds /\ NewsCapacity \in Nat
        /\ Toml(Default) \in Content
    BY TextType, TomlType, DefaultTypes, ThresholdsAssumption, NewsCapacityAssumption
  <1> USE DEF DaemonTypes, DaemonTypeOK
  <1>1. CASE Crash
    <2>1. file' \in [Inodes -> Content]
      BY <1>0, <1>1 DEF Crash
    <2>2. dir' \in [Names -> Inodes \cup {0}]
      BY <1>1 DEF Crash
    <2>3. news' \in Seq(Thresholds \cup {Chatter}) /\ Len(news') <= NewsCapacity
      BY <1>0, <1>1 DEF Crash, TrayDown
    <2> QED  BY <1>0, <1>1, <2>1, <2>2, <2>3, ReleaseTypes DEF Crash, TrayDown, Opening, Release
  <1>2. CASE StartFresh
    BY <1>0, <1>2, FreshSpare DEF StartFresh, saveVars, trayVars, Opening, Step
  <1>3. CASE Start
    <2>1. Loaded \in Config /\ config' = Loaded
      BY <1>3, LoadedType DEF Start
    <2>2. /\ dir' \in [Names -> Inodes \cup {0}]
          /\ file' \in [Inodes -> Content]
          /\ sink' \in Inodes \cup {0}
      <3>1. CASE Loaded.log = NoPath
        BY <1>3, <3>1 DEF Start
      <3>2. CASE Loaded.log # NoPath
        <4>1. Loaded.log \in Names /\ OpenAppend(Loaded.log) /\ sink' = Target(Loaded.log)
          BY <1>3, <2>1, <3>2 DEF Start, Config, Names
        <4> QED  BY <4>1, OpenTypes
      <3> QED  BY <3>1, <3>2
    <2> QED  BY <1>3, <2>1, <2>2 DEF Start, saveVars, trayVars, Opening
  <1> QED  BY <1>1, <1>2, <1>3

\* What a thread may be left with, and what it is left with in the end.
LEMMA LeaveTypes ==
  ASSUME DaemonTypes, LateTypes, NEW at \in (Step \ {"committing"}) \cup {"removing"}, Leave(at),
         at = "preparing" => candidate.log \in LogPaths \ {ConfigFile}
  PROVE  late' \in [Threads -> LateOps] /\ LateOpening' /\ mixed' \in BOOLEAN
  <1>1. PICK k \in Threads : late' = [late EXCEPT ![k] = Operation(at)]
    BY DEF Leave
  <1>2. /\ Operation(at) \in LateOps /\ Operation(at).step = at
        /\ at = "preparing" => Operation(at).candidate = candidate
    BY DefaultTypes DEF Operation, LateOps, DaemonTypes, DaemonTypeOK
  <1>3. late \in [Threads -> LateOps]
    BY DEF LateTypes, LateTypeOK
  <1>4. LateOpening'
    <2> SUFFICES ASSUME NEW j \in Threads, late'[j].step = "preparing"
                 PROVE  late'[j].candidate.log \in LogPaths \ {ConfigFile}
      BY DEF LateOpening
    <2>1. CASE j = k
      BY <1>1, <1>2, <1>3, <2>1
    <2>2. CASE j # k
      BY <1>1, <1>3, <2>2 DEF LateTypes, LateOpening
    <2> QED  BY <2>1, <2>2
  <1>5. mixed' \in BOOLEAN
    BY DEF Leave
  <1> QED  BY <1>1, <1>2, <1>3, <1>4, <1>5

LEMMA LateTypesNext ==
  ASSUME DaemonTypes, LateTypes, [Next]_vars
  PROVE  LateTypes'
  <1>0. late \in [Threads -> LateOps] /\ LateOpening /\ stray \in SUBSET Config /\ mixed \in BOOLEAN
    BY DEF LateTypes, LateTypeOK
  <1> SUFFICES /\ late' \in [Threads -> LateOps] /\ LateOpening'
               /\ stray' \in SUBSET Config /\ mixed' \in BOOLEAN
    BY DEF LateTypes, LateTypeOK
  <1>1. CASE UNCHANGED lateVars
    BY <1>0, <1>1 DEF lateVars, LateOpening
  <1>2. CASE SaveCreates \/ SaveRenames \/ Start
    <2>1. late' = late /\ mixed' \in BOOLEAN /\ stray' \in {stray, {}}
      BY <1>0, <1>2 DEF SaveCreates, SaveRenames, Start
    <2> QED  BY <1>0, <2>1 DEF LateOpening
  <1>3. CASE SaveFails
    <2>1. stray' = stray
      BY <1>3 DEF SaveFails
    <2>2. CASE UNCHANGED <<late, mixed>>
      BY <1>0, <2>1, <2>2 DEF LateOpening
    <2>3. CASE Leave("removing")
      BY <1>0, <2>1, <2>3, LeaveTypes
    <2> QED  BY <1>3, <2>2, <2>3 DEF SaveFails
  <1>4. CASE Drop
    <2>1. stray' \in SUBSET Config
      BY <1>0, <1>4 DEF Drop, DaemonTypes, DaemonTypeOK
    <2>2. CASE UNCHANGED <<late, mixed>>
      BY <1>0, <2>1, <2>2 DEF LateOpening
    <2>3. CASE Leave(step) /\ step # "committing" /\ ~(step = "preparing" /\ candidate.log \in ReservedNames)
      <3>1. step \in Step \ {"committing"}
        BY <2>3 DEF DaemonTypes, DaemonTypeOK
      <3>2. step = "preparing" => candidate.log \in LogPaths \ {ConfigFile}
        BY <2>3 DEF DaemonTypes, Opening, ReservedNames, ConfigFile
      <3> QED  BY <2>1, <2>3, <3>1, <3>2, LeaveTypes
    <2> QED  BY <1>4, <2>2, <2>3 DEF Drop
  <1>5. CASE Late
    <2>1. PICK k \in Threads :
             /\ late' = [late EXCEPT ![k] = NoOp]
             /\ stray' \in {stray, {late[k].candidate}}
      BY <1>5 DEF Late, LateOpens, LateCreates, LateWrites, LateSyncs, LateRenames,
         LateRenameFails, LateRemoves
    <2>2. mixed' = mixed
      BY <1>5 DEF Late
    <2>3. late[k].candidate \in Config
      BY <1>0 DEF LateOps
    <2>4. LateOpening'
      BY <1>0, <2>1, NoOpType DEF LateOpening
    <2> QED  BY <1>0, <2>1, <2>2, <2>3, <2>4, NoOpType
  <1>6. CASE Crash
    <2>1. late' = [k \in Threads |-> NoOp] /\ stray' = {} /\ mixed' = mixed
      BY <1>6 DEF Crash
    <2> QED  BY <1>0, <2>1, NoOpType DEF LateOpening
  <1>7. CASE \/ AskThreshold \/ AskLogPath \/ Prepare \/ PrepareFails \/ SaveWrites \/ SaveSyncs
             \/ Commit \/ LogRecord \/ OtherEvent \/ Tray \/ StartFresh \/ UNCHANGED vars
    <2>1. UNCHANGED lateVars
      BY <1>7 DEF AskThreshold, AskLogPath, Prepare, PrepareFails, SaveWrites, SaveSyncs,
         Commit, LogRecord, OtherEvent, Tray, TraySubscribes, TrayReads, TrayShowsBattery,
         TrayConsumes, TrayDisconnects, StartFresh, vars
    <2> QED  BY <1>1, <2>1
  <1> QED  BY <1>2, <1>3, <1>4, <1>5, <1>6, <1>7 DEF Next, Ask, Setter

LEMMA TypesNext ==
  ASSUME Types, [Next]_vars
  PROVE  Types'
  <1>0. DaemonTypes /\ LateTypes
    BY DEF Types
  <1> SUFFICES DaemonTypes'
    BY <1>0, LateTypesNext DEF Types
  <1>1. CASE LogRecord
    <2>1. file' \in [Inodes -> Content]
      BY <1>0, <1>1, TextType DEF LogRecord, DaemonTypes, DaemonTypeOK
    <2> QED  BY <1>0, <1>1, <2>1 DEF LogRecord, saveVars, trayVars, DaemonTypes, DaemonTypeOK, Opening
  <1>2. CASE OtherEvent
    <2>1. /\ news' \in Seq(Thresholds \cup {Chatter})
          /\ Len(news') <= NewsCapacity
          /\ skipped' \in BOOLEAN
      BY <1>0, <1>2, PublishType DEF OtherEvent, DaemonTypes
    <2> QED  BY <1>0, <1>2, <2>1 DEF OtherEvent, saveVars, diskVars, DaemonTypes, DaemonTypeOK, Opening
  <1>3. CASE UNCHANGED vars
    BY <1>0, <1>3 DEF vars, saveVars, diskVars, trayVars, DaemonTypes, DaemonTypeOK, Opening
  <1> QED  BY <1>0, <1>1, <1>2, <1>3, TypesAsk, TypesSetter, TypesLate, TypesTray, TypesDaemon
           DEF Next, Ask

\* The variables stay in their types and the event channel within its capacity.
THEOREM ConfigTypeCorrect == Spec => []TypeOK
  <1>1. Types /\ calls \in Nat => TypeOK
    BY DEF Types, DaemonTypes, LateTypes, TypeOK
  <1>2. Init => calls \in Nat
    BY DEF Init
  <1>3. calls \in Nat /\ [Next]_vars => (calls \in Nat)'
    BY DEF Next, Ask, vars
  <1>4. Types /\ [Next]_vars => Types'
    BY TypesNext
  <1> QED  BY <1>1, <1>2, <1>3, <1>4, TypesInit, PTL DEF Spec

-----------------------------------------------------------------------------
(* The tray. *)

\* The last change of the configuration that the stream holds is the one in force.
LastIsCurrent ==
    ~skipped => \A k \in 1..Len(news) :
        news[k] # Chatter /\ (\A j \in 1..Len(news) : j > k => news[j] = Chatter)
            => news[k] = config.threshold

NothingNew == \A k \in 1..Len(news) : news[k] = Chatter

\* Without a change to come, the tray shows the threshold from its first answer on.
Informed == tray \in {"informed", "consuming"} /\ ~skipped /\ NothingNew => shown = config.threshold

\* Who listens to nothing has nothing to hear, and nobody listens to a daemon that is down.
Deaf ==
    /\ tray = "down" => news = << >>
    /\ daemon = "down" => tray = "down"

TrayInv == Types /\ LastIsCurrent /\ Informed /\ Deaf

\* A publication that does not count as a skip leaves all changes in the stream.
LEMMA PublishKeepsChanges ==
  ASSUME DaemonTypeOK, NEW e \in Thresholds \cup {Chatter}, Publish(e), Listening, ~skipped'
  PROVE  /\ ~skipped
         /\ Len(news') \in Nat \ {0}
         /\ news'[Len(news')] = e
         /\ \E d \in {0, 1} :
              /\ Len(news') + d = Len(news) + 1
              /\ d = 1 => Len(news) > 0 /\ news[1] = Chatter
              /\ \A k \in 1..Len(news') : k < Len(news') => news'[k] = news[k + d]
  <1>1. /\ news' = Append(Kept, e) /\ ~skipped /\ (Kept = news \/ Head(news) = Chatter)
        /\ news \in Seq(Thresholds \cup {Chatter})
        /\ NewsCapacity \in Nat \ {0} /\ Len(news) <= NewsCapacity
    BY NewsCapacityAssumption DEF Publish, DaemonTypeOK
  <1>2. CASE Kept = news
    <2>1. news' = Append(news, e)
      BY <1>1, <1>2
    <2>2. /\ Len(news') = Len(news) + 1 /\ Len(news) \in Nat /\ news'[Len(news) + 1] = e
          /\ \A k \in 1..Len(news) : news'[k] = news[k]
      BY <1>1, <2>1
    <2>3. \A k \in 1..Len(news') : k < Len(news') => news'[k] = news[k + 0]
      BY <2>2
    <2>4. Len(news') + 0 = Len(news) + 1 /\ Len(news') \in Nat \ {0} /\ news'[Len(news')] = e
      BY <2>2
    <2> QED  BY <1>1, <2>3, <2>4
  <1>3. CASE Kept # news
    <2>1. /\ news' = Append(Tail(news), e) /\ Head(news) = Chatter /\ ~(Len(news) < NewsCapacity)
      BY <1>1, <1>3 DEF Kept
    <2>2. Len(news) \in Nat \ {0} /\ news # << >>
      BY <1>1, <2>1
    <2>3. /\ Tail(news) \in Seq(Thresholds \cup {Chatter})
          /\ Len(Tail(news)) = Len(news) - 1
          /\ \A k \in 1..Len(news) - 1 : Tail(news)[k] = news[k + 1]
          /\ news[1] = Chatter
      BY <1>1, <2>1, <2>2
    <2>4. /\ Len(news') = Len(news) /\ news'[Len(news)] = e
          /\ \A k \in 1..Len(news) - 1 : news'[k] = Tail(news)[k]
      BY <2>1, <2>2, <2>3
    <2>5. \A k \in 1..Len(news') : k < Len(news') => news'[k] = news[k + 1]
      BY <2>2, <2>3, <2>4
    <2>6. Len(news') + 1 = Len(news) + 1 /\ Len(news') \in Nat \ {0} /\ news'[Len(news')] = e
      BY <2>2, <2>4
    <2> QED  BY <1>1, <2>2, <2>3, <2>5, <2>6
  <1> QED  BY <1>2, <1>3

LEMMA CommitTray ==
  ASSUME TrayInv, Commit
  PROVE  (LastIsCurrent /\ Informed /\ Deaf)'
  <1>1. candidate.threshold \in Thresholds /\ Chatter \notin Thresholds
    BY DefaultTypes DEF TrayInv, Types, DaemonTypes, DaemonTypeOK, Config
  <1>2. Publish(candidate.threshold) /\ config' = candidate
        /\ tray' = tray /\ shown' = shown /\ daemon' = daemon
    BY DEF Commit
  <1>3. CASE ~Listening
    <2>1. tray' = "down" /\ news' = << >>
      BY <1>2, <1>3 DEF Listening, Publish, TrayInv, Deaf
    <2> QED  BY <2>1 DEF LastIsCurrent, Informed, Deaf
  <1>4. CASE Listening /\ ~skipped'
    <2>1. /\ Len(news') \in Nat \ {0}
          /\ news'[Len(news')] = candidate.threshold
      BY <1>1, <1>2, <1>4, PublishKeepsChanges DEF TrayInv, Types, DaemonTypes
    <2>2. ~NothingNew'
      BY <1>1, <2>1 DEF NothingNew
    <2>3. ASSUME NEW k \in 1..Len(news'), news'[k] # Chatter,
                 \A j \in 1..Len(news') : j > k => news'[j] = Chatter
          PROVE  news'[k] = config'.threshold
      <3>1. ~(Len(news') > k)
        BY <1>1, <2>1, <2>3
      <3>2. k = Len(news')
        BY <2>1, <3>1
      <3> QED  BY <1>2, <2>1, <3>2
    <2>4. tray' # "down"
      BY <1>2, <1>4 DEF Listening
    <2> QED  BY <1>2, <2>2, <2>3, <2>4 DEF LastIsCurrent, Informed, Deaf, TrayInv
  <1>5. CASE Listening /\ skipped'
    BY <1>2, <1>5 DEF Listening, LastIsCurrent, Informed, Deaf, TrayInv
  <1>6. skipped' \in BOOLEAN
    BY <1>1, <1>2, PublishType DEF TrayInv, Types, DaemonTypes
  <1> QED  BY <1>3, <1>4, <1>5, <1>6

LEMMA OtherEventTray ==
  ASSUME TrayInv, OtherEvent
  PROVE  (LastIsCurrent /\ Informed /\ Deaf)'
  <1>1. /\ Publish(Chatter) /\ Listening
        /\ config' = config /\ tray' = tray /\ shown' = shown /\ tray # "down" /\ daemon' = daemon
    BY DEF OtherEvent, Listening
  <1>2. skipped' \in BOOLEAN
    BY <1>1, PublishType DEF TrayInv, Types, DaemonTypes
  <1>3. CASE ~skipped'
    <2>1. /\ ~skipped /\ Len(news') \in Nat \ {0} /\ news'[Len(news')] = Chatter
          /\ \E d \in {0, 1} :
               /\ Len(news') + d = Len(news) + 1
               /\ d = 1 => Len(news) > 0 /\ news[1] = Chatter
               /\ \A k \in 1..Len(news') : k < Len(news') => news'[k] = news[k + d]
      BY <1>1, <1>3, PublishKeepsChanges DEF TrayInv, Types, DaemonTypes
    <2>2. PICK d \in {0, 1} :
               /\ Len(news') + d = Len(news) + 1
               /\ d = 1 => Len(news) > 0 /\ news[1] = Chatter
               /\ \A k \in 1..Len(news') : k < Len(news') => news'[k] = news[k + d]
      BY <2>1
    <2>3. Len(news) \in Nat
      BY DEF TrayInv, Types, DaemonTypes, DaemonTypeOK
    <2>4. ASSUME NEW i \in 1..Len(news), i > d
          PROVE  i - d \in 1..Len(news') /\ i - d < Len(news') /\ news'[i - d] = news[i]
      <3>1. i - d \in 1..Len(news') /\ i - d < Len(news')
        BY <2>1, <2>2, <2>3, <2>4
      <3>2. (i - d) + d = i
        BY <2>2
      <3> QED  BY <2>2, <3>1, <3>2
    <2>5. NothingNew' => NothingNew
      <3> SUFFICES ASSUME NothingNew', NEW i \in 1..Len(news)  PROVE news[i] = Chatter
        BY DEF NothingNew
      <3>1. CASE i > d
        BY <2>4, <3>1 DEF NothingNew
      <3>2. CASE ~(i > d)
        <4>1. d = 1 /\ i = 1
          BY <2>2, <2>3, <3>2
        <4> QED  BY <2>2, <4>1
      <3> QED  BY <3>1, <3>2
    <2>6. ASSUME NEW k \in 1..Len(news'), news'[k] # Chatter,
                 \A j \in 1..Len(news') : j > k => news'[j] = Chatter
          PROVE  news'[k] = config'.threshold
      <3>1. k < Len(news')
        BY <2>1, <2>6
      <3>2. news'[k] = news[k + d] /\ k + d \in 1..Len(news)
        BY <2>1, <2>2, <2>3, <3>1
      <3>3. ASSUME NEW i \in 1..Len(news), i > k + d  PROVE news[i] = Chatter
        <4>1. i > d /\ i - d > k
          BY <2>2, <2>3, <3>3
        <4>2. i - d \in 1..Len(news') /\ news'[i - d] = news[i]
          BY <2>4, <4>1
        <4> QED  BY <2>6, <4>1, <4>2
      <3> QED  BY <1>1, <2>1, <2>6, <3>2, <3>3 DEF TrayInv, LastIsCurrent
    <2> QED  BY <1>1, <2>1, <2>5, <2>6 DEF TrayInv, LastIsCurrent, Informed, Deaf
  <1>4. CASE skipped'
    BY <1>1, <1>4 DEF LastIsCurrent, Informed, Deaf, TrayInv
  <1> QED  BY <1>2, <1>3, <1>4

LEMMA ConsumesTray ==
  ASSUME TrayInv, TrayConsumes
  PROVE  (LastIsCurrent /\ Informed /\ Deaf)'
  <1>1. /\ tray' = "consuming" /\ tray = "consuming" /\ config' = config /\ skipped' = skipped
        /\ daemon' = daemon
        /\ news' = Tail(news) /\ news # << >>
        /\ shown' = IF Head(news) = Chatter THEN shown ELSE Head(news)
    BY DEF TrayConsumes
  <1>2. news \in Seq(Thresholds \cup {Chatter})
    BY DEF TrayInv, Types, DaemonTypes, DaemonTypeOK
  <1>3. /\ Len(news) \in Nat \ {0} /\ Len(news') = Len(news) - 1 /\ Head(news) = news[1]
        /\ \A k \in 1..Len(news) - 1 : news'[k] = news[k + 1]
    BY <1>1, <1>2
  <1>4. \A i \in 1..Len(news) : i > 1 => i - 1 \in 1..Len(news') /\ news'[i - 1] = news[i]
    BY <1>3
  <1>5. LastIsCurrent'
    <2> SUFFICES ASSUME ~skipped, NEW k \in 1..Len(news'), news'[k] # Chatter,
                        \A j \in 1..Len(news') : j > k => news'[j] = Chatter
                 PROVE  news'[k] = config.threshold
      BY <1>1 DEF LastIsCurrent
    <2>1. news'[k] = news[k + 1] /\ k + 1 \in 1..Len(news)
      BY <1>3
    <2>2. ASSUME NEW i \in 1..Len(news), i > k + 1  PROVE news[i] = Chatter
      <3>1. i > 1 /\ i - 1 > k
        BY <1>3, <2>2
      <3> QED  BY <1>4, <3>1
    <2> QED  BY <2>1, <2>2 DEF TrayInv, LastIsCurrent
  <1>6. Informed'
    <2> SUFFICES ASSUME ~skipped, NothingNew'  PROVE shown' = config.threshold
      BY <1>1 DEF Informed
    <2>1. \A i \in 1..Len(news) : i > 1 => news[i] = Chatter
      BY <1>4 DEF NothingNew
    <2>2. CASE Head(news) = Chatter
      <3>1. NothingNew
        BY <1>3, <2>1, <2>2 DEF NothingNew
      <3> QED  BY <1>1, <2>2, <3>1 DEF TrayInv, Informed
    <2>3. CASE Head(news) # Chatter
      <3>1. news[1] = config.threshold
        BY <1>3, <2>1, <2>3 DEF TrayInv, LastIsCurrent
      <3> QED  BY <1>1, <1>3, <2>3, <3>1
    <2> QED  BY <2>2, <2>3
  <1>7. Deaf'
    BY <1>1 DEF Deaf, TrayInv
  <1> QED  BY <1>5, <1>6, <1>7

LEMMA TrayInvNext ==
  ASSUME TrayInv, [Next]_vars
  PROVE  TrayInv'
  <1>1. Types'
    BY TypesNext DEF TrayInv
  <1> SUFFICES (LastIsCurrent /\ Informed /\ Deaf)'
    BY <1>1 DEF TrayInv
  <1>2. CASE AskThreshold \/ AskLogPath \/ Prepare \/ PrepareFails \/ SaveCreates \/ SaveWrites
             \/ SaveSyncs \/ SaveRenames \/ SaveFails \/ Drop \/ Late \/ LogRecord \/ UNCHANGED vars
    <2>1. UNCHANGED trayVars /\ config' = config /\ daemon' = daemon
      BY <1>2 DEF AskThreshold, AskLogPath, Prepare, PrepareFails, SaveCreates, SaveWrites,
         SaveSyncs, SaveRenames, SaveFails, Drop, Late, LogRecord, vars
    <2> QED  BY <2>1 DEF trayVars, TrayInv, LastIsCurrent, Informed, NothingNew, Deaf
  <1>3. CASE Crash \/ TrayDisconnects
    BY <1>3 DEF Crash, TrayDisconnects, TrayDown, LastIsCurrent, Informed, Deaf
  <1>4. CASE TraySubscribes
    <2>1. news' = << >> /\ tray' = "subscribed" /\ daemon' = "up"
      BY <1>4 DEF TraySubscribes, TrayInv, Deaf
    <2> QED  BY <2>1 DEF LastIsCurrent, Informed, Deaf
  <1>5. CASE TrayReads
    BY <1>5 DEF TrayReads, TrayInv, LastIsCurrent, Informed, NothingNew, Deaf
  <1>6. CASE TrayShowsBattery
    BY <1>6 DEF TrayShowsBattery, TrayInv, LastIsCurrent, Informed, NothingNew, Deaf
  <1>7. CASE StartFresh \/ Start
    <2>1. tray' = "down" /\ news' = << >>
      BY <1>7 DEF StartFresh, Start, trayVars, TrayInv, Deaf
    <2> QED  BY <2>1 DEF LastIsCurrent, Informed, Deaf
  <1> QED  BY <1>2, <1>3, <1>4, <1>5, <1>6, <1>7, CommitTray, OtherEventTray, ConsumesTray
           DEF Next, Ask, Setter, Tray

\* A tray that has read everything works with the daemon's threshold, however its
\* snapshot and its stream interleave with changes, unless its stream skipped a change.
THEOREM CaughtUpCorrect == Spec => []CaughtUp
  <1>1. Init => TrayInv
    BY TypesInit DEF Init, TrayInv, LastIsCurrent, Informed, Deaf
  <1>2. TrayInv => CaughtUp
    BY DEF TrayInv, Informed, NothingNew, CaughtUp
  <1> QED  BY <1>1, <1>2, TrayInvNext, PTL DEF Spec

-----------------------------------------------------------------------------
(* The log.  What follows holds whatever dropped calls left. *)

\* Two names never stand for the same file, and no name for the file replaced last.
Named ==
    /\ \A m, n \in Names : m # n /\ dir[m] # 0 => dir[m] # dir[n]
    /\ prior # 0 => \A n \in Names : dir[n] # prior

\* What Commit puts in the place of the log is the file of the path it puts in force.
Opened ==
    IF step \in {"free", "preparing"}
    THEN prepared = 0
    ELSE /\ candidate.log # ConfigFile
         /\ candidate.log # config.log =>
                IF candidate.log = NoPath THEN prepared = 0
                ELSE prepared # 0 /\ prepared = dir[candidate.log]

\* A daemon that runs has a daemon.toml and the log it should have.
Running ==
    daemon = "up" =>
        /\ dir[ConfigFile] # 0
        /\ LogFollowsConfig
        /\ config.log # ConfigFile
        /\ config.log # NoPath => dir[config.log] # 0

\* Nothing goes on while the daemon is down.
Stopped ==
    daemon = "down" =>
        /\ sink = 0 /\ prior = 0 /\ unsynced = {} /\ stray = {}
        /\ \A k \in Threads : late[k] = NoOp

LogInv == Types /\ Named /\ Opened /\ Running /\ Stopped

LEMMA NamesKnown ==
  ASSUME LogIsNoTemp
  PROVE  /\ ConfigFile \in Names /\ TempFile \in Names /\ ConfigFile # TempFile
         /\ LogPaths \subseteq Names /\ TempFile \notin LogPaths
         /\ NoPath \notin LogPaths /\ NoPath # ConfigFile /\ NoPath # TempFile
  BY LogPathsAssumption DEF LogIsNoTemp, Names, ConfigFile, TempFile, NoPath

\* What a name is opened as is the file of no other name.
LEMMA TargetUnused ==
  ASSUME DaemonTypeOK, Named, NEW n \in Names, CanOpen(n)
  PROVE  /\ Target(n) \in Inodes /\ Target(n) # 0
         /\ \A m \in Names : m # n => dir[m] # Target(n)
         /\ prior # Target(n)
         /\ dir[n] = 0 => Target(n) \notin Used
         /\ dir[n] # 0 => Target(n) = dir[n]
  <1>1. CASE dir[n] = 0
    <2>1. Target(n) = Fresh /\ Fresh \in Spare
      BY <1>1, FreshSpare DEF CanOpen, Target
    <2>2. \A m \in Names : dir[m] \in Used
      BY DEF Used
    <2>3. prior \in Used
      BY DEF Used
    <2> QED  BY <1>1, <2>1, <2>2, <2>3, DefaultTypes DEF Spare
  <1>2. CASE dir[n] # 0
    <2>1. Target(n) = dir[n]
      BY <1>2 DEF Target
    <2> QED  BY <1>2, <2>1 DEF Named, DaemonTypeOK
  <1> QED  BY <1>1, <1>2

\* Opening a file touches no other.
LEMMA OpenElsewhere ==
  ASSUME DaemonTypeOK, Named, NEW n \in Names, OpenAppend(n) \/ Truncate(n), prior' = prior
  PROVE  /\ Named'
         /\ dir'[n] = Target(n) /\ Target(n) \in Inodes /\ Target(n) # 0
         /\ \A m \in Names : m # n =>
                dir'[m] = dir[m] /\ (dir[m] # 0 => file'[dir[m]] = file[dir[m]])
         /\ prior # 0 => file'[prior] = file[prior]
  <1>1. /\ Target(n) \in Inodes /\ Target(n) # 0
        /\ \A m \in Names : m # n => dir[m] # Target(n)
        /\ prior # Target(n)
    BY TargetUnused DEF OpenAppend, Truncate
  <1>2. dir' = [dir EXCEPT ![n] = Target(n)]
    BY DEF OpenAppend, Truncate
  <1>3. dir'[n] = Target(n) /\ \A m \in Names : m # n => dir'[m] = dir[m]
    BY <1>2 DEF DaemonTypeOK
  <1>4. \A i \in Inodes : i # Target(n) => file'[i] = file[i]
    <2>1. CASE Truncate(n)
      BY <2>1 DEF Truncate, DaemonTypeOK
    <2>2. CASE OpenAppend(n) /\ dir[n] = 0
      BY <2>2 DEF OpenAppend, Target, DaemonTypeOK
    <2>3. CASE OpenAppend(n) /\ dir[n] # 0
      BY <2>3 DEF OpenAppend
    <2> QED  BY <2>1, <2>2, <2>3
  <1>5. Named'
    <2>1. \A m, k \in Names : m # k /\ dir'[m] # 0 => dir'[m] # dir'[k]
      BY <1>1, <1>3 DEF Named
    <2>2. prior # 0 => \A m \in Names : dir'[m] # prior
      BY <1>1, <1>3 DEF Named
    <2> QED  BY <2>1, <2>2 DEF Named
  <1>6. prior \in Inodes \cup {0} /\ \A m \in Names : dir[m] \in Inodes \cup {0}
    BY DEF DaemonTypeOK
  <1> QED  BY <1>1, <1>3, <1>4, <1>5, <1>6

\* What a step may do to the directory: a log keeps its file, and daemon.toml has one.
Orderly ==
    /\ Named'
    /\ \A n \in LogPaths \ {ConfigFile} : dir[n] # 0 => dir'[n] = dir[n]
    /\ dir[ConfigFile] # 0 => dir'[ConfigFile] # 0

LEMMA OpenOrderly ==
  ASSUME DaemonTypeOK, Named, NEW n \in Names, OpenAppend(n) \/ Truncate(n), prior' = prior
  PROVE  Orderly
  <1>1. /\ Named' /\ dir'[n] = Target(n) /\ Target(n) # 0
        /\ \A m \in Names : m # n => dir'[m] = dir[m]
    BY OpenElsewhere
  <1>2. dir[n] # 0 => Target(n) = dir[n]
    BY DEF Target
  <1>3. LogPaths \subseteq Names /\ ConfigFile \in Names
    BY DEF Names
  <1> QED  BY <1>1, <1>2, <1>3 DEF Orderly

\* A rename frees the name of the temporary file and moves its file to daemon.toml.
LEMMA RenameNames ==
  ASSUME LogIsNoTemp, DaemonTypeOK, Rename
  PROVE  /\ dir[TempFile] # 0 /\ dir'[ConfigFile] = dir[TempFile] /\ dir'[TempFile] = 0
         /\ \A n \in Names \ {ConfigFile, TempFile} : dir'[n] = dir[n]
         /\ prior' = dir[ConfigFile]
         /\ \A i \in Inodes : i # prior => file'[i] = file[i]
  BY NamesKnown DEF Rename, Forget, DaemonTypeOK

LEMMA RenameOrderly ==
  ASSUME LogIsNoTemp, DaemonTypeOK, Named, Rename
  PROVE  Orderly
  <1>1. /\ dir[TempFile] # 0 /\ dir'[ConfigFile] = dir[TempFile] /\ dir'[TempFile] = 0
        /\ \A n \in Names \ {ConfigFile, TempFile} : dir'[n] = dir[n]
        /\ prior' = dir[ConfigFile]
    BY RenameNames
  <1>2. \A m, n \in Names : m # n /\ dir[m] # 0 => dir[m] # dir[n]
    BY DEF Named
  <1>3. \A m, n \in Names : m # n /\ dir'[m] # 0 => dir'[m] # dir'[n]
    <2> SUFFICES ASSUME NEW m \in Names, NEW n \in Names, m # n, dir'[m] # 0
                 PROVE  dir'[m] # dir'[n]
      OBVIOUS
    <2>1. CASE m = ConfigFile
      <3>1. CASE n = TempFile
        BY <1>1, <2>1, <3>1
      <3>2. CASE n # TempFile
        BY <1>1, <1>2, <2>1, <3>2, NamesKnown
      <3> QED  BY <3>1, <3>2
    <2>2. CASE m # ConfigFile
      <3>1. m # TempFile /\ dir'[m] = dir[m]
        BY <1>1, <2>2
      <3>2. CASE n = ConfigFile
        BY <1>1, <1>2, <3>1, <3>2, NamesKnown
      <3>3. CASE n = TempFile
        BY <1>1, <3>3
      <3>4. CASE n \notin {ConfigFile, TempFile}
        BY <1>1, <1>2, <3>1, <3>4
      <3> QED  BY <3>2, <3>3, <3>4
    <2> QED  BY <2>1, <2>2
  <1>4. prior' # 0 => \A n \in Names : dir'[n] # prior'
    BY <1>1, <1>2, NamesKnown
  <1> QED  BY <1>1, <1>3, <1>4, NamesKnown DEF Orderly, Named

\* A removal frees the name of the temporary file.
LEMMA RemoveNames ==
  ASSUME LogIsNoTemp, DaemonTypeOK, RemoveTemp
  PROVE  /\ dir'[TempFile] = 0
         /\ \A n \in Names \ {TempFile} : dir'[n] = dir[n]
         /\ \A i \in Inodes : i # dir[TempFile] => file'[i] = file[i]
  BY NamesKnown DEF RemoveTemp, Forget, DaemonTypeOK

LEMMA RemoveOrderly ==
  ASSUME LogIsNoTemp, DaemonTypeOK, Named, RemoveTemp, prior' = prior
  PROVE  Orderly
  <1>1. dir'[TempFile] = 0 /\ \A n \in Names \ {TempFile} : dir'[n] = dir[n]
    BY RemoveNames
  <1>2. \A m, n \in Names : m # n /\ dir'[m] # 0 => dir'[m] # dir'[n]
    <2> SUFFICES ASSUME NEW m \in Names, NEW n \in Names, m # n, dir'[m] # 0
                 PROVE  dir'[m] # dir'[n]
      OBVIOUS
    <2>1. m # TempFile /\ dir'[m] = dir[m]
      BY <1>1
    <2> QED  BY <1>1, <2>1 DEF Named
  <1>3. prior # 0 => \A n \in Names : dir'[n] # prior
    BY <1>1 DEF Named
  <1> QED  BY <1>1, <1>2, <1>3, NamesKnown DEF Orderly, Named

LEMMA SameOrderly ==
  ASSUME Named, UNCHANGED <<dir, prior>>
  PROVE  Orderly
  BY DEF Orderly, Named

\* So do all steps of a running daemon.
LEMMA SetterOrderly ==
  ASSUME LogIsNoTemp, LogInv, Setter \/ Late
  PROVE  Orderly
  <1>0. DaemonTypeOK /\ Named /\ LateTypes /\ Opening
    BY DEF LogInv, Types, DaemonTypes
  <1>1. ASSUME NEW n \in LogPaths, OpenAppend(n), prior' = prior  PROVE Orderly
    BY <1>0, <1>1, NamesKnown, OpenOrderly
  <1>2. CASE Prepare \/ PrepareFails
    <2>1. candidate.log \in LogPaths /\ prior' = prior
      BY <1>0, <1>2 DEF Prepare, PrepareFails, Opening
    <2> QED  BY <1>0, <1>1, <1>2, <2>1, SameOrderly DEF Prepare, PrepareFails
  <1>3. CASE SaveCreates
    BY <1>0, <1>3, NamesKnown, OpenOrderly DEF SaveCreates
  <1>4. CASE SaveWrites \/ SaveSyncs \/ Commit \/ Drop
    BY <1>0, <1>4, SameOrderly DEF SaveWrites, SaveSyncs, Commit, Drop, diskVars
  <1>5. CASE SaveRenames
    BY <1>0, <1>5, RenameOrderly DEF SaveRenames
  <1>6. CASE SaveFails
    BY <1>0, <1>6, SameOrderly, RemoveOrderly DEF SaveFails
  <1>7. CASE Late
    <2>1. PICK k \in Threads : \E op \in {late[k]} :
            \/ LateOpens(op) \/ LateCreates(op) \/ LateWrites(op) \/ LateSyncs(op)
            \/ LateRenames(op) \/ LateRenameFails(op) \/ LateRemoves(op)
      BY <1>7 DEF Late
    <2>2. PICK op \in {late[k]} :
            \/ LateOpens(op) \/ LateCreates(op) \/ LateWrites(op) \/ LateSyncs(op)
            \/ LateRenames(op) \/ LateRenameFails(op) \/ LateRemoves(op)
      BY <2>1
    <2>3. CASE LateOpens(op)
      <3>1. op.candidate.log \in LogPaths
        BY <1>0, <2>3 DEF LateOpens, LateTypes, LateOpening
      <3> QED  BY <1>1, <2>3, <3>1 DEF LateOpens
    <2>4. CASE LateCreates(op)
      BY <1>0, <2>4, NamesKnown, OpenOrderly DEF LateCreates
    <2>5. CASE LateWrites(op) \/ LateSyncs(op) \/ LateRenameFails(op)
      BY <1>0, <2>5, SameOrderly DEF LateWrites, LateSyncs, LateRenameFails, diskVars
    <2>6. CASE LateRenames(op)
      BY <1>0, <2>6, RenameOrderly DEF LateRenames
    <2>7. CASE LateRemoves(op)
      BY <1>0, <2>7, RemoveOrderly DEF LateRemoves
    <2> QED  BY <2>2, <2>3, <2>4, <2>5, <2>6, <2>7
  <1> QED  BY <1>2, <1>3, <1>4, <1>5, <1>6, <1>7 DEF Setter

\* A step that is orderly keeps the log of the configuration and the one to come.
LEMMA LogKept ==
  ASSUME LogInv, Orderly, daemon = "up", UNCHANGED <<daemon, config, sink>>
  PROVE  /\ Named' /\ Running' /\ Stopped'
         /\ step \notin {"free", "preparing"} /\ step' \notin {"free", "preparing"}
              /\ UNCHANGED <<candidate, prepared>> => Opened'
         /\ prepared' = 0 /\ step' \in {"free", "preparing"} => Opened'
  <1>1. /\ dir[ConfigFile] # 0 /\ LogFollowsConfig /\ config.log # ConfigFile
        /\ config.log # NoPath => dir[config.log] # 0
        /\ config.log \in LogPaths \cup {NoPath} /\ candidate.log \in LogPaths \cup {NoPath}
    BY DEF LogInv, Running, Types, DaemonTypes, DaemonTypeOK, Config
  <1>2. /\ Named' /\ dir'[ConfigFile] # 0
        /\ \A n \in LogPaths \ {ConfigFile} : dir[n] # 0 => dir'[n] = dir[n]
    BY <1>1 DEF Orderly
  <1>3. config.log # NoPath => dir'[config.log] = dir[config.log]
    BY <1>1, <1>2
  <1>4. Running' /\ Stopped'
    BY <1>1, <1>2, <1>3 DEF Running, Stopped, LogFollowsConfig
  <1>5. ASSUME step \notin {"free", "preparing"}, step' \notin {"free", "preparing"},
               UNCHANGED <<candidate, prepared>>
        PROVE  Opened'
    <2>1. /\ candidate.log # ConfigFile
          /\ candidate.log # config.log =>
                IF candidate.log = NoPath THEN prepared = 0
                ELSE prepared # 0 /\ prepared = dir[candidate.log]
      BY <1>5 DEF LogInv, Opened
    <2>2. candidate.log # config.log /\ candidate.log # NoPath => dir'[candidate.log] = dir[candidate.log]
      BY <1>1, <1>2, <2>1
    <2> QED  BY <1>5, <2>1, <2>2 DEF Opened
  <1>6. prepared' = 0 /\ step' \in {"free", "preparing"} => Opened'
    BY DEF Opened
  <1> QED  BY <1>2, <1>4, <1>5, <1>6

\* A step that only asks: nothing is opened or written yet.
LEMMA LogAsk ==
  ASSUME LogIsNoTemp, LogInv, AskThreshold \/ AskLogPath
  PROVE  (Named /\ Opened /\ Running /\ Stopped)'
  <1>1. /\ UNCHANGED <<daemon, config, prepared, out, dir, file, unsynced, prior, sink>>
        /\ daemon = "up" /\ step = "free" /\ prepared = 0 /\ config.log # ConfigFile
    BY DEF AskThreshold, AskLogPath, diskVars, LogInv, Opened, Running
  <1>2. Orderly
    BY <1>1, SameOrderly DEF LogInv
  <1>3. step' \in {"creating", "preparing"}
    BY DEF AskThreshold, AskLogPath
  <1>4. Opened'
    <2>1. CASE AskThreshold
      <3>1. candidate'.log = config.log
        BY <2>1 DEF AskThreshold, LogInv, Types, DaemonTypes, DaemonTypeOK, Config
      <3> QED  BY <1>1, <1>3, <3>1 DEF Opened
    <2>2. CASE AskLogPath /\ step' = "creating"
      <3>1. candidate'.log = NoPath
        BY <2>2 DEF AskLogPath, LogInv, Types, DaemonTypes, DaemonTypeOK, Config
      <3> QED  BY <1>1, <2>2, <3>1, NamesKnown DEF Opened
    <2>3. CASE step' = "preparing"
      BY <1>1, <2>3 DEF Opened
    <2> QED  BY <1>3, <2>1, <2>2, <2>3
  <1> QED  BY <1>1, <1>2, <1>4, LogKept

LEMMA LogSetter ==
  ASSUME LogIsNoTemp, LogInv, Setter \/ Late
  PROVE  (Named /\ Opened /\ Running /\ Stopped)'
  <1>1. Orderly
    BY SetterOrderly
  <1>2. daemon = "up"
    <2>1. CASE Setter
      BY <2>1 DEF Setter, Prepare, PrepareFails, SaveCreates, SaveWrites, SaveSyncs,
         SaveRenames, SaveFails, Commit, Drop, LogInv, Types, DaemonTypes, Opening
    <2>2. CASE Late /\ daemon # "up"
      <3>1. \A k \in Threads : late[k].step = "free"
        BY <2>2, NoOpType DEF LogInv, Types, DaemonTypes, DaemonTypeOK, Stopped
      <3> QED  BY <2>2, <3>1 DEF Late, LateOpens, LateCreates, LateWrites, LateSyncs,
               LateRenames, LateRenameFails, LateRemoves
    <2> QED  BY <2>1, <2>2
  <1>3. CASE Prepare
    <2>1. /\ UNCHANGED <<daemon, config, sink, candidate, prior>>
          /\ candidate.log \in LogPaths /\ step' = "creating"
          /\ OpenAppend(candidate.log) /\ prepared' = Target(candidate.log)
          /\ candidate.log # ConfigFile
      BY <1>3 DEF Prepare, LogInv, Types, DaemonTypes, Opening, Aliases, ReservedNames, ConfigFile
    <2>2. dir'[candidate.log] = Target(candidate.log) /\ Target(candidate.log) # 0
      BY <2>1, NamesKnown, OpenElsewhere DEF LogInv, Types, DaemonTypes
    <2>3. Opened'
      BY <2>1, <2>2, NamesKnown DEF Opened
    <2> QED  BY <1>1, <1>2, <2>1, <2>3, LogKept
  <1>4. CASE PrepareFails \/ SaveFails \/ Drop
    <2>1. UNCHANGED <<daemon, config, sink>> /\ prepared' = 0 /\ step' = "free"
      BY <1>4 DEF PrepareFails, SaveFails, Drop, Release
    <2> QED  BY <1>1, <1>2, <2>1, LogKept
  <1>5. CASE SaveCreates \/ SaveWrites \/ SaveSyncs \/ SaveRenames
    <2>1. /\ UNCHANGED <<daemon, config, sink, candidate, prepared>>
          /\ step \notin {"free", "preparing"} /\ step' \notin {"free", "preparing"}
      BY <1>5 DEF SaveCreates, SaveWrites, SaveSyncs, SaveRenames, AfterWrite
    <2> QED  BY <1>1, <1>2, <2>1, LogKept
  <1>6. CASE Late
    <2>1. UNCHANGED <<daemon, config, sink, step, candidate, prepared>>
      BY <1>6 DEF Late, saveVars
    <2>2. Opened'
      <3>1. CASE step \in {"free", "preparing"}
        <4>1. prepared = 0
          BY <3>1 DEF LogInv, Opened
        <4> QED  BY <2>1, <3>1, <4>1 DEF Opened
      <3>2. CASE step \notin {"free", "preparing"}
        BY <1>1, <1>2, <2>1, <3>2, LogKept
      <3> QED  BY <3>1, <3>2
    <2> QED  BY <1>1, <1>2, <2>1, <2>2, LogKept
  <1>7. CASE Commit
    <2>1. /\ step = "committing" /\ step' = "free" /\ prepared' = 0 /\ config' = candidate
          /\ daemon' = "up" /\ UNCHANGED <<dir, prior>> /\ sink' = Replaced
      BY <1>2, <1>7 DEF Commit, Release, diskVars
    <2>2. /\ LogFollowsConfig /\ candidate.log # ConfigFile /\ dir[ConfigFile] # 0
          /\ config.log # NoPath => dir[config.log] # 0
          /\ candidate.log # config.log =>
                IF candidate.log = NoPath THEN prepared = 0
                ELSE prepared # 0 /\ prepared = dir[candidate.log]
      BY <1>2, <2>1 DEF LogInv, Running, Opened
    <2>3. sink' = (IF candidate.log = NoPath THEN 0 ELSE dir[candidate.log])
          /\ (candidate.log # NoPath => dir[candidate.log] # 0)
      BY <1>2, <2>1, <2>2 DEF Replaced, LogFollowsConfig
    <2>4. Running' /\ Opened' /\ Stopped'
      BY <2>1, <2>2, <2>3 DEF Running, LogFollowsConfig, Opened, Stopped
    <2> QED  BY <1>1, <2>4 DEF Orderly
  <1> QED  BY <1>3, <1>4, <1>5, <1>6, <1>7 DEF Setter

\* After a crash daemon.toml may be the file it was before.
LEMMA CrashNames ==
  ASSUME LogIsNoTemp, LogInv, Crash
  PROVE  /\ \A m \in Names \ {ConfigFile} : dir'[m] = dir[m]
         /\ dir'[ConfigFile] = dir[ConfigFile] \/ (prior # 0 /\ dir'[ConfigFile] = prior)
  BY NamesKnown DEF Crash, LogInv, Types, DaemonTypes, DaemonTypeOK

LEMMA LogCrash ==
  ASSUME LogIsNoTemp, LogInv, Crash
  PROVE  (Named /\ Opened /\ Running /\ Stopped)'
  <1>1. /\ daemon' = "down" /\ step' = "free" /\ prepared' = 0 /\ stray' = {}
        /\ unsynced' = {} /\ prior' = 0 /\ sink' = 0 /\ late' = [k \in Threads |-> NoOp]
    BY DEF Crash, Release
  <1>2. Opened' /\ Running' /\ Stopped'
    BY <1>1 DEF Opened, Running, Stopped
  <1>3. ASSUME NEW m \in Names, NEW n \in Names, m # n, dir'[m] # 0
        PROVE  dir'[m] # dir'[n]
    <2>1. /\ \A i \in Names \ {ConfigFile} : dir'[i] = dir[i]
          /\ dir'[ConfigFile] = dir[ConfigFile] \/ (prior # 0 /\ dir'[ConfigFile] = prior)
      BY CrashNames
    <2>2. /\ \A i, j \in Names : i # j /\ dir[i] # 0 => dir[i] # dir[j]
          /\ prior # 0 => \A i \in Names : dir[i] # prior
      BY DEF LogInv, Named
    <2>3. CASE m = ConfigFile
      BY <1>3, <2>1, <2>2, <2>3
    <2>4. CASE n = ConfigFile
      BY <1>3, <2>1, <2>2, <2>4
    <2>5. CASE m # ConfigFile /\ n # ConfigFile
      BY <1>3, <2>1, <2>2, <2>5
    <2> QED  BY <2>3, <2>4, <2>5
  <1> QED  BY <1>1, <1>2, <1>3 DEF Named

LEMMA LogStart ==
  ASSUME LogIsNoTemp, LogInv, StartFresh \/ Start
  PROVE  (Named /\ Opened /\ Running /\ Stopped)'
  <1>0. DaemonTypeOK /\ Named
    BY DEF LogInv, Types, DaemonTypes
  <1>1. /\ daemon = "down" /\ daemon' = "up" /\ step = "free" /\ prior = 0 /\ sink = 0
        /\ UNCHANGED <<step, prepared, prior>> /\ prepared = 0
    BY DEF StartFresh, Start, saveVars, LogInv, Types, DaemonTypes, Opening, Stopped, Opened
  <1>2. Opened' /\ Stopped'
    BY <1>1 DEF Opened, Stopped
  <1>3. CASE StartFresh
    <2>1. /\ dir[ConfigFile] = 0 /\ Spare # {} /\ config' = Default
          /\ dir' = [dir EXCEPT ![ConfigFile] = Fresh] /\ sink' = 0
      BY <1>1, <1>3 DEF StartFresh
    <2>2. Fresh \in Inodes /\ Fresh # 0 /\ Fresh \notin Used
      BY <2>1, FreshSpare, DefaultTypes DEF Spare
    <2>3. /\ dir'[ConfigFile] = Fresh
          /\ \A m \in Names : m # ConfigFile => dir'[m] = dir[m]
          /\ \A m \in Names : dir[m] # Fresh
      BY <1>0, <2>1, <2>2, NamesKnown DEF DaemonTypeOK, Used
    <2>4. \A m, n \in Names : m # n /\ dir'[m] # 0 => dir'[m] # dir'[n]
      BY <1>0, <2>3 DEF Named
    <2>5. Default.log = NoPath
      BY DEF Default
    <2> QED  BY <1>1, <1>2, <2>1, <2>2, <2>3, <2>4, <2>5, NamesKnown
             DEF Named, Running, LogFollowsConfig
  <1>4. CASE Start
    <2>1. config' = Loaded /\ Loaded \in Config /\ dir[ConfigFile] # 0
      BY <1>0, <1>4, LoadedType DEF Start
    <2>2. CASE Loaded.log = NoPath
      <3>1. UNCHANGED dir /\ sink' = 0
        BY <1>4, <2>2 DEF Start
      <3>2. Named'
        BY <1>0, <1>1, <3>1 DEF Named
      <3> QED  BY <1>1, <1>2, <2>1, <2>2, <3>1, <3>2, NamesKnown DEF Running, LogFollowsConfig
    <2>3. CASE Loaded.log # NoPath
      <3>1. /\ OpenAppend(Loaded.log) /\ sink' = Target(Loaded.log)
            /\ Loaded.log \in LogPaths /\ Loaded.log # ConfigFile
        BY <1>4, <2>1, <2>3 DEF Start, Aliases, ReservedNames, ConfigFile, Config
      <3>2. /\ Named' /\ dir'[Loaded.log] = Target(Loaded.log) /\ Target(Loaded.log) # 0
            /\ dir'[ConfigFile] = dir[ConfigFile]
        BY <1>0, <1>1, <3>1, NamesKnown, OpenElsewhere
      <3> QED  BY <1>1, <1>2, <2>1, <2>3, <3>1, <3>2 DEF Running, LogFollowsConfig
    <2> QED  BY <2>2, <2>3
  <1> QED  BY <1>3, <1>4

LEMMA LogInvNext ==
  ASSUME LogIsNoTemp, LogInv, [Next]_vars
  PROVE  LogInv'
  <1>1. Types'
    BY TypesNext DEF LogInv
  <1> SUFFICES (Named /\ Opened /\ Running /\ Stopped)'
    BY <1>1 DEF LogInv
  <1>2. CASE Tray \/ OtherEvent \/ LogRecord \/ UNCHANGED vars
    <2>1. UNCHANGED <<daemon, config, step, candidate, prepared, dir, unsynced, prior, sink, late, stray>>
      BY <1>2 DEF Tray, TraySubscribes, TrayReads, TrayShowsBattery, TrayConsumes,
         TrayDisconnects, OtherEvent, LogRecord, vars, saveVars, diskVars, lateVars
    <2>2. Named' /\ Opened'
      BY <2>1 DEF LogInv, Named, Opened
    <2>3. Running' /\ Stopped'
      BY <2>1 DEF LogInv, Running, Stopped, LogFollowsConfig
    <2> QED  BY <2>2, <2>3
  <1> QED  BY <1>2, LogAsk, LogSetter, LogCrash, LogStart DEF Next, Ask

LEMMA LogInvInit == Init => LogInv
  <1> SUFFICES ASSUME Init PROVE LogInv
    OBVIOUS
  <1>1. /\ daemon = "down" /\ step = "free" /\ prepared = 0 /\ prior = 0 /\ sink = 0
        /\ unsynced = {} /\ stray = {} /\ \A n \in Names : dir[n] = 0
        /\ \A k \in Threads : late[k] = NoOp
    BY DEF Init
  <1> QED  BY <1>1, TypesInit DEF LogInv, Named, Opened, Running, Stopped

\* The log that is written is the one the configuration names, whatever fails, whoever goes
\* away and whatever that leaves behind.
THEOREM LogFollowsConfigCorrect == ASSUME LogIsNoTemp PROVE Spec => []LogFollowsConfig
  <1>1. LogInv => LogFollowsConfig
    BY DEF LogInv, Running, LogFollowsConfig
  <1>2. LogInv /\ [Next]_vars => LogInv'
    BY LogInvNext
  <1> QED  BY <1>1, <1>2, LogInvInit, PTL DEF Spec

-----------------------------------------------------------------------------
(* daemon.toml, while no save shares the temporary file with a dropped call. *)

\* One dropped call at most has something to do to the temporary file, and no save does.
Apart ==
    /\ Pending # {} => step \in {"free", "preparing", "creating"}
    /\ \A j, k \in Pending : j = k

\* Only the temporary file waits for the disk.
TempUnsynced == unsynced \subseteq {dir[TempFile]}

\* The temporary file holds the candidate before it is synced, and is synced before the rename.
Progress ==
    /\ step \in {"writing", "syncing", "renaming"} => out = dir[TempFile] /\ out # 0
    /\ step = "writing" => file[out] = Text("empty")
    /\ step \in {"syncing", "renaming"} => file[out] = Toml(candidate)
    /\ step = "renaming" => unsynced = {}
    /\ step = "committing" => stray = {}

\* A dropped call writes to the temporary file, or to one without a name, and renames a
\* file that holds what it wanted to save.
LateProgress ==
    \A k \in Threads :
        /\ late[k].step = "writing" =>
               /\ late[k].out # 0 /\ late[k].out # prior
               /\ \A n \in Names \ {TempFile} : dir[n] # late[k].out
        /\ late[k].step = "renaming" /\ dir[TempFile] # 0 =>
               file[dir[TempFile]] = Toml(late[k].candidate) /\ unsynced = {}

\* The file that a crash may bring back is whole.
PriorWhole == prior # 0 => file[prior].kind = "toml"

\* What is so before the first save that shares the temporary file, and after the start
\* that follows the last.
Ready ==
    /\ Apart /\ TempUnsynced /\ Progress /\ LateProgress /\ PriorWhole
    /\ daemon = "up" => Saved = Toml(IF step = "committing" THEN candidate ELSE Lasting(config))
    /\ daemon = "down" => dir[ConfigFile] = 0 \/ Saved.kind = "toml"

FileInv == LogInv /\ (~mixed => Ready)

\* What the steps below may rely on.
LEMMA Basics ==
  ASSUME LogIsNoTemp, LogInv
  PROVE  /\ DaemonTypeOK /\ Named /\ LateTypes
         /\ 0 \notin Inodes
         /\ prior \in Inodes \cup {0} /\ out \in Inodes \cup {0} /\ sink \in Inodes \cup {0}
         /\ unsynced \in SUBSET Inodes /\ file \in [Inodes -> Content]
         /\ candidate \in Config /\ config \in Config
         /\ \A n \in Names : dir[n] \in Inodes \cup {0}
         /\ dir[ConfigFile] # 0 => dir[ConfigFile] # dir[TempFile] /\ dir[ConfigFile] # prior
         /\ dir[TempFile] # 0 => dir[TempFile] # dir[ConfigFile] /\ dir[TempFile] # prior
         /\ daemon \in {"up", "down"} /\ (daemon = "up" => dir[ConfigFile] # 0)
         /\ step # "free" => daemon = "up"
         /\ \A k \in Threads : late[k] \in LateOps /\ (late[k].step # "free" => daemon = "up")
  <1>1. DaemonTypeOK /\ Named /\ LateTypes /\ Opening /\ Running /\ Stopped
    BY DEF LogInv, Types, DaemonTypes
  <1>2. \A k \in Threads : late[k] \in LateOps /\ (late[k].step # "free" => daemon = "up")
    BY <1>1, NoOpType DEF LateTypes, LateTypeOK, Stopped, DaemonTypeOK
  <1>3. /\ dir[ConfigFile] # 0 => dir[ConfigFile] # dir[TempFile] /\ dir[ConfigFile] # prior
        /\ dir[TempFile] # 0 => dir[TempFile] # dir[ConfigFile] /\ dir[TempFile] # prior
    BY <1>1, NamesKnown DEF Named
  <1>4. daemon = "up" => dir[ConfigFile] # 0
    BY <1>1 DEF Running
  <1>5. /\ prior \in Inodes \cup {0} /\ out \in Inodes \cup {0} /\ sink \in Inodes \cup {0}
        /\ unsynced \in SUBSET Inodes /\ file \in [Inodes -> Content]
        /\ candidate \in Config /\ config \in Config
        /\ \A n \in Names : dir[n] \in Inodes \cup {0}
        /\ daemon \in {"up", "down"}
    BY <1>1 DEF DaemonTypeOK
  <1>6. step # "free" => daemon = "up"
    BY <1>1 DEF Opening
  <1> QED  BY <1>1, <1>2, <1>3, <1>4, <1>5, <1>6, DefaultTypes

\* A step that leaves alone what daemon.toml, the temporary file and the file replaced last
\* stand for and hold.
Quiet ==
    /\ UNCHANGED <<unsynced, prior, stray, daemon, config>>
    /\ \A n \in {ConfigFile, TempFile} :
         dir'[n] = dir[n] /\ (dir[n] # 0 => file'[dir[n]] = file[dir[n]])
    /\ prior # 0 => file'[prior] = file[prior]
    /\ \A n \in Names, k \in Threads :
         late[k].step = "writing" /\ dir[n] # late[k].out => dir'[n] # late[k].out

\* A step that leaves nothing more for the threads to do.
Less == \A k \in Threads : late'[k] = late[k] \/ late'[k] = NoOp

\* A save that is not begun, or goes on as it was.
Waiting ==
    \/ UNCHANGED <<step, candidate, out>>
    \/ step # "committing" /\ step' \in {"free", "preparing", "creating"}

LEMMA LessPending == ASSUME Less PROVE Pending' \subseteq Pending
  BY NoOpType DEF Less, Pending

LEMMA QuietReady ==
  ASSUME LogIsNoTemp, LogInv, Ready, Quiet, Less, Waiting
  PROVE  Ready'
  <1>0. /\ Apart /\ TempUnsynced /\ Progress /\ LateProgress /\ PriorWhole
        /\ UNCHANGED <<unsynced, prior, stray, daemon, config>>
        /\ dir'[ConfigFile] = dir[ConfigFile] /\ dir'[TempFile] = dir[TempFile]
        /\ dir[ConfigFile] # 0 => file'[dir[ConfigFile]] = file[dir[ConfigFile]]
        /\ dir[TempFile] # 0 => file'[dir[TempFile]] = file[dir[TempFile]]
    BY DEF Quiet, Ready
  <1>1. Apart'
    BY <1>0, LessPending DEF Apart, Waiting
  <1>2. TempUnsynced' /\ PriorWhole'
    BY <1>0 DEF TempUnsynced, PriorWhole, Quiet
  <1>3. Progress'
    <2>1. CASE UNCHANGED <<step, candidate, out>>
      BY <1>0, <2>1 DEF Progress
    <2>2. CASE step' \in {"free", "preparing", "creating"}
      BY <2>2 DEF Progress
    <2> QED  BY <2>1, <2>2 DEF Waiting
  <1>4. LateProgress'
    <2> SUFFICES ASSUME NEW k \in Threads
                 PROVE  /\ late'[k].step = "writing" =>
                             /\ late'[k].out # 0 /\ late'[k].out # prior'
                             /\ \A n \in Names \ {TempFile} : dir'[n] # late'[k].out
                        /\ late'[k].step = "renaming" /\ dir'[TempFile] # 0 =>
                             file'[dir'[TempFile]] = Toml(late'[k].candidate) /\ unsynced' = {}
      BY DEF LateProgress
    <2>1. CASE late'[k] = NoOp
      BY <2>1, NoOpType
    <2>2. CASE late'[k] = late[k]
      BY <1>0, <2>2 DEF LateProgress, Quiet
    <2> QED  BY <2>1, <2>2 DEF Less
  <1>5. Saved' = Saved \/ dir[ConfigFile] = 0
    BY <1>0 DEF Saved
  <1>6. daemon' = "up" => Saved' = Toml(IF step' = "committing" THEN candidate' ELSE Lasting(config)')
    <2>1. Lasting(config)' = Lasting(config)
      BY <1>0 DEF Lasting
    <2>2. daemon = "up" => Saved = Toml(IF step = "committing" THEN candidate ELSE Lasting(config))
      BY DEF Ready
    <2>3. daemon = "up" => dir[ConfigFile] # 0
      BY Basics
    <2>4. step' = "committing" => step = "committing" /\ candidate' = candidate
      BY DEF Waiting
    <2>5. step = "committing" => step' = "committing"
      BY DEF Waiting
    <2> QED  BY <1>0, <1>5, <2>1, <2>2, <2>3, <2>4, <2>5
  <1>7. daemon' = "down" => dir'[ConfigFile] = 0 \/ Saved'.kind = "toml"
    BY <1>0, <1>5 DEF Ready
  <1> QED  BY <1>1, <1>2, <1>3, <1>4, <1>6, <1>7 DEF Ready

\* Opening a log is quiet.
LEMMA OpenQuiet ==
  ASSUME LogIsNoTemp, LogInv, NEW n \in LogPaths \ {ConfigFile}, OpenAppend(n),
         UNCHANGED <<unsynced, prior, stray, daemon, config>>
  PROVE  Quiet
  <1>1. /\ DaemonTypeOK /\ Named /\ n \in Names /\ n # TempFile /\ n # ConfigFile
        /\ ConfigFile \in Names /\ TempFile \in Names
    BY Basics, NamesKnown
  <1>2. /\ \A m \in Names : m # n =>
                dir'[m] = dir[m] /\ (dir[m] # 0 => file'[dir[m]] = file[dir[m]])
        /\ prior # 0 => file'[prior] = file[prior]
        /\ dir'[n] = Target(n)
    BY <1>1, OpenElsewhere
  <1>3. ASSUME NEW m \in Names, NEW k \in Threads, dir[m] # late[k].out
        PROVE  dir'[m] # late[k].out
    <2>1. CASE m # n \/ dir[n] # 0
      BY <1>2, <1>3, <2>1 DEF Target
    <2>2. CASE m = n /\ dir[n] = 0
      <3>1. Target(n) \notin Used
        BY <1>1, <2>2, TargetUnused DEF OpenAppend
      <3> QED  BY <1>2, <2>2, <3>1 DEF Used
    <2> QED  BY <2>1, <2>2
  <1> QED  BY <1>1, <1>2, <1>3 DEF Quiet

\* Steps that are quiet: asking, opening the log, giving up, records and the tray.
LEMMA ReadyQuiet ==
  ASSUME LogIsNoTemp, LogInv, Ready,
         \/ AskThreshold \/ AskLogPath \/ Prepare \/ PrepareFails \/ LogRecord
         \/ OtherEvent \/ Tray \/ UNCHANGED vars
  PROVE  Ready'
  <1>1. Less
    BY DEF Less, AskThreshold, AskLogPath, Prepare, PrepareFails, LogRecord, OtherEvent, Tray,
       TraySubscribes, TrayReads, TrayShowsBattery, TrayConsumes, TrayDisconnects, vars, lateVars
  <1>2. Waiting
    <2>1. CASE AskThreshold \/ AskLogPath \/ Prepare \/ PrepareFails
      BY <2>1 DEF AskThreshold, AskLogPath, Prepare, PrepareFails, Release, Waiting
    <2>2. CASE LogRecord \/ OtherEvent \/ Tray \/ UNCHANGED vars
      BY <2>2 DEF LogRecord, OtherEvent, Tray, TraySubscribes, TrayReads, TrayShowsBattery,
         TrayConsumes, TrayDisconnects, vars, saveVars, Waiting
    <2> QED  BY <2>1, <2>2
  <1>3. UNCHANGED <<unsynced, prior, stray, daemon, config>>
    BY DEF AskThreshold, AskLogPath, Prepare, PrepareFails, LogRecord, OtherEvent, Tray,
       TraySubscribes, TrayReads, TrayShowsBattery, TrayConsumes, TrayDisconnects, vars, lateVars,
       diskVars
  <1>4. Quiet
    <2>1. CASE UNCHANGED <<dir, file>>
      BY <1>3, <2>1 DEF Quiet
    <2>2. CASE (Prepare \/ PrepareFails) /\ OpenAppend(candidate.log) /\ candidate.log # ConfigFile
      <3>1. candidate.log \in LogPaths
        BY <2>2 DEF Prepare, PrepareFails, LogInv, Types, DaemonTypes, Opening
      <3> QED  BY <1>3, <2>2, <3>1, OpenQuiet
    <2>3. CASE LogRecord
      <3>1. /\ sink # 0 /\ dir' = dir /\ \A i \in Inodes : i # sink => file'[i] = file[i]
        BY <2>3 DEF LogRecord, LogInv, Types, DaemonTypes, DaemonTypeOK
      <3>2. config.log \in LogPaths /\ sink = dir[config.log] /\ config.log # ConfigFile
        <4>1. daemon = "up"
          BY <3>1, Basics DEF LogInv, Stopped
        <4> QED  BY <3>1, <4>1 DEF LogInv, Running, LogFollowsConfig, Types, DaemonTypes,
                 DaemonTypeOK, Config
      <3>3. sink # dir[ConfigFile] /\ sink # dir[TempFile] /\ sink # prior
        <4>1. config.log \in Names /\ config.log # TempFile
          BY <3>2, NamesKnown
        <4> QED  BY <3>1, <3>2, <4>1, NamesKnown DEF LogInv, Named
      <3>4. /\ \A m \in {ConfigFile, TempFile} : dir[m] \in Inodes \cup {0}
            /\ prior \in Inodes \cup {0}
        BY Basics, NamesKnown
      <3> QED  BY <1>3, <3>1, <3>3, <3>4 DEF Quiet
    <2>4. CASE AskThreshold \/ AskLogPath \/ OtherEvent \/ Tray \/ UNCHANGED vars
      BY <2>1, <2>4 DEF AskThreshold, AskLogPath, OtherEvent, Tray, TraySubscribes, TrayReads,
         TrayShowsBattery, TrayConsumes, TrayDisconnects, vars, diskVars
    <2> QED  BY <2>1, <2>2, <2>3, <2>4 DEF Prepare, PrepareFails, Aliases, ReservedNames, ConfigFile
  <1> QED  BY <1>1, <1>2, <1>4, QuietReady

\* While a dropped call has nothing to do to the temporary file, that is as the save left it.
LEMMA NothingPending ==
  ASSUME Pending = {}
  PROVE  Apart /\ LateProgress
  BY DEF Apart, LateProgress, Pending

\* The temporary file is emptied: no other file changes.
LEMMA ReadyCreates ==
  ASSUME LogIsNoTemp, LogInv, Ready, SaveCreates, ~mixed'
  PROVE  Ready'
  <1>0. /\ DaemonTypeOK /\ Named /\ daemon = "up" /\ dir[ConfigFile] # 0
        /\ unsynced \in SUBSET Inodes /\ 0 \notin Inodes /\ step = "creating"
    BY Basics DEF SaveCreates
  <1>1. /\ step' = "writing" /\ UNCHANGED <<daemon, config, candidate, prior, late, stray>>
        /\ Truncate(TempFile) /\ out' = Target(TempFile) /\ Pending = {}
    BY DEF SaveCreates
  <1>2. /\ dir'[TempFile] = Target(TempFile) /\ Target(TempFile) # 0 /\ Target(TempFile) \in Inodes
        /\ dir'[ConfigFile] = dir[ConfigFile]
        /\ file'[dir[ConfigFile]] = file[dir[ConfigFile]]
        /\ prior # 0 => file'[prior] = file[prior]
    BY <1>0, <1>1, OpenElsewhere, NamesKnown
  <1>3. Apart' /\ LateProgress'
    BY <1>1, NothingPending DEF Pending, Apart, LateProgress
  <1>4. TempUnsynced'
    <2>1. unsynced \subseteq {Target(TempFile)}
      BY <1>0 DEF Ready, TempUnsynced, Target
    <2>2. unsynced' = unsynced \cup {Target(TempFile)}
      BY <1>1 DEF Truncate
    <2> QED  BY <1>2, <2>1, <2>2 DEF TempUnsynced
  <1>5. Progress'
    <2>1. file'[Target(TempFile)] = Text("empty")
      BY <1>0, <1>1, <1>2 DEF Truncate, DaemonTypeOK
    <2> QED  BY <1>1, <1>2, <2>1 DEF Progress
  <1>6. PriorWhole'
    BY <1>1, <1>2 DEF Ready, PriorWhole
  <1>7. Saved' = Saved /\ Lasting(config)' = Lasting(config)
    BY <1>1, <1>2 DEF Saved, Lasting
  <1>8. Saved' = Toml(Lasting(config)')
    BY <1>0, <1>7 DEF Ready
  <1> QED  BY <1>0, <1>1, <1>3, <1>4, <1>5, <1>6, <1>8 DEF Ready

\* Writing and syncing keep the directory and every file but the temporary one.
LEMMA ReadyWrites ==
  ASSUME LogIsNoTemp, LogInv, Ready, SaveWrites \/ SaveSyncs
  PROVE  Ready'
  <1>0. /\ DaemonTypeOK /\ daemon = "up" /\ dir[ConfigFile] # 0 /\ step \in {"writing", "syncing"}
        /\ dir[ConfigFile] # dir[TempFile]
        /\ dir[TempFile] # 0 => dir[TempFile] # prior
        /\ dir[ConfigFile] \in Inodes /\ dir[TempFile] \in Inodes \cup {0}
        /\ prior \in Inodes \cup {0} /\ unsynced \in SUBSET Inodes /\ file \in [Inodes -> Content]
    BY Basics, NamesKnown DEF SaveWrites, SaveSyncs
  <1>1. /\ step' \in {"syncing", "renaming"} /\ UNCHANGED <<daemon, config, candidate, out, dir, prior, late, stray>>
    BY DEF SaveWrites, SaveSyncs, AfterWrite, lateVars
  <1>2. out = dir[TempFile] /\ out # 0 /\ Pending = {} /\ out \in Inodes
    BY <1>0 DEF Ready, Progress, Apart
  <1>3. Apart' /\ LateProgress'
    BY <1>1, <1>2, NothingPending DEF Pending, Apart, LateProgress
  <1>4. /\ file'[out] = Toml(candidate)
        /\ \A i \in Inodes : i # out => file'[i] = file[i]
        /\ TempUnsynced' /\ (step' = "renaming" => unsynced' = {})
    <2>1. CASE SaveWrites
      <3>1. file[out] = Text("empty")
        BY <2>1 DEF SaveWrites, Ready, Progress
      <3>2. file' = [file EXCEPT ![out] = Toml(candidate)] /\ unsynced' = unsynced \cup ({out} \cap Live)
        BY <2>1, <3>1 DEF SaveWrites, Write
      <3>3. step' = "syncing"
        BY <2>1 DEF SaveWrites, AfterWrite
      <3>4. TempUnsynced'
        BY <1>1, <1>2, <3>2 DEF Ready, TempUnsynced
      <3> QED  BY <1>0, <1>2, <3>2, <3>3, <3>4
    <2>2. CASE SaveSyncs
      <3>1. file' = file /\ unsynced' = unsynced \ {out} /\ step = "syncing"
        BY <2>2 DEF SaveSyncs
      <3>2. unsynced' = {} /\ file[out] = Toml(candidate)
        BY <1>2, <3>1 DEF Ready, TempUnsynced, Progress
      <3> QED  BY <3>1, <3>2 DEF TempUnsynced
    <2> QED  BY <2>1, <2>2
  <1>5. Progress'
    BY <1>1, <1>2, <1>4 DEF Progress
  <1>6. PriorWhole'
    BY <1>0, <1>1, <1>2, <1>4 DEF Ready, PriorWhole
  <1>7. Saved' = Saved /\ Lasting(config)' = Lasting(config)
    BY <1>0, <1>1, <1>2, <1>4 DEF Saved, Lasting
  <1>8. Saved' = Toml(Lasting(config)')
    BY <1>0, <1>7 DEF Ready
  <1> QED  BY <1>0, <1>1, <1>3, <1>4, <1>5, <1>6, <1>8 DEF Ready

\* A rename of a whole and synced temporary file: the save's, or that of a dropped call.
LEMMA RenameWhole ==
  ASSUME LogIsNoTemp, LogInv, Ready, daemon = "up", step # "committing", Rename, UNCHANGED unsynced,
         NEW c, file[dir[TempFile]] = Toml(c), unsynced = {}
  PROVE  TempUnsynced' /\ PriorWhole' /\ Saved' = Toml(c)
  <1>0. /\ DaemonTypeOK /\ dir[ConfigFile] # 0 /\ dir[ConfigFile] # prior
        /\ dir[ConfigFile] \in Inodes /\ dir[TempFile] \in Inodes \cup {0}
        /\ dir[TempFile] # 0 => dir[TempFile] # prior
    BY Basics, NamesKnown
  <1>1. /\ dir[TempFile] # 0 /\ dir'[ConfigFile] = dir[TempFile] /\ prior' = dir[ConfigFile]
        /\ \A i \in Inodes : i # prior => file'[i] = file[i]
    BY <1>0, RenameNames
  <1>2. Saved' = Toml(c)
    BY <1>0, <1>1 DEF Saved
  <1>3. PriorWhole'
    <2>1. file[dir[ConfigFile]] = Toml(Lasting(config))
      BY DEF Ready, Saved
    <2> QED  BY <1>0, <1>1, <2>1 DEF PriorWhole, Toml
  <1>4. TempUnsynced'
    BY DEF TempUnsynced
  <1> QED  BY <1>2, <1>3, <1>4

LEMMA ReadyRenames ==
  ASSUME LogIsNoTemp, LogInv, Ready, SaveRenames
  PROVE  Ready'
  <1>1. /\ step = "renaming" /\ step' = "committing" /\ Rename /\ stray' = {}
        /\ UNCHANGED <<daemon, candidate, unsynced, late>> /\ daemon = "up"
    BY Basics DEF SaveRenames
  <1>2. /\ out = dir[TempFile] /\ file[out] = Toml(candidate) /\ unsynced = {} /\ Pending = {}
    BY <1>1 DEF Ready, Progress, Apart
  <1>3. TempUnsynced' /\ PriorWhole' /\ Saved' = Toml(candidate)
    BY <1>1, <1>2, RenameWhole
  <1>4. Apart' /\ LateProgress'
    BY <1>1, <1>2, NothingPending DEF Pending, Apart, LateProgress
  <1>5. Progress'
    BY <1>1 DEF Progress
  <1> QED  BY <1>1, <1>3, <1>4, <1>5 DEF Ready

\* A removal touches the temporary file and nothing else.
LEMMA RemoveElsewhere ==
  ASSUME LogIsNoTemp, LogInv, Ready, daemon = "up", RemoveTemp, UNCHANGED <<prior, config, stray>>
  PROVE  /\ TempUnsynced' /\ PriorWhole' /\ Saved' = Saved /\ Lasting(config)' = Lasting(config)
         /\ dir'[TempFile] = 0 /\ \A n \in Names \ {TempFile} : dir'[n] = dir[n]
  <1>0. /\ DaemonTypeOK /\ dir[ConfigFile] # 0 /\ dir[ConfigFile] # dir[TempFile]
        /\ dir[TempFile] # 0 => dir[TempFile] # prior
        /\ dir[ConfigFile] \in Inodes /\ prior \in Inodes \cup {0} /\ unsynced \in SUBSET Inodes
    BY Basics, NamesKnown
  <1>1. /\ dir'[TempFile] = 0 /\ \A n \in Names \ {TempFile} : dir'[n] = dir[n]
        /\ \A i \in Inodes : i # dir[TempFile] => file'[i] = file[i]
        /\ unsynced' = unsynced \ {dir[TempFile]}
    BY <1>0, RemoveNames DEF RemoveTemp
  <1>2. TempUnsynced'
    BY <1>1 DEF Ready, TempUnsynced
  <1>3. PriorWhole'
    BY <1>0, <1>1 DEF Ready, PriorWhole
  <1>4. Saved' = Saved
    BY <1>0, <1>1, NamesKnown DEF Saved
  <1>5. Lasting(config)' = Lasting(config)
    BY DEF Lasting
  <1> QED  BY <1>1, <1>2, <1>3, <1>4, <1>5

\* What a thread is left with when nothing was pending.
LEMMA LeftAlone ==
  ASSUME LogInv, NEW at \in (Step \ {"committing", "preparing"}) \cup {"removing"},
         Leave(at), ~mixed'
  PROVE  /\ Pending = {} /\ ~mixed
         /\ \A j, k \in Pending' : j = k
         /\ \E k \in Threads : late' = [late EXCEPT ![k] = Operation(at)]
         /\ \A j \in Threads : late'[j].step \in {"free", "preparing"} \/ late'[j] = Operation(at)
  <1>1. PICK k \in Threads : late' = [late EXCEPT ![k] = Operation(at)]
    BY DEF Leave
  <1>2. Pending = {} /\ ~mixed
    BY DEF Leave
  <1>3. late \in [Threads -> LateOps]
    BY DEF LogInv, Types, LateTypes, LateTypeOK
  <1>4. \A j \in Threads : j # k => late'[j] = late[j] /\ late[j].step \in {"free", "preparing"}
    BY <1>1, <1>2, <1>3 DEF Pending
  <1>5. late'[k] = Operation(at)
    BY <1>1, <1>3
  <1>6. \A j, m \in Pending' : j = m
    BY <1>4 DEF Pending
  <1> QED  BY <1>1, <1>2, <1>4, <1>5, <1>6

\* A save that fails touches the temporary file and nothing else.
LEMMA ReadyFails ==
  ASSUME LogIsNoTemp, LogInv, Ready, SaveFails, ~mixed'
  PROVE  Ready'
  <1>0. /\ daemon = "up" /\ dir[ConfigFile] # 0 /\ dir[ConfigFile] # dir[TempFile]
        /\ dir[TempFile] # 0 => dir[TempFile] # prior
        /\ dir[ConfigFile] \in Inodes /\ prior \in Inodes \cup {0} /\ file \in [Inodes -> Content]
        /\ step \in {"creating", "writing", "syncing", "renaming"}
    BY Basics, NamesKnown DEF SaveFails
  <1>1. step' = "free" /\ UNCHANGED <<daemon, config, prior, stray>>
    BY DEF SaveFails, Release
  <1>2. Progress'
    BY <1>1 DEF Progress
  <1>3. /\ TempUnsynced' /\ PriorWhole' /\ Saved' = Saved /\ Lasting(config)' = Lasting(config)
        /\ \A n \in Names \ {TempFile} : dir'[n] = dir[n]
        /\ \/ dir'[TempFile] = 0
           \/ UNCHANGED <<dir, file, unsynced>>
           \/ step = "writing" /\ UNCHANGED <<dir, unsynced>>
    <2>1. CASE RemoveTemp
      BY <1>0, <1>1, <2>1, RemoveElsewhere
    <2>2. CASE UNCHANGED <<dir, unsynced, file>>
      BY <1>1, <2>2 DEF Ready, TempUnsynced, PriorWhole, Saved, Lasting
    <2>3. CASE step = "writing" /\ UNCHANGED <<dir, unsynced>> /\ file' = [file EXCEPT ![out] = Text("torn")]
      <3>1. out = dir[TempFile] /\ out # 0
        BY <2>3 DEF Ready, Progress
      <3>2. file'[dir[ConfigFile]] = file[dir[ConfigFile]] /\ (prior # 0 => file'[prior] = file[prior])
        BY <1>0, <2>3, <3>1
      <3> QED  BY <1>1, <2>3, <3>2 DEF Ready, TempUnsynced, PriorWhole, Saved, Lasting
    <2> QED  BY <2>1, <2>2, <2>3 DEF SaveFails
  <1>4. Apart' /\ LateProgress'
    <2>1. CASE UNCHANGED late /\ step = "creating"
      <3>1. Apart'
        BY <1>1, <2>1 DEF Ready, Apart, Pending
      <3>2. LateProgress'
        BY <1>1, <1>3, <2>1 DEF Ready, LateProgress
      <3> QED  BY <3>1, <3>2
    <2>2. CASE UNCHANGED late /\ step # "creating"
      <3>1. Pending = {}
        BY <1>0, <2>2 DEF Ready, Apart
      <3> QED  BY <2>2, <3>1, NothingPending DEF Pending, Apart, LateProgress
    <2>3. CASE Leave("removing")
      <3>1. /\ \A j, k \in Pending' : j = k
            /\ \A j \in Threads : late'[j].step \in {"free", "preparing", "removing"}
        <4>1. Operation("removing").step = "removing"
          BY DEF Operation
        <4> QED  BY <2>3, <4>1, LeftAlone
      <3> QED  BY <1>1, <3>1 DEF Apart, LateProgress
    <2> QED  BY <2>1, <2>2, <2>3 DEF SaveFails
  <1>5. Saved' = Toml(Lasting(config)')
    BY <1>0, <1>3 DEF Ready
  <1> QED  BY <1>0, <1>1, <1>2, <1>3, <1>4, <1>5 DEF Ready

\* Memory follows the file.
LEMMA ReadyCommit ==
  ASSUME LogIsNoTemp, LogInv, Ready, Commit
  PROVE  Ready'
  <1>1. /\ step = "committing" /\ step' = "free" /\ config' = candidate /\ daemon = "up" /\ daemon' = "up"
        /\ UNCHANGED <<dir, file, unsynced, prior, late, stray>>
    BY Basics DEF Commit, Release, diskVars, lateVars
  <1>2. stray = {} /\ Saved = Toml(candidate) /\ Pending = {}
    BY <1>1 DEF Ready, Progress, Apart
  <1>3. Apart' /\ LateProgress'
    BY <1>1, <1>2, NothingPending DEF Pending, Apart, LateProgress
  <1>4. TempUnsynced' /\ PriorWhole' /\ Progress'
    BY <1>1 DEF Ready, TempUnsynced, PriorWhole, Progress
  <1>5. Saved' = Toml(Lasting(config)')
    BY <1>1, <1>2 DEF Saved, Lasting
  <1> QED  BY <1>1, <1>3, <1>4, <1>5 DEF Ready

\* A call that is dropped leaves the file as it is, and perhaps an operation to a thread.
LEMMA ReadyDrop ==
  ASSUME LogIsNoTemp, LogInv, Ready, Drop, ~mixed'
  PROVE  Ready'
  <1>0. /\ daemon = "up" /\ dir[ConfigFile] # 0 /\ step # "free" /\ step \in Step
        /\ DaemonTypeOK /\ Named
    BY Basics DEF Drop, DaemonTypeOK
  <1>1. /\ step' = "free" /\ UNCHANGED <<daemon, config, dir, file, unsynced, prior>>
        /\ stray' = IF step = "committing" THEN {candidate} ELSE stray
    BY DEF Drop, Release, diskVars
  <1>2. Progress' /\ TempUnsynced' /\ PriorWhole'
    BY <1>1 DEF Progress, TempUnsynced, PriorWhole, Ready
  <1>3. Saved' = Toml(Lasting(config)')
    <2>1. CASE step = "committing"
      <3>1. Lasting(config)' = candidate
        <4>1. stray' = {candidate}
          BY <1>1, <2>1
        <4>2. (CHOOSE s \in stray' : TRUE) \in stray'
          BY <4>1
        <4> QED  BY <4>1, <4>2 DEF Lasting
      <3> QED  BY <1>0, <1>1, <2>1, <3>1 DEF Ready, Saved
    <2>2. CASE step # "committing"
      BY <1>0, <1>1, <2>2 DEF Ready, Saved, Lasting
    <2> QED  BY <2>1, <2>2
  <1>4. Apart' /\ LateProgress'
    <2>1. CASE UNCHANGED <<late, mixed>>
      BY <1>1, <2>1 DEF Ready, Apart, LateProgress, Pending
    <2>2. CASE step = "preparing" /\ Leave(step)
      <3>1. PICK k \in Threads : late[k] = NoOp /\ late' = [late EXCEPT ![k] = Operation("preparing")]
        BY <2>2 DEF Leave
      <3>2. late \in [Threads -> LateOps]
        BY DEF LogInv, Types, LateTypes, LateTypeOK
      <3>3. \A j \in Threads : late'[j] = late[j] \/ late'[j].step = "preparing"
        BY <3>1, <3>2 DEF Operation
      <3>4. Pending' \subseteq Pending
        BY <3>3 DEF Pending
      <3>5. Apart'
        BY <1>1, <3>4 DEF Ready, Apart
      <3>6. LateProgress'
        BY <1>1, <3>3 DEF Ready, LateProgress
      <3> QED  BY <3>5, <3>6
    <2>3. CASE step \notin {"preparing", "committing"} /\ Leave(step)
      <3>1. /\ \A j, k \in Pending' : j = k
            /\ \A j \in Threads : late'[j].step \in {"free", "preparing"} \/ late'[j] = Operation(step)
        BY <1>0, <2>3, LeftAlone
      <3>2. Apart'
        BY <1>1, <3>1 DEF Apart
      <3>3. ASSUME NEW j \in Threads, late'[j].step = "writing"
            PROVE  /\ late'[j].out # 0 /\ late'[j].out # prior
                   /\ \A n \in Names \ {TempFile} : dir[n] # late'[j].out
        <4>1. late'[j].out = out /\ step = "writing"
          BY <3>1, <3>3 DEF Operation
        <4>2. out = dir[TempFile] /\ out # 0
          BY <4>1 DEF Ready, Progress
        <4> QED  BY <1>0, <4>1, <4>2, NamesKnown DEF Named
      <3>4. ASSUME NEW j \in Threads, late'[j].step = "renaming"
            PROVE  file[dir[TempFile]] = Toml(late'[j].candidate) /\ unsynced = {}
        <4>1. late'[j].candidate = candidate /\ step = "renaming"
          BY <3>1, <3>4 DEF Operation
        <4> QED  BY <4>1 DEF Ready, Progress
      <3> QED  BY <1>1, <3>2, <3>3, <3>4 DEF LateProgress
    <2> QED  BY <2>1, <2>2, <2>3 DEF Drop
  <1> QED  BY <1>0, <1>1, <1>2, <1>3, <1>4 DEF Ready

\* What a dropped call left happens while no save is at the temporary file.
LEMMA ReadyLate ==
  ASSUME LogIsNoTemp, LogInv, Ready, Late
  PROVE  Ready'
  <1>0. /\ DaemonTypeOK /\ LateTypes /\ Named /\ NoOp \in LateOps /\ NoOp.step = "free"
        /\ dir[ConfigFile] # 0 => dir[ConfigFile] # prior /\ dir[ConfigFile] # dir[TempFile]
        /\ dir[ConfigFile] \in Inodes \cup {0} /\ dir[TempFile] \in Inodes \cup {0}
        /\ prior \in Inodes \cup {0} /\ unsynced \in SUBSET Inodes /\ file \in [Inodes -> Content]
        /\ late \in [Threads -> LateOps] /\ 0 \notin Inodes
    BY Basics, NamesKnown, NoOpType DEF LateTypes, LateTypeOK
  <1>1. PICK k \in Threads :
          /\ late' = [late EXCEPT ![k] = NoOp]
          /\ \E op \in {late[k]} :
               \/ LateOpens(op) \/ LateCreates(op) \/ LateWrites(op) \/ LateSyncs(op)
               \/ LateRenames(op) \/ LateRenameFails(op) \/ LateRemoves(op)
    BY DEF Late
  <1>2. PICK op \in {late[k]} :
               \/ LateOpens(op) \/ LateCreates(op) \/ LateWrites(op) \/ LateSyncs(op)
               \/ LateRenames(op) \/ LateRenameFails(op) \/ LateRemoves(op)
    BY <1>1
  <1>3. op = late[k] /\ UNCHANGED <<daemon, config, step, candidate, out>>
    BY DEF Late, saveVars
  <1>4. Less /\ Waiting
    BY <1>0, <1>1, <1>3 DEF Less, Waiting
  <1>5. op.step # "free" /\ daemon = "up" /\ dir[ConfigFile] # 0
    <2>1. op.step # "free"
      BY <1>2 DEF LateOpens, LateCreates, LateWrites, LateSyncs, LateRenames, LateRenameFails,
         LateRemoves
    <2> QED  BY <1>3, <2>1, Basics
  <1>6. CASE LateOpens(op)
    <2>1. op.candidate.log \in LogPaths \ {ConfigFile}
      BY <1>0, <1>3, <1>6 DEF LateOpens, LateTypes, LateOpening
    <2>2. Quiet
      BY <1>3, <1>6, <2>1, OpenQuiet DEF LateOpens
    <2> QED  BY <1>4, <2>2, QuietReady
  <1>7. CASE LateRenameFails(op)
    <2>1. Quiet
      BY <1>3, <1>7 DEF LateRenameFails, diskVars, Quiet
    <2> QED  BY <1>4, <2>1, QuietReady
  <1>8. ASSUME op.step # "preparing"
        PROVE  Apart' /\ LateProgress' /\ Progress' /\ step' \in {"free", "preparing", "creating"}
    <2>1. k \in Pending /\ Apart
      BY <1>3, <1>5, <1>8 DEF Pending, Ready
    <2>2. step \in {"free", "preparing", "creating"} /\ \A j \in Pending : j = k
      BY <2>1 DEF Apart
    <2>3. Pending' = {}
      BY <1>0, <1>1, <2>2 DEF Pending
    <2>4. Apart' /\ LateProgress'
      BY <2>3 DEF Apart, LateProgress, Pending
    <2> QED  BY <1>3, <2>2, <2>4 DEF Progress
  <1>9. ASSUME op.step # "preparing", TempUnsynced', PriorWhole', Saved' = Saved, stray' = stray
        PROVE  Ready'
    <2>1. Saved' = Toml(Lasting(config)')
      BY <1>3, <1>5, <1>8, <1>9 DEF Ready, Lasting
    <2> QED  BY <1>3, <1>5, <1>8, <1>9, <2>1 DEF Ready
  <1>10. CASE LateCreates(op)
    <2>1. op.step # "preparing" /\ Truncate(TempFile) /\ UNCHANGED <<prior, stray>>
      BY <1>10 DEF LateCreates
    <2>2. /\ dir'[TempFile] = Target(TempFile) /\ Target(TempFile) # 0
          /\ dir'[ConfigFile] = dir[ConfigFile]
          /\ file'[dir[ConfigFile]] = file[dir[ConfigFile]]
          /\ prior # 0 => file'[prior] = file[prior]
      BY <1>0, <1>5, <2>1, OpenElsewhere, NamesKnown
    <2>3. TempUnsynced'
      <3>1. unsynced \subseteq {Target(TempFile)}
        BY <1>0 DEF Ready, TempUnsynced, Target
      <3>2. unsynced' = unsynced \cup {Target(TempFile)}
        BY <2>1 DEF Truncate
      <3> QED  BY <2>2, <3>1, <3>2 DEF TempUnsynced
    <2>4. PriorWhole' /\ Saved' = Saved
      BY <2>1, <2>2 DEF Ready, PriorWhole, Saved
    <2> QED  BY <1>9, <2>1, <2>3, <2>4
  <1>11. CASE LateWrites(op)
    <2>1. PICK text \in {Toml(op.candidate), Text("torn")} : Write(op.out, text)
      BY <1>11 DEF LateWrites
    <2>2. op.step = "writing" /\ UNCHANGED <<dir, prior, stray>>
      BY <1>11 DEF LateWrites
    <2>3. op.out # prior /\ \A n \in Names \ {TempFile} : dir[n] # op.out
      BY <1>3, <2>2 DEF Ready, LateProgress
    <2>4. /\ \A i \in Inodes : i # op.out => file'[i] = file[i]
          /\ unsynced' = unsynced \cup ({op.out} \cap Live)
      BY <1>0, <2>1 DEF Write
    <2>5. TempUnsynced'
      <3>1. op.out \in Live => op.out = dir[TempFile]
        BY <2>3 DEF Live
      <3> QED  BY <2>2, <2>4, <3>1 DEF Ready, TempUnsynced
    <2>6. PriorWhole' /\ Saved' = Saved
      <3>1. dir[ConfigFile] # op.out
        BY <2>3, NamesKnown
      <3> QED  BY <1>0, <1>5, <2>2, <2>3, <2>4, <3>1 DEF Ready, PriorWhole, Saved
    <2> QED  BY <1>9, <2>2, <2>5, <2>6
  <1>12. CASE LateSyncs(op)
    <2>1. /\ op.step # "preparing" /\ unsynced' \subseteq unsynced
          /\ UNCHANGED <<dir, file, prior, stray>>
      BY <1>12 DEF LateSyncs
    <2>2. TempUnsynced' /\ PriorWhole' /\ Saved' = Saved
      BY <2>1 DEF Ready, TempUnsynced, PriorWhole, Saved
    <2> QED  BY <1>9, <2>1, <2>2
  <1>13. CASE LateRemoves(op)
    <2>1. op.step # "preparing" /\ RemoveTemp /\ UNCHANGED <<prior, stray>>
      BY <1>13 DEF LateRemoves
    <2>2. TempUnsynced' /\ PriorWhole' /\ Saved' = Saved
      BY <1>3, <1>5, <2>1, RemoveElsewhere
    <2> QED  BY <1>9, <2>1, <2>2
  <1>14. CASE LateRenames(op)
    <2>1. op.step = "renaming" /\ Rename /\ stray' = {op.candidate} /\ UNCHANGED unsynced
      BY <1>14 DEF LateRenames
    <2>2. file[dir[TempFile]] = Toml(op.candidate) /\ unsynced = {}
      BY <1>3, <2>1 DEF Rename, Ready, LateProgress
    <2>3. step \in {"free", "preparing", "creating"} /\ Apart' /\ LateProgress' /\ Progress'
      BY <1>3, <1>8, <2>1
    <2>4. TempUnsynced' /\ PriorWhole' /\ Saved' = Toml(op.candidate)
      BY <1>5, <2>1, <2>2, <2>3, RenameWhole
    <2>5. Lasting(config)' = op.candidate
      <3>1. (CHOOSE s \in stray' : TRUE) \in stray'
        BY <2>1
      <3> QED  BY <2>1, <3>1 DEF Lasting
    <2> QED  BY <1>3, <1>5, <2>3, <2>4, <2>5 DEF Ready
  <1> QED  BY <1>2, <1>6, <1>7, <1>10, <1>11, <1>12, <1>13, <1>14

\* What a crash tears is the temporary file, and what it brings back is whole.
LEMMA ReadyCrash ==
  ASSUME LogIsNoTemp, LogInv, Ready, Crash
  PROVE  Ready'
  <1>0. /\ daemon = "up" /\ dir[ConfigFile] # 0 /\ dir[ConfigFile] # dir[TempFile]
        /\ dir[TempFile] # 0 => dir[TempFile] # prior
        /\ dir[ConfigFile] \in Inodes /\ prior \in Inodes \cup {0}
    BY Basics, NamesKnown DEF Crash
  <1>1. /\ daemon' = "down" /\ step' = "free" /\ unsynced' = {} /\ prior' = 0
        /\ late' = [k \in Threads |-> NoOp]
    BY DEF Crash, Release
  <1>2. \A i \in Inodes : i # dir[TempFile] => file'[i] = file[i]
    BY DEF Crash, Ready, TempUnsynced
  <1>3. Pending' = {}
    BY <1>1, NoOpType DEF Pending
  <1>4. Apart' /\ LateProgress'
    BY <1>3 DEF Apart, LateProgress, Pending
  <1>5. TempUnsynced' /\ Progress' /\ PriorWhole'
    BY <1>1 DEF TempUnsynced, Progress, PriorWhole
  <1>6. Saved'.kind = "toml"
    <2>1. CASE dir'[ConfigFile] = dir[ConfigFile]
      <3>1. Saved.kind = "toml"
        BY <1>0 DEF Ready, Toml
      <3> QED  BY <1>0, <1>2, <2>1, <3>1 DEF Saved
    <2>2. CASE prior # 0 /\ dir'[ConfigFile] = prior
      <3>1. file[prior].kind = "toml" /\ prior # dir[TempFile]
        BY <1>0, <2>2 DEF Ready, PriorWhole
      <3> QED  BY <1>0, <1>2, <2>2, <3>1 DEF Saved
    <2> QED  BY <2>1, <2>2, CrashNames
  <1> QED  BY <1>1, <1>4, <1>5, <1>6 DEF Ready

\* A start makes everything ready, once what it finds is whole.
LEMMA ReadyStart ==
  ASSUME LogIsNoTemp, LogInv, ~mixed => Ready, StartFresh \/ Start, ~mixed'
  PROVE  Ready'
  <1>0. /\ DaemonTypeOK /\ Named /\ Stopped
    BY Basics DEF LogInv
  <1>1. /\ daemon = "down" /\ daemon' = "up" /\ step = "free" /\ step' = "free"
        /\ UNCHANGED <<unsynced, prior, late, stray>>
        /\ prior = 0 /\ unsynced = {} /\ stray = {} /\ \A k \in Threads : late[k] = NoOp
    BY <1>0 DEF StartFresh, Start, saveVars, lateVars, Stopped, LogInv, Types, DaemonTypes, Opening
  <1>2. Pending' = {}
    BY <1>1, NoOpType DEF Pending
  <1>3. Apart' /\ LateProgress'
    BY <1>2 DEF Apart, LateProgress, Pending
  <1>4. TempUnsynced' /\ Progress' /\ PriorWhole'
    BY <1>1 DEF TempUnsynced, Progress, PriorWhole
  <1>5. Lasting(config)' = config'
    BY <1>1 DEF Lasting
  <1>6. Saved' = Toml(config')
    <2>1. CASE StartFresh
      <3>1. /\ Spare # {} /\ config' = Default
            /\ dir' = [dir EXCEPT ![ConfigFile] = Fresh]
            /\ file' = [file EXCEPT ![Fresh] = Toml(Default)]
        BY <2>1 DEF StartFresh
      <3>2. Fresh \in Inodes /\ dir'[ConfigFile] = Fresh
        BY <1>0, <3>1, FreshSpare, NamesKnown DEF DaemonTypeOK
      <3> QED  BY <1>0, <3>1, <3>2 DEF Saved, DaemonTypeOK
    <2>2. CASE Start
      <3>1. /\ config' = Loaded /\ dir[ConfigFile] # 0 /\ dir[ConfigFile] \in Inodes
            /\ mixed' = (mixed /\ Saved.kind # "toml")
        BY <2>2, Basics, NamesKnown DEF Start, Saved
      <3>2. Saved.kind = "toml"
        <4>1. CASE mixed
          BY <3>1, <4>1
        <4>2. CASE ~mixed
          BY <1>1, <3>1, <4>2 DEF Ready
        <4> QED  BY <4>1, <4>2
      <3>3. Saved = Toml(Loaded) /\ Loaded \in Config
        <4>1. file[dir[ConfigFile]] \in Content
          BY <1>0, <3>1 DEF DaemonTypeOK
        <4> QED  BY <3>2, <4>1, ContentFields DEF Saved, Loaded
      <3>4. Saved' = Saved
        <4>1. CASE Loaded.log = NoPath
          BY <2>2, <4>1 DEF Start, Saved
        <4>2. CASE Loaded.log # NoPath
          <5>1. OpenAppend(Loaded.log) /\ Loaded.log \in LogPaths /\ Loaded.log # ConfigFile
            BY <2>2, <3>3, <4>2 DEF Start, Aliases, ReservedNames, ConfigFile, Config
          <5>2. dir'[ConfigFile] = dir[ConfigFile] /\ file'[dir[ConfigFile]] = file[dir[ConfigFile]]
            BY <1>0, <1>1, <3>1, <5>1, NamesKnown, OpenElsewhere
          <5> QED  BY <5>2 DEF Saved
        <4> QED  BY <4>1, <4>2
      <3> QED  BY <3>1, <3>3, <3>4
    <2> QED  BY <2>1, <2>2
  <1> QED  BY <1>1, <1>3, <1>4, <1>5, <1>6 DEF Ready

LEMMA FileInvNext ==
  ASSUME LogIsNoTemp, FileInv, [Next]_vars
  PROVE  FileInv'
  <1>1. LogInv /\ LogInv' /\ (~mixed => Ready)
    BY LogInvNext DEF FileInv
  <1> SUFFICES ASSUME ~mixed' PROVE Ready'
    BY <1>1 DEF FileInv
  <1>2. CASE StartFresh \/ Start
    BY <1>1, <1>2, ReadyStart
  <1>3. CASE ~(StartFresh \/ Start)
    <2>1. CASE \/ AskThreshold \/ AskLogPath \/ Prepare \/ PrepareFails \/ LogRecord
               \/ OtherEvent \/ Tray \/ UNCHANGED vars
      <3>1. mixed' = mixed
        BY <2>1 DEF AskThreshold, AskLogPath, Prepare, PrepareFails, LogRecord, OtherEvent, Tray,
           TraySubscribes, TrayReads, TrayShowsBattery, TrayConsumes, TrayDisconnects, vars, lateVars
      <3> QED  BY <1>1, <2>1, <3>1, ReadyQuiet
    <2>2. CASE SaveCreates \/ SaveFails \/ Drop
      <3>1. ~mixed
        BY <2>2 DEF SaveCreates, SaveFails, Drop, Leave
      <3> QED  BY <1>1, <2>2, <3>1, ReadyCreates, ReadyFails, ReadyDrop
    <2>3. CASE SaveWrites \/ SaveSyncs \/ SaveRenames \/ Commit \/ Late \/ Crash
      <3>1. mixed' = mixed
        BY <2>3 DEF SaveWrites, SaveSyncs, SaveRenames, Commit, Late, Crash, lateVars
      <3> QED  BY <1>1, <2>3, <3>1, ReadyWrites, ReadyRenames, ReadyCommit, ReadyLate, ReadyCrash
    <2> QED  BY <1>3, <2>1, <2>2, <2>3 DEF Next, Ask, Setter
  <1> QED  BY <1>2, <1>3

LEMMA FileInvInit == Init => FileInv
  <1> SUFFICES ASSUME Init PROVE FileInv
    OBVIOUS
  <1>1. /\ daemon = "down" /\ step = "free" /\ prior = 0 /\ unsynced = {}
        /\ \A n \in Names : dir[n] = 0
        /\ \A k \in Threads : late[k].step = "free"
    BY NoOpType DEF Init
  <1>2. ConfigFile \in Names
    BY DEF Names
  <1>3. Pending = {}
    BY <1>1 DEF Pending
  <1> QED  BY <1>1, <1>2, <1>3, LogInvInit
           DEF FileInv, Ready, Apart, TempUnsynced, Progress, LateProgress, PriorWhole

LEMMA FilesCorrect == ASSUME LogIsNoTemp PROVE Spec => []FileInv
  <1>1. FileInv /\ [Next]_vars => FileInv'
    BY FileInvNext
  <1> QED  BY <1>1, FileInvInit, PTL DEF Spec

\* While nobody saves, daemon.toml holds the configuration in memory, or what the last
\* dropped call put there; while somebody does, the old configuration or the new one: whole,
\* whatever failed, whoever went away and wherever the daemon stopped, as long as no save
\* began while a dropped call had still something to do to the temporary file.
THEOREM OldOrNewCorrect == ASSUME LogIsNoTemp PROVE Spec => []OldOrNew
  <1>1. FileInv => OldOrNew
    BY DEF FileInv, Ready, OldOrNew
  <1> QED  BY <1>1, FilesCorrect, PTL

\* After a crash at any moment, also with the write, the sync or the rename of a dropped call
\* pending, daemon.toml is missing, before the first start, or whole, as long as no save
\* began in the meantime.
THEOREM RestartableCorrect == ASSUME LogIsNoTemp PROVE Spec => []Restartable
  <1>1. FileInv => Restartable
    BY DEF FileInv, Ready, Restartable
  <1> QED  BY <1>1, FilesCorrect, PTL

=============================================================================
