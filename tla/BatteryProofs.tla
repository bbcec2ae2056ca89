--------------------------- MODULE BatteryProofs ---------------------------
(***************************************************************************)
(* A battery that hovers around its threshold is alerted once, and what is *)
(* broadcast is a level or a connection: for any set of levels and         *)
(* thresholds, any number of refreshes and attempts.                       *)
(*                                                                         *)
(* The alert and the latch look at one poll; the property looks at all     *)
(* polls between two alerts.  The invariant connects them: while the       *)
(* latch is open again, the peak is a recovery from the threshold in       *)
(* force, and the poll under way, if an alert was sent since, works with   *)
(* that threshold.                                                         *)
(***************************************************************************)
EXTENDS Battery, TLAPS

\* The part of the type invariant that the alert depends on, and what a poll has read.
PollTypeOK ==
    /\ battery \in Reading
    /\ threshold \in Thresholds
    /\ poll \in [at : {"idle", "asking", "telling"}, threshold : Thresholds \cup {0},
                 got : Reading \cup {Failed, None}]
    /\ poll.at # "idle" => poll.threshold \in Thresholds
    /\ poll.at = "telling" => poll.got # None
    /\ alerted \in BOOLEAN
    /\ peak \in Levels \cup {None}

\* An alert was sent since the threshold was changed: the poll works with it.
PollUpToDate == peak # None /\ poll.at # "idle" => poll.threshold = threshold

\* An alert was sent since the threshold was changed, and the latch is open again.
RecoveredSince == peak # None /\ ~alerted => peak >= Lesser(threshold + 5, 100)

Inv == PollTypeOK /\ PollUpToDate /\ RecoveredSince

LEMMA Numbers ==
  /\ Levels \subseteq Int /\ Thresholds \subseteq Int
  /\ None \notin Int /\ Charging \notin Int /\ Failed \notin Int
  /\ Failed # Charging /\ Failed # None /\ None # Charging
  BY LevelsAssumption, ThresholdsAssumption, NamesAssumption

LEMMA GreaterReaches ==
  ASSUME NEW a \in Int, NEW b \in Int, NEW c \in Int, a >= c \/ b >= c
  PROVE  Greater(a, b) >= c
  BY DEF Greater

LEMMA InvInit ==
  ASSUME Init
  PROVE  Inv
<1>1. /\ battery \in Reading /\ threshold \in Thresholds
      /\ poll = Idle /\ alerted = FALSE /\ peak = None
  BY DEF Init
<1>2. PollTypeOK
  BY <1>1 DEF PollTypeOK, Idle
<1>3. PollUpToDate /\ RecoveredSince
  BY <1>1 DEF PollUpToDate, RecoveredSince
<1> QED
  BY <1>2, <1>3 DEF Inv

\* Nothing but the poll and a new threshold touches what the invariant is about.
LEMMA OthersKeepInv ==
  ASSUME Inv, UNCHANGED <<threshold, poll, alerted, peak>>, battery' \in Reading
  PROVE  Inv'
  BY DEF Inv, PollTypeOK, PollUpToDate, RecoveredSince

LEMMA SetThresholdKeepsInv ==
  ASSUME Inv, SetThreshold
  PROVE  Inv'
  BY DEF Inv, PollTypeOK, PollUpToDate, RecoveredSince, SetThreshold, mouseVars

LEMMA PollTickKeepsInv ==
  ASSUME Inv, PollTick
  PROVE  Inv'
<1>1. poll' = [at |-> "asking", threshold |-> threshold, got |-> None]
      /\ UNCHANGED <<battery, threshold, alerted, peak>>
  BY DEF PollTick, mouseVars
<1>2. PollTypeOK'
  BY <1>1 DEF Inv, PollTypeOK
<1>3. PollUpToDate' /\ RecoveredSince'
  BY <1>1 DEF Inv, PollUpToDate, RecoveredSince
<1> QED
  BY <1>2, <1>3 DEF Inv

LEMMA PollReadsKeepsInv ==
  ASSUME Inv, PollReads
  PROVE  Inv'
<1>1. UNCHANGED <<battery, threshold, alerted, peak>> /\ poll.at = "asking"
  BY DEF PollReads, mouseVars
<1>2. Observed \in Reading \cup {Failed} /\ Observed # None
  BY Numbers DEF Observed, Inv, PollTypeOK, Reading
<1>3. CASE slot
  <2>1. poll' = [poll EXCEPT !.at = "telling", !.got = Observed]
    BY <1>3 DEF PollReads
  <2>2. PollTypeOK'
    BY <1>1, <1>2, <2>1 DEF Inv, PollTypeOK
  <2>3. PollUpToDate' /\ RecoveredSince'
    BY <1>1, <2>1 DEF Inv, PollTypeOK, PollUpToDate, RecoveredSince
  <2> QED
    BY <2>2, <2>3 DEF Inv
<1>4. CASE ~slot
  <2>1. poll' = Idle
    BY <1>4 DEF PollReads
  <2>2. PollTypeOK'
    BY <1>1, <2>1 DEF Inv, PollTypeOK, Idle
  <2>3. PollUpToDate' /\ RecoveredSince'
    BY <1>1, <2>1 DEF Inv, PollUpToDate, RecoveredSince, Idle
  <2> QED
    BY <2>2, <2>3 DEF Inv
<1> QED
  BY <1>3, <1>4

LEMMA PollFailsKeepsInv ==
  ASSUME Inv, PollFails
  PROVE  Inv'
<1>1. UNCHANGED <<battery, threshold, alerted, peak>> /\ poll' = Idle
  BY DEF PollFails, mouseVars
<1>2. PollTypeOK'
  BY <1>1 DEF Inv, PollTypeOK, Idle
<1>3. PollUpToDate' /\ RecoveredSince'
  BY <1>1 DEF Inv, PollUpToDate, RecoveredSince, Idle
<1> QED
  BY <1>2, <1>3 DEF Inv

\* A poll that ends well has a reading: a level or a charging mouse.
LEMMA PollHasReading ==
  ASSUME Inv, PollEnds
  PROVE  /\ poll.got \in Levels \cup {Charging}
         /\ poll.threshold \in Thresholds
  BY Numbers DEF Inv, PollTypeOK, PollEnds, Reading

\* The latch and the peak after a reading, in the three cases of low_battery_transition.
LEMMA PollEndsKeepsInv ==
  ASSUME Inv, PollEnds
  PROVE  Inv'
<1> DEFINE p == poll.got
           t == poll.threshold
<1>1. /\ UNCHANGED <<battery, threshold>>
      /\ poll' = Idle
      /\ alerted' = NewAlerted(p, t)
      /\ peak' = PeakAfter(p, t)
  BY DEF PollEnds, mouseVars
<1>2. p \in Levels \cup {Charging} /\ t \in Thresholds
  BY PollHasReading
<1>3. PollUpToDate'
  BY <1>1 DEF PollUpToDate, Idle
<1>4. alerted \in BOOLEAN /\ peak \in Levels \cup {None} /\ threshold \in Thresholds
  BY DEF Inv, PollTypeOK
<1>5. CASE p = Charging
  <2>1. peak' = None /\ alerted' = FALSE
    BY <1>1, <1>5 DEF PeakAfter, NewAlerted
  <2>2. PollTypeOK'
    BY <1>1, <2>1 DEF Inv, PollTypeOK, Idle
  <2> QED
    BY <1>3, <2>1, <2>2 DEF Inv, RecoveredSince
<1>6. CASE p # Charging /\ Emits(p, t)
  <2>1. peak' = p /\ alerted' = TRUE
    BY <1>1, <1>6 DEF PeakAfter, NewAlerted, Emits
  <2>2. PollTypeOK'
    BY <1>1, <1>2, <1>6, <2>1 DEF Inv, PollTypeOK, Idle
  <2> QED
    BY <1>3, <2>1, <2>2 DEF Inv, RecoveredSince
<1>7. CASE p # Charging /\ ~Emits(p, t)
  <2>1. p \in Levels
    BY <1>2, <1>7
  <2>2. peak' = IF peak = None THEN None ELSE Greater(peak, p)
    BY <1>1, <1>7 DEF PeakAfter
  <2>3. alerted' = IF alerted THEN ~Recovered(p, t) ELSE FALSE
    BY <1>1, <1>4, <1>7 DEF NewAlerted, Emits
  <2>4. PollTypeOK'
    <3>1. peak' \in Levels \cup {None}
      BY <1>4, <2>1, <2>2 DEF Greater
    <3>2. alerted' \in BOOLEAN
      BY <2>3 DEF Recovered
    <3> QED
      BY <1>1, <3>1, <3>2 DEF Inv, PollTypeOK, Idle
  <2>5. RecoveredSince'
    <3> SUFFICES ASSUME peak' # None, ~alerted'
                 PROVE  peak' >= Lesser(threshold + 5, 100)
      BY <1>1 DEF RecoveredSince
    <3>0. Lesser(threshold + 5, 100) \in Int
      BY <1>4, Numbers DEF Lesser
    <3>1. peak \in Levels /\ peak' = Greater(peak, p)
      BY <1>4, <2>2
    <3>2. t = threshold
      BY <3>1, Numbers DEF Inv, PollUpToDate, PollEnds
    <3>3. CASE ~alerted
      <4>1. peak >= Lesser(threshold + 5, 100)
        BY <3>1, <3>3, Numbers DEF Inv, RecoveredSince
      <4> QED
        BY <2>1, <3>0, <3>1, <4>1, Numbers, GreaterReaches
    <3>4. CASE alerted
      <4>1. p >= Lesser(threshold + 5, 100)
        BY <2>3, <3>2, <3>4 DEF Recovered
      <4> QED
        BY <2>1, <3>0, <3>1, <4>1, Numbers, GreaterReaches
    <3> QED
      BY <1>4, <3>3, <3>4
  <2> QED
    BY <1>3, <2>4, <2>5 DEF Inv
<1> QED
  BY <1>2, <1>5, <1>6, <1>7

LEMMA InvNext == Inv /\ [Next]_vars => Inv'
<1> SUFFICES ASSUME Inv, [Next]_vars
             PROVE  Inv'
  OBVIOUS
<1>1. battery \in Reading
  BY DEF Inv, PollTypeOK
<1>2. CASE Drain \/ Sleep
  BY <1>1, <1>2, OthersKeepInv DEF Drain, Sleep, linkVars, pollVars
<1>3. CASE SetThreshold
  BY <1>3, SetThresholdKeepsInv
<1>4. CASE Poll
  BY <1>4, PollTickKeepsInv, PollReadsKeepsInv, PollEndsKeepsInv, PollFailsKeepsInv DEF Poll
<1>5. ASSUME NEW r \in Refreshers, BatteryChanged(r) \/ Refresh(r)
      PROVE  Inv'
  BY <1>1, <1>5, OthersKeepInv
     DEF BatteryChanged, Refresh, RefreshReads, RefreshEnds, RefreshFails, mouseVars, pollVars
<1>6. CASE RpcOpens \/ RpcInvalidates \/ Forward
  BY <1>1, <1>6, OthersKeepInv DEF RpcOpens, RpcInvalidates, Forward, mouseVars, pollVars
<1>7. CASE Handler
  BY <1>1, <1>7, OthersKeepInv
     DEF Handler, Connected, Dispose, Disconnected, ModeChanged, ModeChangeFails, mouseVars,
         pollVars
<1>8. CASE UNCHANGED vars
  BY <1>1, <1>8, OthersKeepInv DEF vars, mouseVars, pollVars
<1> QED
  BY <1>2, <1>3, <1>4, <1>5, <1>6, <1>7, <1>8 DEF Next

\* A poll that alerts does so with the latch open.
LEMMA AlertAfterRecovery ==
  ASSUME Inv, PollEnds, Emits(poll.got, poll.threshold), peak # None
  PROVE  peak >= Lesser(poll.threshold + 5, 100)
<1>1. ~alerted
  BY DEF Emits
<1>2. poll.threshold = threshold
  BY DEF Inv, PollUpToDate, PollEnds
<1> QED
  BY <1>1, <1>2 DEF Inv, RecoveredSince

\* Two alerts with neither charging nor a new threshold between them are separated by a
\* recovery of five points, or to 100 (create_battery_poll_task, low_battery_transition),
\* for every threshold, those from 96 to 100 among them.
THEOREM HoveringIsQuietCorrect == Spec => HoveringIsQuiet
<1>1. Spec => []Inv
  BY InvInit, InvNext, PTL DEF Spec
<1>2. Inv /\ [Next]_vars =>
        [(PollEnds /\ Emits(poll.got, poll.threshold) /\ peak # None)
           => peak >= Lesser(poll.threshold + 5, 100)]_vars
  BY AlertAfterRecovery
<1> QED
  BY <1>1, <1>2, PTL DEF Spec, HoveringIsQuiet

-----------------------------------------------------------------------------
(* Types: every value broadcast is a battery level or a connection, and the *)
(* retries of a refresh never count below zero.                             *)

\* A refresh with an answer in hand has an attempt left, the one it is at.
RefreshInv ==
    /\ refresh \in [Refreshers -> [left : 0..MaxAttempts, got : Reading \cup {Failed, None}]]
    /\ \A r \in Refreshers : refresh[r].got # None => refresh[r].left > 0

RestTypeOK ==
    /\ awake \in BOOLEAN /\ slot \in BOOLEAN /\ owed \in BOOLEAN
    /\ handler \in {"absent", "present", "leaving", "switching"}
    /\ told \in Reading \cup {Gone, Here}

TypeInv == Inv /\ RefreshInv /\ RestTypeOK

LEMMA TypeInvInit ==
  ASSUME Init
  PROVE  TypeInv
<1>1. refresh = [r \in Refreshers |-> Resting] /\ 0 \in 0..MaxAttempts
  BY MaxAttemptsAssumption DEF Init
<1>2. RefreshInv
  BY <1>1 DEF RefreshInv, Resting
<1>3. RestTypeOK
  BY DEF Init, RestTypeOK
<1> QED
  BY <1>2, <1>3, InvInit DEF TypeInv

\* A refresh set off with at most MaxAttempts.
LEMMA SetOffKeepsRefresh ==
  ASSUME RefreshInv, NEW r \in Refreshers, NEW n \in 1..MaxAttempts, SetOff(r, n)
  PROVE  RefreshInv'
  BY MaxAttemptsAssumption DEF RefreshInv, SetOff

LEMMA FetchKeepsRefresh ==
  ASSUME RefreshInv, Fetch
  PROVE  RefreshInv'
<1>1. PICK r \in Refreshers : SetOff(r, Attempts)
  BY DEF Fetch
<1> QED
  BY <1>1, SetOffKeepsRefresh, MaxAttemptsAssumption DEF Attempts

LEMMA RefreshReadsKeepsRefresh ==
  ASSUME Inv, RefreshInv, NEW r \in Refreshers, RefreshReads(r)
  PROVE  RefreshInv'
<1>1. Observed \in Reading \cup {Failed}
  BY DEF Observed, Inv, PollTypeOK
<1>2. refresh[r] \in [left : 0..MaxAttempts, got : Reading \cup {Failed, None}]
      /\ refresh[r].left > 0
  BY DEF RefreshInv, RefreshReads
<1>3. refresh' = [refresh EXCEPT ![r] = IF slot THEN [@ EXCEPT !.got = Observed] ELSE Resting]
  BY DEF RefreshReads
<1>4. 0 \in 0..MaxAttempts
  BY MaxAttemptsAssumption
<1> QED
  BY <1>1, <1>2, <1>3, <1>4 DEF RefreshInv, Resting

LEMMA RefreshFailsKeepsRefresh ==
  ASSUME RefreshInv, NEW r \in Refreshers, RefreshFails(r)
  PROVE  RefreshInv'
<1>1. refresh[r].left \in 1..MaxAttempts
  BY Numbers, NamesAssumption, MaxAttemptsAssumption DEF RefreshInv, RefreshFails
<1>2. refresh' = [refresh EXCEPT ![r] = [left |-> @.left - 1, got |-> None]]
  BY DEF RefreshFails
<1>3. refresh[r].left - 1 \in 0..MaxAttempts
  BY <1>1, MaxAttemptsAssumption
<1> QED
  BY <1>2, <1>3 DEF RefreshInv

\* What a refresh that ends broadcasts is a reading.
LEMMA RefreshEndsKeepsTypes ==
  ASSUME RefreshInv, RestTypeOK, NEW r \in Refreshers, RefreshEnds(r)
  PROVE  RefreshInv' /\ RestTypeOK'
<1>1. refresh' = [refresh EXCEPT ![r] = Resting] /\ told' = refresh[r].got
      /\ UNCHANGED <<awake, slot, owed, handler>>
  BY DEF RefreshEnds, mouseVars, linkVars
<1>2. told' \in Reading
  BY <1>1 DEF RefreshInv, RefreshEnds
<1>3. RestTypeOK'
  BY <1>1, <1>2 DEF RestTypeOK
<1>4. 0 \in 0..MaxAttempts
  BY MaxAttemptsAssumption
<1>5. RefreshInv'
  BY <1>1, <1>4 DEF RefreshInv, Resting
<1> QED
  BY <1>3, <1>5

LEMMA TypeInvNext == TypeInv /\ [Next]_vars => TypeInv'
<1> SUFFICES ASSUME TypeInv, [Next]_vars
             PROVE  RefreshInv' /\ RestTypeOK'
  BY InvNext DEF TypeInv
<1>0. Inv /\ RefreshInv /\ RestTypeOK
  BY DEF TypeInv
<1>1. CASE Drain \/ Sleep \/ SetThreshold
  BY <1>0, <1>1 DEF Drain, Sleep, SetThreshold, mouseVars, linkVars, RefreshInv, RestTypeOK
<1>2. CASE Poll
  <2>1. UNCHANGED <<awake, slot, owed, handler, refresh>>
    BY <1>2 DEF Poll, PollTick, PollReads, PollEnds, PollFails, mouseVars, linkVars
  <2>2. told' = told \/ told' \in Reading
    BY <1>0, <1>2, PollHasReading
       DEF Poll, PollTick, PollReads, PollEnds, PollFails, Update, Reading
  <2> QED
    BY <1>0, <2>1, <2>2 DEF RefreshInv, RestTypeOK
<1>3. ASSUME NEW r \in Refreshers, BatteryChanged(r)
      PROVE  RefreshInv' /\ RestTypeOK'
  BY <1>0, <1>3, SetOffKeepsRefresh, MaxAttemptsAssumption
     DEF BatteryChanged, mouseVars, linkVars, RestTypeOK
<1>4. ASSUME NEW r \in Refreshers, RefreshReads(r) \/ RefreshFails(r)
      PROVE  RefreshInv' /\ RestTypeOK'
  <2>1. RefreshInv'
    BY <1>0, <1>4, RefreshReadsKeepsRefresh, RefreshFailsKeepsRefresh
  <2>2. RestTypeOK'
    BY <1>0, <1>4 DEF RefreshReads, RefreshFails, mouseVars, linkVars, RestTypeOK
  <2> QED
    BY <2>1, <2>2
<1>5. ASSUME NEW r \in Refreshers, RefreshEnds(r)
      PROVE  RefreshInv' /\ RestTypeOK'
  BY <1>0, <1>5, RefreshEndsKeepsTypes
<1>6. CASE RpcOpens \/ RpcInvalidates \/ Forward
  BY <1>0, <1>6 DEF RpcOpens, RpcInvalidates, Forward, mouseVars, RefreshInv, RestTypeOK
<1>7. CASE Connected \/ ModeChanged
  <2>1. RefreshInv'
    BY <1>0, <1>7, FetchKeepsRefresh DEF Connected, ModeChanged
  <2>2. RestTypeOK'
    BY <1>0, <1>7 DEF Connected, ModeChanged, mouseVars, RestTypeOK
  <2> QED
    BY <2>1, <2>2
<1>8. CASE Dispose \/ Disconnected \/ ModeChangeFails
  BY <1>0, <1>8 DEF Dispose, Disconnected, ModeChangeFails, mouseVars, RefreshInv, RestTypeOK
<1>9. CASE UNCHANGED vars
  BY <1>0, <1>9 DEF vars, mouseVars, linkVars, RefreshInv, RestTypeOK
<1> QED
  BY <1>1, <1>2, <1>3, <1>4, <1>5, <1>6, <1>7, <1>8, <1>9 DEF Next, Refresh, Handler

\* Types (create_battery_poll_task, spawn_battery_refresh, the events of server.rs): the
\* stream carries levels and connections only, no failed reading reaches the latch, and a
\* refresh is at an attempt between 1 and the last one while it has an answer in hand.
THEOREM BatteryTypeCorrect == Spec => []TypeOK
<1>1. TypeInv => TypeOK
  BY DEF TypeInv, Inv, PollTypeOK, RefreshInv, RestTypeOK, TypeOK
<1> QED
  BY <1>1, TypeInvInit, TypeInvNext, PTL DEF Spec
=============================================================================
