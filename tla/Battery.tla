------------------------------ MODULE Battery ------------------------------
(***************************************************************************)
(* The battery of the mouse as the daemon reports it (server.rs): the poll *)
(* task with its low battery alert, the refreshes spawned after a          *)
(* connection and after a notification, get_battery, and the device event  *)
(* handler and the forwarder, which report the connection on the same      *)
(* event stream.                                                           *)
(*                                                                         *)
(* Every task reads the battery with the mouse locked, unlocks it, writes  *)
(* its log record and only then broadcasts: two steps here.  A reading is  *)
(* a percentage, or Charging, whose percentage no decision looks at.       *)
(* Polling is on (battery_poll_interval_secs is not 0), and a client       *)
(* drops no events: told is what it shows, as the tray does.               *)
(***************************************************************************)
EXTENDS Integers

CONSTANTS Levels,      \* percentages the battery may be seen at
          Thresholds,  \* values of low_battery_threshold
          Refreshers,  \* refreshes that can run at the same time
          MaxAttempts, \* of the refresh after a connection (3)
          Charging,    \* the reading of a charging mouse
          Failed,      \* the reading of a mouse that sleeps or does not answer
          Gone, Here,  \* what a ConnectionChange tells
          None         \* no reading, no alert

ASSUME LevelsAssumption == Levels \subseteq 0..100
ASSUME ThresholdsAssumption == Thresholds \subseteq 0..100
ASSUME MaxAttemptsAssumption == MaxAttempts \in Nat \ {0}
ASSUME NamesAssumption ==
    /\ {Charging, Failed, Gone, Here, None} \cap Int = {}
    /\ Failed \notin {Charging, None}
    /\ None # Charging

VARIABLES battery,   \* what the mouse would answer
          awake,     \* whether it answers
          slot,      \* whether the daemon holds an open mouse
          owed,      \* whether a forwarder has a Disconnected to pass on
          handler,   \* the device the last event left, or the event being handled
          threshold, \* low_battery_threshold
          poll,      \* the poll task
          alerted,   \* its latch
          refresh,   \* the spawned refreshes
          told,      \* what the event stream last said
          peak       \* the highest percentage polled since the last alert, while neither
                     \* a threshold was changed nor charging was seen; None before it

mouseVars == <<battery, awake>>
linkVars  == <<slot, owed, handler>>
pollVars  == <<poll, alerted, peak>>
vars      == <<mouseVars, linkVars, threshold, pollVars, refresh, told>>

Reading == Levels \cup {Charging}
Idle    == [at |-> "idle", threshold |-> 0, got |-> None]
Resting == [left |-> 0, got |-> None]

TypeOK ==
    /\ battery \in Reading
    /\ awake \in BOOLEAN
    /\ slot \in BOOLEAN
    /\ owed \in BOOLEAN
    /\ handler \in {"absent", "present", "leaving", "switching"}
    /\ threshold \in Thresholds
    /\ poll \in [at : {"idle", "asking", "telling"}, threshold : Thresholds \cup {0},
                 got : Reading \cup {Failed, None}]
    /\ alerted \in BOOLEAN
    /\ refresh \in [Refreshers -> [left : 0..MaxAttempts, got : Reading \cup {Failed, None}]]
    /\ told \in Reading \cup {Gone, Here}
    /\ peak \in Levels \cup {None}

Init ==
    /\ battery \in Reading
    /\ awake \in BOOLEAN
    /\ slot \in BOOLEAN
    /\ owed = FALSE
    /\ handler \in {"absent", "present"}
    /\ threshold \in Thresholds
    /\ poll = Idle
    /\ alerted = FALSE
    /\ refresh = [r \in Refreshers |-> Resting]
    /\ told = Gone
    /\ peak = None

-----------------------------------------------------------------------------
(* The mouse and the configuration. *)

\* The level is computed from a voltage, which wanders up and down.
Drain ==
    /\ battery' \in Reading \ {battery}
    /\ UNCHANGED <<awake, linkVars, threshold, pollVars, refresh, told>>

Sleep ==
    /\ awake' = ~awake
    /\ UNCHANGED <<battery, linkVars, threshold, pollVars, refresh, told>>

\* set_low_battery_threshold.
SetThreshold ==
    /\ threshold' \in Thresholds \ {threshold}
    /\ peak' = None
    /\ UNCHANGED <<mouseVars, linkVars, poll, alerted, refresh, told>>

\* observe_battery_refresh, with the mouse locked.
Observed == IF awake THEN battery ELSE Failed

-----------------------------------------------------------------------------
(* The poll task. *)

\* A tick: the threshold is read before the mouse is locked.
PollTick ==
    /\ poll.at = "idle"
    /\ poll' = [at |-> "asking", threshold |-> threshold, got |-> None]
    /\ UNCHANGED <<mouseVars, linkVars, threshold, alerted, peak, refresh, told>>

PollReads ==
    /\ poll.at = "asking"
    /\ poll' = IF slot THEN [poll EXCEPT !.at = "telling", !.got = Observed] ELSE Idle
    /\ UNCHANGED <<mouseVars, linkVars, threshold, alerted, peak, refresh, told>>

Lesser(a, b)  == IF a < b THEN a ELSE b
Greater(a, b) == IF a > b THEN a ELSE b

\* Mutant of Recovered: no five points of recovery.
RecoveredAtOnce(p, t) == p > t

\* The latch opens five points above the threshold, or at 100.
Recovered(p, t) == p > t /\ p >= Lesser(t + 5, 100)

\* Mutant of Low: the threshold itself is not low.
LowBelow(p, t) == p < t

Low(p, t) == p <= t

\* low_battery_transition: the latch after a reading, and whether it alerts.
NewAlerted(reading, t) ==
    /\ reading # Charging
    /\ IF alerted THEN ~Recovered(reading, t) ELSE Low(reading, t)

Emits(reading, t) == reading # Charging /\ ~alerted /\ Low(reading, t)

PeakAfter(reading, t) ==
    CASE reading = Charging -> None
      [] reading # Charging /\ Emits(reading, t) -> reading
      [] OTHER -> IF peak = None THEN None ELSE Greater(peak, reading)

\* Mutant of Update: nobody hears of the poll.
UpdateSilently(reading) == told

\* A BatteryUpdate.
Update(reading) == reading

\* The record is written, the update broadcast, then the alert.
PollEnds ==
    /\ poll.at = "telling"
    /\ poll.got # Failed
    /\ told' = Update(poll.got)
    /\ alerted' = NewAlerted(poll.got, poll.threshold)
    /\ peak' = PeakAfter(poll.got, poll.threshold)
    /\ poll' = Idle
    /\ UNCHANGED <<mouseVars, linkVars, threshold, refresh>>

\* A sleeping mouse or any other error: logged, and the latch stays.
PollFails ==
    /\ poll.at = "telling"
    /\ poll.got = Failed
    /\ poll' = Idle
    /\ UNCHANGED <<mouseVars, linkVars, threshold, alerted, peak, refresh, told>>

Poll == PollTick \/ PollReads \/ PollEnds \/ PollFails

-----------------------------------------------------------------------------
(* Refreshes: with retries after a connection, once after a battery-changed *)
(* notification. *)

Rest(r)   == refresh[r] = Resting
SetOff(r, attempts) == refresh' = [refresh EXCEPT ![r].left = attempts]

\* Mutant of Attempts: the loop starts at 0.
AttemptsFromZero == MaxAttempts + 1

\* Attempts 1..=MaxAttempts.
Attempts == MaxAttempts

\* The refresh of a new connection; the bound is that one is free.
Fetch == \E r \in Refreshers : Rest(r) /\ SetOff(r, Attempts)

BatteryChanged(r) ==
    /\ slot
    /\ Rest(r)
    /\ SetOff(r, 1)
    /\ UNCHANGED <<mouseVars, linkVars, threshold, pollVars, told>>

\* Without a mouse it gives up.
RefreshReads(r) ==
    /\ refresh[r].left > 0
    /\ refresh[r].got = None
    /\ refresh' = [refresh EXCEPT ![r] = IF slot THEN [@ EXCEPT !.got = Observed] ELSE Resting]
    /\ UNCHANGED <<mouseVars, linkVars, threshold, pollVars, told>>

RefreshEnds(r) ==
    /\ refresh[r].got \notin {None, Failed}
    /\ told' = refresh[r].got
    /\ refresh' = [refresh EXCEPT ![r] = Resting]
    /\ UNCHANGED <<mouseVars, linkVars, threshold, pollVars>>

\* Half a second later it tries again, unless this was the last attempt.
RefreshFails(r) ==
    /\ refresh[r].got = Failed
    /\ refresh' = [refresh EXCEPT ![r] = [left |-> @.left - 1, got |-> None]]
    /\ UNCHANGED <<mouseVars, linkVars, threshold, pollVars, told>>

Refresh(r) == RefreshReads(r) \/ RefreshEnds(r) \/ RefreshFails(r)

-----------------------------------------------------------------------------
(* Who holds the mouse, and what clients hear of it. *)

\* get_battery and the other calls open an absent mouse, and tell nobody.
RpcOpens ==
    /\ ~slot
    /\ slot' = TRUE
    /\ UNCHANGED <<mouseVars, owed, handler, threshold, pollVars, refresh, told>>

\* A call's error that means the mouse is gone: invalidate_mouse, then the event.
RpcInvalidates ==
    /\ slot
    /\ ~awake
    /\ slot' = FALSE
    /\ told' = Gone
    /\ UNCHANGED <<mouseVars, owed, handler, threshold, pollVars, refresh>>

\* Connected: the mouse is stored and the clients told with the lock held.
Connected ==
    /\ handler = "absent"
    /\ handler' = "present"
    /\ slot' = TRUE
    /\ told' = Here
    /\ Fetch
    /\ UNCHANGED <<mouseVars, owed, threshold, pollVars>>

\* Disconnected and ModeChanged dispose the mouse first.  Its I/O task may have read an
\* error before: then a forwarder has that to pass on.
Dispose ==
    /\ handler = "present"
    /\ slot' = FALSE
    /\ owed' \in {owed, TRUE}
    /\ handler' \in {"leaving", "switching"}
    /\ UNCHANGED <<mouseVars, threshold, pollVars, refresh, told>>

Disconnected ==
    /\ handler = "leaving"
    /\ handler' = "absent"
    /\ told' = Gone
    /\ UNCHANGED <<mouseVars, slot, owed, threshold, pollVars, refresh>>

ModeChanged ==
    /\ handler = "switching"
    /\ handler' = "present"
    /\ slot' = TRUE
    /\ told' = Here
    /\ Fetch
    /\ UNCHANGED <<mouseVars, owed, threshold, pollVars>>

\* A mouse that cannot be opened in its new mode: nobody is told.
ModeChangeFails ==
    /\ handler = "switching"
    /\ handler' = "present"
    /\ UNCHANGED <<mouseVars, slot, owed, threshold, pollVars, refresh, told>>

Handler == Connected \/ Dispose \/ Disconnected \/ ModeChanged \/ ModeChangeFails

\* The forwarder of a lost handle, whenever it comes to it.
Forward ==
    /\ owed
    /\ owed' = FALSE
    /\ told' = Gone
    /\ UNCHANGED <<mouseVars, slot, handler, threshold, pollVars, refresh>>

-----------------------------------------------------------------------------

Next ==
    \/ Drain \/ Sleep \/ SetThreshold
    \/ Poll
    \/ \E r \in Refreshers : BatteryChanged(r) \/ Refresh(r)
    \/ RpcOpens \/ RpcInvalidates
    \/ Handler \/ Forward

Spec == Init /\ [][Next]_vars

\* Timers fire and tasks that can run do.
LiveSpec ==
    /\ Spec
    /\ WF_vars(Poll)
    /\ \A r \in Refreshers : WF_vars(Refresh(r))
    /\ WF_vars(Disconnected \/ ModeChanged \/ ModeChangeFails)
    /\ WF_vars(Forward)

-----------------------------------------------------------------------------
(* Properties. *)

\* A battery that hovers around the threshold alerts once (low_battery_transition): two
\* alerts with neither charging nor a new threshold between them are separated by a
\* reading five points above the threshold, or a full one, whatever polls failed and
\* whatever was read with an outdated threshold.
HoveringIsQuiet ==
    [][ (PollEnds /\ Emits(poll.got, poll.threshold) /\ peak # None)
          => peak >= Lesser(poll.threshold + 5, 100) ]_vars

\* A battery that is low and stays low is alerted, whatever the latch and a poll with an
\* outdated threshold left behind: the latch cannot stay open.
LowIsAlerted ==
    <>[](slot /\ awake /\ battery # Charging /\ battery <= threshold) => <>[]alerted

\* However the updates of the poll, the refreshes and the retries overtake each other,
\* and however late a forwarder reports the handle before: once the mouse stays
\* connected, awake and at its level, clients come to show that level and keep it.
StreamFollows ==
    \A b \in Reading :
        <>[](slot /\ awake /\ battery = b) => <>[](told = b)

-----------------------------------------------------------------------------
(* What the code says of itself and does not do; see the README. *)

\* "Daemon up, mouse connected" (TrayState::Battery, state.rs:10): no level is shown of
\* a mouse that stays away.
NoLevelOfNothing == <>[](~slot /\ handler = "absent") => <>[](told \in {Gone, Here})
=============================================================================
