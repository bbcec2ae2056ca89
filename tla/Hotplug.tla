------------------------------ MODULE Hotplug ------------------------------
(***************************************************************************)
(* The hotplug monitor of the daemon (hotplug.rs): a blocking thread that  *)
(* enumerates the HID devices every second, compares what it finds with    *)
(* the paths it knows, and broadcasts Connected, Disconnected and          *)
(* ModeChanged events.                                                     *)
(*                                                                         *)
(* The mouse shows up as a wired interface, as a wireless dongle, or both. *)
(* Every enumeration of a device gets a number of its own, which stands    *)
(* for its HID path; 0 means that the interface is absent.                 *)
(***************************************************************************)
EXTENDS Naturals, Sequences

CONSTANTS MaxPlugs,      \* bound: how often a device is plugged in
          EventCapacity  \* slots of the broadcast channel (16)

ASSUME MaxPlugsAssumption == MaxPlugs \in Nat \ {0}
ASSUME EventCapacityAssumption == EventCapacity \in Nat \ {0}

VARIABLES path,     \* the enumeration number of each interface, now
          plugs,    \* enumerations so far
          known,    \* wired_path and wireless_path of DeviceState
          active,   \* active_mode of DeviceState
          monitor,  \* whether the monitor thread has started, runs, or failed
          events    \* events sent and not yet received

deviceVars  == <<path, plugs>>
monitorVars == <<known, active, monitor>>
hotplugVars == <<path, plugs, known, active, monitor, events>>

Iface == {"Wired", "Wireless"}
Mode  == Iface \cup {"None"}

Connected(to)         == [kind |-> "Connected", from |-> "None", to |-> to]
Disconnected(from)    == [kind |-> "Disconnected", from |-> from, to |-> "None"]
ModeChanged(from, to) == [kind |-> "ModeChanged", from |-> from, to |-> to]
NoEvent               == [kind |-> "NoEvent", from |-> "None", to |-> "None"]

DeviceEvent ==
    {Connected(m) : m \in Iface} \cup {Disconnected(m) : m \in Iface}
        \cup {ModeChanged(m, n) : m, n \in Iface}

HotplugTypeOK ==
    /\ path \in [Iface -> 0..MaxPlugs]
    /\ plugs \in 0..MaxPlugs
    /\ known \in [Iface -> 0..MaxPlugs]
    /\ active \in Mode
    /\ monitor \in {"starting", "running", "failed"}
    /\ events \in Seq(DeviceEvent)
    /\ Len(events) <= EventCapacity

Present(paths) == {i \in Iface : paths[i] # 0}

HotplugInit ==
    /\ path \in {[i \in Iface |-> IF i \in S THEN 1 ELSE 0] : S \in SUBSET Iface}
    /\ plugs = 1
    /\ known = [i \in Iface |-> 0]
    /\ active = "None"
    /\ monitor = "starting"
    /\ events = << >>

-----------------------------------------------------------------------------
(* The user, outside the program. *)

Plug(i) ==
    /\ path[i] = 0
    /\ plugs < MaxPlugs
    /\ plugs' = plugs + 1
    /\ path' = [path EXCEPT ![i] = plugs + 1]
    /\ UNCHANGED <<monitorVars, events>>

Unplug(i) ==
    /\ path[i] # 0
    /\ path' = [path EXCEPT ![i] = 0]
    /\ UNCHANGED <<plugs, monitorVars, events>>

-----------------------------------------------------------------------------
(* The monitor. *)

\* Wired takes priority.
Best(S) == IF "Wired" \in S THEN "Wired"
           ELSE IF "Wireless" \in S THEN "Wireless" ELSE "None"

\* init_from_current_devices: no event is sent for a device that is already there.
StartMonitor ==
    /\ monitor = "starting"
    /\ monitor' = "running"
    /\ known' = path
    /\ active' = Best(Present(path))
    /\ UNCHANGED <<deviceVars, events>>

\* HidApi::new failed: the thread ends, and with it every later event.
FailMonitor ==
    /\ monitor = "starting"
    /\ monitor' = "failed"
    /\ UNCHANGED <<deviceVars, known, active, events>>

\* Mutant of Detect: unplugging the cable disconnects even with the dongle there.
DetectNoFallback(was, is, mode) ==
    IF "Wired" \in was \ is THEN Disconnected("Wired")
    ELSE IF "Wired" \in is \ was /\ mode = "Wireless" THEN ModeChanged("Wireless", "Wired")
    ELSE IF is # {} /\ mode = "None" THEN Connected(Best(is))
    ELSE IF was # {} /\ is = {} THEN Disconnected("Wireless")
    ELSE NoEvent

\* Mutant of Detect: the arm of the vanished dongle is missing.
DetectForgetsDongle(was, is, mode) ==
    IF is = {} /\ mode = "Wireless" THEN NoEvent
    ELSE IF is = {} /\ mode = "Wired" THEN Disconnected("Wired")
    ELSE IF "Wired" \in is /\ mode = "Wireless" THEN ModeChanged("Wireless", "Wired")
    ELSE IF "Wired" \notin is /\ mode = "Wired" THEN ModeChanged("Wired", "Wireless")
    ELSE IF is # {} /\ mode = "None" THEN Connected(Best(is))
    ELSE NoEvent

\* The match of DeviceState::update on the interfaces present before and now: the first
\* arm that applies.  The event, if any, carries the new active mode.
Detect(was, is, mode) ==
    IF "Wired" \in is \ was THEN
        IF mode = "Wireless" THEN ModeChanged("Wireless", "Wired")
        ELSE IF mode = "None" THEN Connected("Wired")
        ELSE NoEvent
    ELSE IF "Wired" \in was \ is THEN
        IF mode # "Wired" THEN NoEvent
        ELSE IF "Wireless" \in is THEN ModeChanged("Wired", "Wireless")
        ELSE Disconnected("Wired")
    ELSE IF "Wireless" \in is \ was THEN
        IF mode = "None" THEN Connected("Wireless") ELSE NoEvent
    ELSE IF "Wireless" \in was \ is /\ mode = "Wireless" /\ "Wired" \notin is THEN
        Disconnected("Wireless")
    ELSE NoEvent

\* Mutant of Kept: an unbounded channel.
KeptAll == events

\* A full broadcast channel drops its oldest event; the receiver will see Lagged.
Kept == IF Len(events) < EventCapacity THEN events ELSE Tail(events)

Send(e) == events' = Append(Kept, e)

\* One iteration of monitor_loop.
Poll ==
    /\ monitor = "running"
    /\ known' = path
    /\ LET e == Detect(Present(known), Present(path), active) IN
         \/ e = NoEvent /\ UNCHANGED <<active, events>>
         \/ e # NoEvent /\ active' = e.to /\ Send(e)
    /\ UNCHANGED <<deviceVars, monitor>>

Monitor == StartMonitor \/ FailMonitor \/ Poll

\* The receiver of the channel takes the oldest event.
Receive ==
    /\ events # << >>
    /\ events' = Tail(events)

HotplugNext ==
    \/ \E i \in Iface : Plug(i) \/ Unplug(i)
    \/ Monitor
    \/ Receive /\ UNCHANGED <<deviceVars, monitorVars>>

HotplugSpec ==
    HotplugInit /\ [][HotplugNext]_hotplugVars /\ WF_hotplugVars(Poll)

-----------------------------------------------------------------------------
(* Properties. *)

\* The active mode is wired exactly when the wired interface is known, wireless exactly
\* when only the dongle is, and none when neither is: no order of appearances and
\* disappearances between polls leaves DeviceState claiming an interface that is gone.
ActiveFollowsPaths ==
    /\ active = "Wired" <=> known["Wired"] # 0
    /\ active = "Wireless" <=> known["Wired"] = 0 /\ known["Wireless"] # 0

\* The events a receiver still has to read, even after a lag, form one story that ends
\* in the monitor's active mode: each event starts from the mode the one before left.
EventsTellOneStory ==
    /\ \A k \in 1..Len(events) - 1 : events[k].to = events[k + 1].from
    /\ events # << >> => events[Len(events)].to = active

\* A running monitor arrives, again and again, at the mode Mouse::open would choose for
\* what is plugged in, whatever it believed before; plugging ends with MaxPlugs.
ModeSettles ==
    []<>(monitor = "running" => active = Best(Present(path)))
=============================================================================
