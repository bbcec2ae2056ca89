----------------------------- MODULE DeviceSlot -----------------------------
(***************************************************************************)
(* The one place of the daemon that holds the mouse (server.rs): an        *)
(* Option<Mouse> behind an async mutex, opened on demand by RPC handlers,  *)
(* replaced and disposed by the hotplug event handler, polled for its      *)
(* battery, and watched by one notification forwarder per handle.          *)
(*                                                                         *)
(* The module composes the hotplug monitor of Hotplug.tla with these       *)
(* tasks.  A user "in the body" keeps the mutex while it talks to the      *)
(* mouse; what else happens under the lock is one action, and every await  *)
(* with the lock released is a point between two.                          *)
(***************************************************************************)
EXTENDS Hotplug

CONSTANTS Rpcs,      \* client calls that run concurrently
          Handles,   \* the Mouse values that can exist at a time
          NoHandle,  \* the empty slot
          Polling,   \* battery_poll_interval_secs is not 0
          Flaky      \* whether open may fail, a device time out and a client cancel

ASSUME RpcsAssumption == Rpcs \cap {"handler", "poll"} = {}
ASSUME NoHandleAssumption == NoHandle \notin Handles
ASSUME PollingAssumption == Polling \in BOOLEAN
ASSUME FlakyAssumption == Flaky \in BOOLEAN

VARIABLES mouse,    \* what has become of each handle, and which device it opened
          slot,     \* the handle in the mutex, or NoHandle
          at,       \* where each user of the slot stands
          using,    \* the handle each user has borrowed under the lock, or owns
          incoming, \* the event the handler works on
          view      \* what the last ConnectionChange told the clients

slotVars == <<mouse, slot, at, using, incoming, view>>
vars     == <<hotplugVars, slotVars>>

Users == Rpcs \cup {"handler", "poll"}

\* running: the IO task runs.  failed: it ended on a read error and broadcast
\* Disconnected.  told: the forwarder has passed that on.  free: the task was shut down,
\* its forwarder is gone, and nothing is left of the handle.
Handle == [state : {"free", "running", "failed", "told"}, iface : Iface, plug : 0..MaxPlugs]
Free   == [state |-> "free", iface |-> "Wired", plug |-> 0]

At == {"starting", "idle", "ensured", "body", "failing", "telling", "panicked",
       "disposing", "opening", "storing", "applying"}

TypeOK ==
    /\ HotplugTypeOK
    /\ mouse \in [Handles -> Handle]
    /\ slot \in Handles \cup {NoHandle}
    /\ at \in [Users -> At]
    /\ using \in [Users -> Handles \cup {NoHandle}]
    /\ incoming \in DeviceEvent \cup {NoEvent}
    /\ view \in {"unknown", "None"} \cup Iface

\* ScyroxService::new before its Mouse::open.
Init ==
    /\ HotplugInit
    /\ mouse = [h \in Handles |-> Free]
    /\ slot = NoHandle
    /\ at = [u \in Users |-> IF u = "handler" THEN "starting" ELSE "idle"]
    /\ using = [u \in Users |-> NoHandle]
    /\ incoming = NoEvent
    /\ view = "unknown"

-----------------------------------------------------------------------------
(* Handles and the lock. *)

\* Mutant of Locked: the guard is still held when the error is handled.
LockedUntilHandled == \E u \in Users : at[u] \in {"body", "failing"}

Locked == \E u \in Users : at[u] = "body"

Goto(u, place) == at' = [at EXCEPT ![u] = place]
Use(u, h)      == using' = [using EXCEPT ![u] = h]
Update(h, m)   == mouse' = [mouse EXCEPT ![h] = m]

\* The IO task of h runs and its device is still the one it opened.
Reachable(h) == mouse[h].state = "running" /\ path[mouse[h].iface] = mouse[h].plug

Owned(h) == slot = h \/ \E u \in Users : using[u] = h

\* Mouse::open takes the wired interface if it is there, else the dongle.
CanOpen   == Present(path) # {} /\ \E h \in Handles : mouse[h] = Free
CannotOpen == Flaky \/ ~CanOpen
Opened    == CHOOSE h \in Handles : mouse[h] = Free
Open(h)   == LET i == Best(Present(path)) IN
             Update(h, [state |-> "running", iface |-> i, plug |-> path[i]])

\* What is left of a handle whose owner lets it go: its IO task ends, unless it was
\* reading from a device that is gone and reports that first.
Dropped(h) ==
    CASE Reachable(h) -> {Free}
      [] mouse[h].state = "running" /\ ~Reachable(h) ->
           {Free, [mouse[h] EXCEPT !.state = "failed"]}
      [] mouse[h].state = "failed" -> {mouse[h]}
      [] OTHER -> {Free}

\* Mutant of Taken: the handle is shut down but stays in the slot.
TakenByReference == slot

\* The slot after guard.take().
Taken == NoHandle

\* dispose_mouse under the lock: take the handle and wait for its IO task to end.
Dispose ==
    /\ slot' = Taken
    /\ \/ slot = NoHandle /\ UNCHANGED mouse
       \/ slot # NoHandle /\ \E rest \in Dropped(slot) : Update(slot, rest)

LeaveBody(u) ==
    /\ at[u] = "body"
    /\ Use(u, NoHandle)
    /\ UNCHANGED <<hotplugVars, mouse, slot, incoming, view>>

-----------------------------------------------------------------------------
(* RPC handlers that use the mouse: with_mouse!, get_battery, apply_profile. *)

\* The server accepts calls once ScyroxService::new has returned.
Serving == at["handler"] # "starting"

\* ensure_mouse, all under the lock.
Ensure(r) ==
    /\ Serving
    /\ at[r] = "idle"
    /\ ~Locked
    /\ Goto(r, "ensured")
    /\ \/ slot # NoHandle /\ UNCHANGED <<mouse, slot>>
       \/ slot = NoHandle /\ CanOpen /\ Open(Opened) /\ slot' = Opened
    /\ UNCHANGED <<hotplugVars, using, incoming, view>>

\* ensure_mouse could not open the device: the client is told, nothing changes.
EnsureFails(r) ==
    /\ Serving
    /\ at[r] = "idle"
    /\ ~Locked
    /\ slot = NoHandle
    /\ CannotOpen
    /\ UNCHANGED vars

\* The lock is taken again and the slot unwrapped.
Enter(r) ==
    /\ at[r] = "ensured"
    /\ ~Locked
    /\ slot # NoHandle
    /\ Goto(r, "body")
    /\ Use(r, slot)
    /\ UNCHANGED <<hotplugVars, mouse, slot, incoming, view>>

\* Emptied in between: with_mouse! and apply_profile panic in unwrap, get_battery looks
\* first and returns an error.
EnterEmpty(r) ==
    /\ at[r] = "ensured"
    /\ ~Locked
    /\ slot = NoHandle
    /\ \E place \in {"idle", "panicked"} : Goto(r, place)
    /\ UNCHANGED <<hotplugVars, mouse, slot, using, incoming, view>>

\* The body succeeds.
Served(r) ==
    /\ LeaveBody(r)
    /\ Reachable(using[r])
    /\ Goto(r, "idle")

\* The body fails with an error that keeps the handle: a timeout, a failed write.
BodyErrs(r) ==
    /\ LeaveBody(r)
    /\ mouse[using[r]].state = "running"
    /\ Flaky \/ ~Reachable(using[r])
    /\ Goto(r, "idle")

\* Disconnected, ChannelClosed or TaskPanic: the guard is dropped before the handling.
BodyFails(r) ==
    /\ LeaveBody(r)
    /\ mouse[using[r]].state # "running"
    /\ Goto(r, "failing")

\* handle_mouse_error: invalidate_mouse disposes whatever the slot holds by now.
Invalidate(r) ==
    /\ at[r] = "failing"
    /\ ~Locked
    /\ Dispose
    /\ Goto(r, "telling")
    /\ UNCHANGED <<hotplugVars, using, incoming, view>>

TellInvalidated(r) ==
    /\ at[r] = "telling"
    /\ view' = "None"
    /\ Goto(r, "idle")
    /\ UNCHANGED <<hotplugVars, mouse, slot, using, incoming>>

\* The client goes away and tonic drops the handler's future, at any await.
Cancel(r) ==
    /\ Flaky
    /\ at[r] \in {"ensured", "body", "failing", "telling"}
    /\ Goto(r, "idle")
    /\ Use(r, NoHandle)
    /\ UNCHANGED <<hotplugVars, mouse, slot, incoming, view>>

Rpc(r) ==
    \/ Enter(r) \/ EnterEmpty(r) \/ Served(r) \/ BodyErrs(r) \/ BodyFails(r)
    \/ Invalidate(r) \/ TellInvalidated(r)

-----------------------------------------------------------------------------
(* ScyroxService::new, then create_device_event_handler. *)

\* The service opens the mouse, if it is there, before anything else runs.
StartUp ==
    /\ at["handler"] = "starting"
    /\ Goto("handler", "idle")
    /\ \/ CanOpen /\ Open(Opened) /\ slot' = Opened
       \/ CannotOpen /\ UNCHANGED <<mouse, slot>>
    /\ UNCHANGED <<hotplugVars, using, incoming, view>>

TakeEvent ==
    /\ at["handler"] = "idle"
    /\ Receive
    /\ incoming' = Head(events)
    /\ Goto("handler", IF Head(events).kind = "Connected" THEN "opening" ELSE "disposing")
    /\ UNCHANGED <<deviceVars, monitorVars, mouse, slot, using, view>>

\* Disconnected and ModeChanged dispose the handle in the slot first.
HandlerDisposes ==
    /\ at["handler"] = "disposing"
    /\ ~Locked
    /\ Dispose
    /\ Goto("handler", IF incoming.kind = "ModeChanged" THEN "opening" ELSE "telling")
    /\ UNCHANGED <<hotplugVars, using, incoming, view>>

HandlerTellsDisconnected ==
    /\ at["handler"] = "telling"
    /\ view' = "None"
    /\ incoming' = NoEvent
    /\ Goto("handler", "idle")
    /\ UNCHANGED <<hotplugVars, mouse, slot, using>>

\* Mouse::open without the lock, and its forwarder.
HandlerOpens ==
    /\ at["handler"] = "opening"
    /\ CanOpen
    /\ Open(Opened)
    /\ Use("handler", Opened)
    /\ Goto("handler", "storing")
    /\ UNCHANGED <<hotplugVars, slot, incoming, view>>

HandlerCannotOpen ==
    /\ at["handler"] = "opening"
    /\ CannotOpen
    /\ incoming' = NoEvent
    /\ Goto("handler", "idle")
    /\ UNCHANGED <<hotplugVars, mouse, slot, using, view>>

\* Mutant of Storable: the new handle is stored without waiting for the lock.
StorableAnytime == TRUE

Storable == ~Locked

\* Under the lock: the new handle replaces the old one, which is dropped, and the
\* clients hear of the mode the event named.
HandlerStores ==
    /\ at["handler"] = "storing"
    /\ Storable
    /\ slot' = using["handler"]
    /\ Use("handler", NoHandle)
    /\ \/ slot = NoHandle /\ UNCHANGED mouse
       \/ slot # NoHandle /\ \E rest \in Dropped(slot) \cup {mouse[slot]} : Update(slot, rest)
    /\ view' = incoming.to
    /\ incoming' = NoEvent
    /\ Goto("handler", "applying")
    /\ UNCHANGED hotplugVars

\* auto_apply_profile has nothing to apply, or finds the mouse gone again.
HandlerSkipsApply ==
    /\ at["handler"] = "applying"
    /\ Goto("handler", "idle")
    /\ UNCHANGED <<hotplugVars, mouse, slot, using, incoming, view>>

HandlerApplies ==
    /\ at["handler"] = "applying"
    /\ ~Locked
    /\ slot # NoHandle
    /\ Goto("handler", "body")
    /\ Use("handler", slot)
    /\ UNCHANGED <<hotplugVars, mouse, slot, incoming, view>>

\* set_config has ended; an error is only logged.
HandlerApplied ==
    /\ LeaveBody("handler")
    /\ Goto("handler", "idle")

Handler ==
    \/ StartUp \/ TakeEvent \/ HandlerDisposes \/ HandlerTellsDisconnected
    \/ HandlerOpens \/ HandlerCannotOpen \/ HandlerStores
    \/ HandlerSkipsApply \/ HandlerApplies \/ HandlerApplied

-----------------------------------------------------------------------------
(* create_battery_poll_task; the other battery fetches use the slot the same way. *)

\* A tick takes a sample under the lock; with no mouse in the slot it does nothing.
PollSamples ==
    /\ Polling
    /\ Serving
    /\ at["poll"] = "idle"
    /\ ~Locked
    /\ slot # NoHandle
    /\ Goto("poll", "body")
    /\ Use("poll", slot)
    /\ UNCHANGED <<hotplugVars, mouse, slot, incoming, view>>

\* A sample is broadcast as a BatteryUpdate.
PollSends ==
    /\ LeaveBody("poll")
    /\ Reachable(using["poll"])
    /\ Goto("poll", "idle")

\* Every error is only logged, and the handle kept.
PollFails ==
    /\ LeaveBody("poll")
    /\ Flaky \/ ~Reachable(using["poll"])
    /\ Goto("poll", "idle")

BatteryPoll == PollSamples \/ PollSends \/ PollFails

-----------------------------------------------------------------------------
(* The IO task and the notification forwarder of each handle. *)

\* io.rs: a read from a device that is gone fails and ends the task.
TaskFails(h) ==
    /\ mouse[h].state = "running"
    /\ ~Reachable(h)
    /\ Update(h, [mouse[h] EXCEPT !.state = "failed"])
    /\ UNCHANGED <<hotplugVars, slot, at, using, incoming, view>>

\* The handle was dropped and its IO task finds the command channel closed.
TaskEnds(h) ==
    /\ mouse[h].state = "running"
    /\ ~Owned(h)
    /\ Update(h, Free)
    /\ UNCHANGED <<hotplugVars, slot, at, using, incoming, view>>

\* spawn_notification_forwarder: a Disconnected notification becomes a ConnectionChange,
\* whatever the slot holds by then.
ForwarderTells(h) ==
    /\ mouse[h].state = "failed"
    /\ Update(h, IF Owned(h) THEN [mouse[h] EXCEPT !.state = "told"] ELSE Free)
    /\ view' = "None"
    /\ UNCHANGED <<hotplugVars, slot, at, using, incoming>>

Background(h) == TaskFails(h) \/ TaskEnds(h) \/ ForwarderTells(h)

-----------------------------------------------------------------------------

Environment ==
    /\ \/ \E i \in Iface : Plug(i) \/ Unplug(i)
       \/ Monitor
    /\ UNCHANGED slotVars

Next ==
    \/ Environment
    \/ \E r \in Rpcs : Ensure(r) \/ EnsureFails(r) \/ Rpc(r) \/ Cancel(r)
    \/ Handler
    \/ BatteryPoll
    \/ \E h \in Handles : Background(h)

\* The runtime polls every task that can run and hands its mutex over in the order of
\* arrival, the monitor polls and the ticker ticks.  Clients and users owe nothing.
Fairness ==
    /\ WF_vars(Poll /\ UNCHANGED slotVars)
    /\ \A r \in Rpcs : SF_vars(Rpc(r))
    /\ SF_vars(Handler)
    /\ SF_vars(BatteryPoll)
    /\ \A h \in Handles : WF_vars(Background(h))

Safety == Init /\ [][Next]_vars
Spec   == Safety /\ Fairness

\* Clients that never stop calling.
Insistent == Spec /\ \A r \in Rpcs : SF_vars(Ensure(r))

-----------------------------------------------------------------------------
(* Properties. *)

\* Whoever talks to the mouse talks to the handle in the slot, alone: no interleaving of
\* RPCs, hotplug events, battery polls and error handling replaces or disposes a handle
\* under the task that is using it.
BorrowedFromSlot ==
    \A u \in Users : at[u] = "body" =>
        /\ slot # NoHandle
        /\ using[u] = slot
        /\ \A v \in Users \ {u} : at[v] # "body"

\* The slot never offers a handle that was shut down or dropped.
SlotNotShutDown == slot # NoHandle => mouse[slot] # Free

\* Every call that uses the mouse comes back, whatever happens to the device under it.
RpcReturns == \A r \in Rpcs : at[r] # "idle" ~> at[r] \in {"idle", "panicked"}

\* Once the device stays away, the clients are no longer told that it is connected.
GoneIsTold ==
    [](monitor # "failed") /\ <>[](Present(path) = {}) => <>[](view \notin Iface)

\* Once a device is there to stay, a client that keeps calling gets through again, no
\* matter which dead handle the slot was left with.
RpcRecovers ==
    <>[](Present(path) # {}) =>
        \A r \in Rpcs : []<><<Served(r)>>_vars \/ <>(at[r] = "panicked")
-----------------------------------------------------------------------------
(* What the comments of server.rs say and the code does not do; see the README. *)

\* "1. Ensure the mouse is connected, 2. Lock the mouse mutex, 3. Execute the body"
\* (with_mouse!, server.rs:41-43): a call that found the mouse connected executes its
\* body or returns; it never panics on the slot it unwraps.
EnsuredBeforeBody == \A r \in Rpcs : at[r] # "panicked"

\* "Called when we detect the device has been disconnected" (invalidate_mouse,
\* server.rs:172): the connection it drops is one whose device has disconnected.
OnlyDeadInvalidated ==
    [][\A r \in Rpcs : Invalidate(r) /\ slot # NoHandle => ~Reachable(slot)]_vars

\* "Broadcasts a BatteryUpdate every battery_poll_interval_secs while the mouse is
\* connected" (server.rs:405): with a device that is there to stay and a handle that
\* stays in the slot, the poll task keeps broadcasting.
PollDelivers ==
    /\ [](monitor # "failed")
    /\ <>[](Present(path) # {} /\ slot # NoHandle)
    => []<><<PollSends>>_vars
=============================================================================
