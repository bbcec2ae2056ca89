-------------------------- MODULE DeviceSlotProofs --------------------------
(***************************************************************************)
(* Proofs about the hotplug monitor, for any number of enumerations and    *)
(* any capacity of the event channel, and about the slot that holds the    *)
(* mouse, for any number of client calls and of handles besides.           *)
(***************************************************************************)
EXTENDS DeviceSlot, SequenceTheorems, TLAPS

-----------------------------------------------------------------------------
(* The hotplug monitor on its own: modes, events and the channel. *)

\* Interfaces and modes, spelled out.
LEMMA Interfaces ==
    /\ Iface = {"Wired", "Wireless"}
    /\ Mode = {"Wired", "Wireless", "None"}
    /\ \A paths : Present(paths) = {i \in Iface : paths[i] # 0}
  BY DEF Iface, Mode, Present

\* The mode Mouse::open would choose: none, the cable if it is there, or the dongle.
LEMMA BestMode ==
    ASSUME NEW paths \in [Iface -> Nat]
    PROVE  /\ Best(Present(paths)) \in Mode
           /\ Best(Present(paths)) = "Wired" <=> paths["Wired"] # 0
           /\ Best(Present(paths)) = "Wireless"
                <=> paths["Wired"] = 0 /\ paths["Wireless"] # 0
  BY DEF Best, Present, Mode, Iface

\* What the match of DeviceState::update makes of a change: an event that leaves the
\* mode it found, for the mode that is best now; no event when they are the same.
LEMMA DetectIsBest ==
    ASSUME NEW was \in SUBSET Iface, NEW is \in SUBSET Iface
    PROVE  /\ Detect(was, is, Best(was)) = NoEvent => Best(is) = Best(was)
           /\ Detect(was, is, Best(was)) # NoEvent =>
                /\ Detect(was, is, Best(was)) \in DeviceEvent
                /\ Detect(was, is, Best(was)).from = Best(was)
                /\ Detect(was, is, Best(was)).to = Best(is)
<1>1. /\ \A m \in Iface : Connected(m) \in DeviceEvent /\ Disconnected(m) \in DeviceEvent
      /\ \A m, n \in Iface : ModeChanged(m, n) \in DeviceEvent
      /\ \A m : /\ Connected(m).from = "None" /\ Connected(m).to = m
                /\ Disconnected(m).from = m /\ Disconnected(m).to = "None"
      /\ \A m, n : ModeChanged(m, n).from = m /\ ModeChanged(m, n).to = n
      /\ NoEvent.from = "None" /\ NoEvent.to = "None"
  <2>1. \A m \in Iface : Connected(m) \in DeviceEvent /\ Disconnected(m) \in DeviceEvent
    BY DEF DeviceEvent
  <2>2. \A m, n \in Iface : ModeChanged(m, n) \in DeviceEvent
    BY DEF DeviceEvent
  <2> QED  BY <2>1, <2>2 DEF Connected, Disconnected, ModeChanged, NoEvent
<1>2. \A S \in SUBSET Iface :
        /\ "Wired" \in S => Best(S) = "Wired"
        /\ "Wired" \notin S /\ "Wireless" \in S => Best(S) = "Wireless"
        /\ "Wired" \notin S /\ "Wireless" \notin S => Best(S) = "None"
  BY DEF Best
<1>3. "Wired" \in Iface /\ "Wireless" \in Iface
  BY DEF Iface
<1> DEFINE e == Detect(was, is, Best(was))
<1>4. CASE "Wired" \in was
  <2>1. Best(was) = "Wired"
    BY <1>2, <1>4
  <2>2. "Wired" \in is => e = NoEvent /\ Best(is) = "Wired"
    BY <1>2, <1>4, <2>1 DEF Detect
  <2>3. "Wired" \notin is /\ "Wireless" \in is =>
            e = ModeChanged("Wired", "Wireless") /\ Best(is) = "Wireless"
    BY <1>2, <1>4, <2>1 DEF Detect
  <2>4. "Wired" \notin is /\ "Wireless" \notin is =>
            e = Disconnected("Wired") /\ Best(is) = "None"
    BY <1>2, <1>4, <2>1 DEF Detect
  <2> QED  BY <1>1, <1>3, <2>1, <2>2, <2>3, <2>4
<1>5. CASE "Wired" \notin was /\ "Wireless" \in was
  <2>1. Best(was) = "Wireless"
    BY <1>2, <1>5
  <2>2. "Wired" \in is => e = ModeChanged("Wireless", "Wired") /\ Best(is) = "Wired"
    BY <1>2, <1>5, <2>1 DEF Detect
  <2>3. "Wired" \notin is /\ "Wireless" \in is => e = NoEvent /\ Best(is) = "Wireless"
    BY <1>2, <1>5, <2>1 DEF Detect
  <2>4. "Wired" \notin is /\ "Wireless" \notin is =>
            e = Disconnected("Wireless") /\ Best(is) = "None"
    BY <1>2, <1>5, <2>1 DEF Detect
  <2> QED  BY <1>1, <1>3, <2>1, <2>2, <2>3, <2>4
<1>6. CASE "Wired" \notin was /\ "Wireless" \notin was
  <2>1. Best(was) = "None"
    BY <1>2, <1>6
  <2>2. "Wired" \in is => e = Connected("Wired") /\ Best(is) = "Wired"
    BY <1>2, <1>6, <2>1 DEF Detect
  <2>3. "Wired" \notin is /\ "Wireless" \in is =>
            e = Connected("Wireless") /\ Best(is) = "Wireless"
    BY <1>2, <1>6, <2>1 DEF Detect
  <2>4. "Wired" \notin is /\ "Wireless" \notin is => e = NoEvent /\ Best(is) = "None"
    BY <1>2, <1>6, <2>1 DEF Detect
  <2> QED  BY <1>1, <1>3, <2>1, <2>2, <2>3, <2>4
<1> QED  BY <1>4, <1>5, <1>6

\* The active mode is Best of the known interfaces.
LEMMA ActiveIsBest ==
    ASSUME HotplugTypeOK
    PROVE  ActiveFollowsPaths <=> active = Best(Present(known))
  BY MaxPlugsAssumption DEF ActiveFollowsPaths, HotplugTypeOK, Best, Present, Iface, Mode

\* Events within the capacity of the channel.
Channel == {q \in Seq(DeviceEvent) : Len(q) <= EventCapacity}

\* A queue of events stays within its capacity, with one more event or one fewer.
LEMMA EventQueue ==
    ASSUME events \in Channel
    PROVE  /\ Len(events) \in Nat
           /\ \A e \in DeviceEvent : Send(e) => events' \in Channel
           /\ Receive => events' \in Channel
<1> USE EventCapacityAssumption
<1>1. /\ events \in Seq(DeviceEvent)
      /\ Len(events) \in Nat /\ Len(events) <= EventCapacity
      /\ events # << >> => Tail(events) \in Seq(DeviceEvent)
      /\ events # << >> => Len(Tail(events)) = Len(events) - 1
  BY LenProperties, HeadTailProperties DEF Channel
<1>2. /\ Kept \in Seq(DeviceEvent)
      /\ Len(Kept) < EventCapacity
  <2>1. Len(events) = EventCapacity => events # << >>
    BY EmptySeq
  <2> QED  BY <1>1, <2>1 DEF Kept
<1>3. ASSUME NEW e \in DeviceEvent, Send(e)
      PROVE  events' \in Channel
  <2>1. events' \in Seq(DeviceEvent) /\ Len(events') = Len(Kept) + 1
    BY <1>2, <1>3, AppendProperties DEF Send
  <2> QED  BY <1>2, <2>1, LenProperties DEF Channel
<1>4. Receive => events' \in Channel
  BY <1>1 DEF Receive, Channel
<1> QED  BY <1>1, <1>3, <1>4

-----------------------------------------------------------------------------

\* The state of the monitor and of the channel keeps its type.
LEMMA HotplugTypeStep ==
    ASSUME HotplugTypeOK, ActiveFollowsPaths, [HotplugNext]_hotplugVars
    PROVE  HotplugTypeOK'
<1> USE DEF HotplugTypeOK, deviceVars, monitorVars
<1>a. /\ events \in Channel
      /\ events' \in Channel
           <=> events' \in Seq(DeviceEvent) /\ Len(events') <= EventCapacity
  BY DEF Channel
<1>1. ASSUME NEW i \in Iface, Plug(i)
      PROVE  HotplugTypeOK'
  BY <1>1, MaxPlugsAssumption DEF Plug
<1>2. ASSUME NEW i \in Iface, Unplug(i)
      PROVE  HotplugTypeOK'
  BY <1>2, MaxPlugsAssumption DEF Unplug
<1>3. CASE StartMonitor
  BY <1>3, BestMode, MaxPlugsAssumption DEF StartMonitor
<1>4. CASE FailMonitor
  BY <1>4 DEF FailMonitor
<1>5. CASE Poll
  <2>1. PICK e : /\ e = Detect(Present(known), Present(path), active)
                 /\ \/ e = NoEvent /\ UNCHANGED <<active, events>>
                    \/ e # NoEvent /\ active' = e.to /\ Send(e)
    BY <1>5 DEF Poll
  <2>2. /\ active = Best(Present(known))
        /\ Present(known) \in SUBSET Iface
        /\ Present(path) \in SUBSET Iface
        /\ Best(Present(path)) \in Mode
    BY ActiveIsBest, BestMode, MaxPlugsAssumption DEF Present
  <2>3. e # NoEvent => e \in DeviceEvent /\ e.to \in Mode
    BY <2>1, <2>2, DetectIsBest
  <2>4. active' \in Mode
    BY <2>1, <2>3
  <2>5. events' \in Channel
    BY <1>a, <2>1, <2>3, EventQueue
  <2> QED  BY <1>a, <1>5, <2>4, <2>5 DEF Poll
<1>6. CASE Receive /\ UNCHANGED <<deviceVars, monitorVars>>
  BY <1>a, <1>6, EventQueue
<1>7. CASE UNCHANGED hotplugVars
  BY <1>7 DEF hotplugVars
<1> QED
  BY <1>1, <1>2, <1>3, <1>4, <1>5, <1>6, <1>7 DEF HotplugNext, Monitor

\* The active mode follows the known paths through every match arm.
LEMMA ActiveStep ==
    ASSUME HotplugTypeOK, HotplugTypeOK', ActiveFollowsPaths, [HotplugNext]_hotplugVars
    PROVE  ActiveFollowsPaths'
<1> USE DEF deviceVars, monitorVars
<1>1. CASE UNCHANGED <<known, active>>
  BY <1>1 DEF ActiveFollowsPaths
<1>2. CASE StartMonitor
  BY <1>2, BestMode, MaxPlugsAssumption DEF StartMonitor, HotplugTypeOK, ActiveFollowsPaths
<1>3. CASE Poll
  <2>1. active = Best(Present(known))
    BY ActiveIsBest
  <2>2. active' = Best(Present(path)) /\ known' = path
    <3>1. Present(known) \in SUBSET Iface /\ Present(path) \in SUBSET Iface
      BY DEF Present
    <3> QED  BY <1>3, <2>1, <3>1, DetectIsBest DEF Poll
  <2> QED
    BY <2>2, BestMode, MaxPlugsAssumption DEF HotplugTypeOK, ActiveFollowsPaths
<1> QED
  BY <1>1, <1>2, <1>3
  DEF HotplugNext, Monitor, Plug, Unplug, FailMonitor, Receive, hotplugVars

\* A monitor that does not run has sent nothing.
QuietUnlessRunning == monitor # "running" => events = << >>

\* The state of the monitor, taken together.
HotplugInv == HotplugTypeOK /\ ActiveFollowsPaths /\ QuietUnlessRunning

\* The invariant holds at first.
LEMMA HotplugInvInit == HotplugInit => HotplugInv
<1> SUFFICES ASSUME HotplugInit
             PROVE  HotplugInv
  OBVIOUS
<1>1. HotplugTypeOK
  BY EmptySeq, MaxPlugsAssumption, EventCapacityAssumption
  DEF HotplugInit, HotplugTypeOK, Iface, Mode
<1> QED
  BY <1>1 DEF HotplugInit, HotplugInv, ActiveFollowsPaths, QuietUnlessRunning, Iface

\* Every step of monitor, user and receiver keeps it.
LEMMA HotplugInvStep == HotplugInv /\ [HotplugNext]_hotplugVars => HotplugInv'
<1> SUFFICES ASSUME HotplugInv, [HotplugNext]_hotplugVars
             PROVE  HotplugInv'
  OBVIOUS
<1>1. HotplugTypeOK' /\ ActiveFollowsPaths'
  BY HotplugTypeStep, ActiveStep DEF HotplugInv
<1>2. QuietUnlessRunning'
  BY DEF HotplugInv, QuietUnlessRunning, HotplugNext, Monitor, Plug, Unplug, StartMonitor,
         FailMonitor, Poll, Receive, deviceVars, monitorVars, hotplugVars
<1> QED  BY <1>1, <1>2 DEF HotplugInv

\* Every variable of the monitor keeps its type.
THEOREM HotplugTypeCorrect == HotplugSpec => []HotplugTypeOK
  BY HotplugInvInit, HotplugInvStep, PTL DEF HotplugSpec, HotplugInv

\* DeviceState never claims an interface that it knows to be gone, nor misses one that
\* it knows, whatever comes and goes between two polls.
THEOREM ActiveCorrect == HotplugSpec => []ActiveFollowsPaths
  BY HotplugInvInit, HotplugInvStep, PTL DEF HotplugSpec, HotplugInv

-----------------------------------------------------------------------------
(* The story the events tell. *)

\* Each event of s starts from the mode the one before it left, and the last leaves mode.
Story(s, mode) ==
    /\ \A k \in 1..Len(s) - 1 : s[k].to = s[k + 1].from
    /\ s # << >> => s[Len(s)].to = mode

\* One more event that starts from the mode the story ended in.
LEMMA StoryAppend ==
    ASSUME NEW s \in Seq(DeviceEvent), NEW mode, Story(s, mode),
           NEW e \in DeviceEvent, e.from = mode
    PROVE  Story(Append(s, e), e.to)
<1>1. /\ Len(s) \in Nat
      /\ Len(Append(s, e)) = Len(s) + 1
      /\ Append(s, e) # << >>
      /\ \A i \in 1..Len(s) : Append(s, e)[i] = s[i]
      /\ Append(s, e)[Len(s) + 1] = e
  BY LenProperties
<1>2. ASSUME NEW k \in 1..Len(Append(s, e)) - 1
      PROVE  Append(s, e)[k].to = Append(s, e)[k + 1].from
  <2>1. CASE k = Len(s)
    BY <1>1, <1>2, <2>1, EmptySeq DEF Story
  <2>2. CASE k # Len(s)
    <3>1. k \in 1..Len(s) - 1 /\ k \in 1..Len(s) /\ k + 1 \in 1..Len(s)
      BY <1>1, <1>2, <2>2
    <3> QED  BY <1>1, <3>1 DEF Story
  <2> QED  BY <2>1, <2>2
<1> QED  BY <1>1, <1>2 DEF Story

\* Losing the oldest event leaves the end of the story.
LEMMA StoryTail ==
    ASSUME NEW s \in Seq(DeviceEvent), NEW mode, Story(s, mode), s # << >>
    PROVE  Story(Tail(s), mode)
<1>1. /\ Len(s) \in Nat \ {0}
      /\ Tail(s) \in Seq(DeviceEvent)
      /\ Len(Tail(s)) = Len(s) - 1
      /\ \A i \in 1..Len(Tail(s)) : Tail(s)[i] = s[i + 1]
  BY HeadTailProperties, EmptySeq
<1>2. ASSUME NEW k \in 1..Len(Tail(s)) - 1
      PROVE  Tail(s)[k].to = Tail(s)[k + 1].from
  <2>1. k \in 1..Len(Tail(s)) /\ k + 1 \in 1..Len(Tail(s)) /\ k + 1 \in 1..Len(s) - 1
    BY <1>1, <1>2
  <2> QED  BY <1>1, <2>1 DEF Story
<1>3. ASSUME Tail(s) # << >>
      PROVE  Tail(s)[Len(Tail(s))].to = mode
  <2>1. Len(Tail(s)) \in Nat \ {0}
    BY <1>1, <1>3, EmptySeq
  <2>2. Tail(s)[Len(Tail(s))] = s[Len(s)]
    BY <1>1, <2>1
  <2> QED  BY <2>2 DEF Story
<1> QED  BY <1>2, <1>3 DEF Story

\* A step of monitor, user or receiver keeps the story in one piece.
LEMMA StoryStep ==
    ASSUME HotplugInv, EventsTellOneStory, [HotplugNext]_hotplugVars
    PROVE  EventsTellOneStory'
<1>a. Story(events, active) /\ events \in Seq(DeviceEvent)
  BY DEF EventsTellOneStory, Story, HotplugInv, HotplugTypeOK
<1>1. CASE UNCHANGED <<events, active>>
  BY <1>1 DEF EventsTellOneStory
<1>2. CASE StartMonitor
  <2>1. events' = << >>
    BY <1>2 DEF StartMonitor, HotplugInv, QuietUnlessRunning
  <2> QED  BY <2>1, EmptySeq DEF EventsTellOneStory
<1>3. CASE Receive /\ UNCHANGED <<deviceVars, monitorVars>>
  <2>1. Story(events', active')
    BY <1>3, <1>a, StoryTail DEF Receive, monitorVars
  <2> QED  BY <2>1 DEF EventsTellOneStory, Story
<1>4. CASE Poll
  <2>1. PICK e : /\ e = Detect(Present(known), Present(path), active)
                 /\ \/ e = NoEvent /\ UNCHANGED <<active, events>>
                    \/ e # NoEvent /\ active' = e.to /\ Send(e)
    BY <1>4 DEF Poll
  <2>2. /\ active = Best(Present(known))
        /\ Present(known) \in SUBSET Iface
        /\ Present(path) \in SUBSET Iface
    BY ActiveIsBest DEF HotplugInv, Present
  <2>3. e # NoEvent => e \in DeviceEvent /\ e.from = active
    BY <2>1, <2>2, DetectIsBest
  <2>4. CASE e # NoEvent
    <3>1. PICK s \in Seq(DeviceEvent) : Story(s, active) /\ events' = Append(s, e)
      <4>1. CASE Len(events) < EventCapacity
        BY <1>a, <2>1, <2>4, <4>1 DEF Send, Kept
      <4>2. CASE ~(Len(events) < EventCapacity)
        <5>1. events # << >>
          BY <4>2, EmptySeq, EventCapacityAssumption
        <5> QED  BY <1>a, <2>1, <2>4, <4>2, <5>1, StoryTail, HeadTailProperties
             DEF Send, Kept
      <4> QED  BY <4>1, <4>2
    <3>2. Story(events', active')
      BY <2>1, <2>3, <2>4, <3>1, StoryAppend
    <3> QED  BY <3>2 DEF EventsTellOneStory, Story
  <2> QED  BY <1>1, <2>1, <2>4
<1>5. CASE \/ \E i \in Iface : Plug(i) \/ Unplug(i)
           \/ FailMonitor
           \/ UNCHANGED hotplugVars
  BY <1>1, <1>5 DEF Plug, Unplug, FailMonitor, monitorVars, hotplugVars
<1> QED
  BY <1>2, <1>3, <1>4, <1>5 DEF HotplugNext, Monitor

\* What a receiver still has to read is one story that ends in the monitor's mode, also
\* after it lagged behind and the channel dropped the oldest events.
THEOREM StoryCorrect == HotplugSpec => []EventsTellOneStory
<1>1. HotplugInit => EventsTellOneStory
  BY EmptySeq DEF HotplugInit, EventsTellOneStory
<1> QED  BY <1>1, HotplugInvInit, HotplugInvStep, StoryStep, PTL DEF HotplugSpec

-----------------------------------------------------------------------------
(* The hotplug monitor inside the daemon. *)

\* Whatever the daemon does, the monitor, the user and the event channel take a step of
\* Hotplug or none.
LEMMA HotplugStep == [Next]_vars => [HotplugNext]_hotplugVars
<1> SUFFICES ASSUME [Next]_vars
             PROVE  [HotplugNext]_hotplugVars
  OBVIOUS
<1>1. CASE Environment
  BY <1>1 DEF Environment, HotplugNext, Monitor
<1>2. ASSUME NEW r \in Rpcs, Ensure(r) \/ EnsureFails(r) \/ Rpc(r) \/ Cancel(r)
      PROVE  UNCHANGED hotplugVars
  BY <1>2 DEF Ensure, EnsureFails, Rpc, Enter, EnterEmpty, Served, BodyErrs, BodyFails,
              LeaveBody, Invalidate, TellInvalidated, Cancel, vars
<1>3. CASE TakeEvent
  BY <1>3 DEF TakeEvent, HotplugNext
<1>4. CASE \/ StartUp \/ HandlerDisposes \/ HandlerTellsDisconnected
           \/ HandlerOpens \/ HandlerCannotOpen \/ HandlerStores
           \/ HandlerSkipsApply \/ HandlerApplies \/ HandlerApplied
  BY <1>4 DEF StartUp, HandlerDisposes, HandlerTellsDisconnected, HandlerOpens,
              HandlerCannotOpen, HandlerStores, HandlerSkipsApply, HandlerApplies,
              HandlerApplied, LeaveBody
<1>5. CASE BatteryPoll
  BY <1>5 DEF BatteryPoll, PollSamples, PollSends, PollFails, LeaveBody
<1>6. ASSUME NEW h \in Handles, Background(h)
      PROVE  UNCHANGED hotplugVars
  BY <1>6 DEF Background, TaskFails, TaskEnds, ForwarderTells
<1>7. CASE UNCHANGED vars
  BY <1>7 DEF vars
<1> QED
  BY <1>1, <1>2, <1>3, <1>4, <1>5, <1>6, <1>7 DEF Next, Handler

\* So everything proved about the monitor holds inside the daemon.
THEOREM DaemonMonitors == Safety => HotplugInit /\ [][HotplugNext]_hotplugVars
<1>1. Init => HotplugInit
  BY DEF Init
<1> QED  BY <1>1, HotplugStep, PTL DEF Safety

\* The monitor's invariant, inside the daemon.
LEMMA HotplugInvCorrect == Safety => []HotplugInv
<1>1. Init => HotplugInv
  BY HotplugInvInit DEF Init
<1>2. HotplugInv /\ [Next]_vars => HotplugInv'
  BY HotplugInvStep, HotplugStep
<1> QED  BY <1>1, <1>2, PTL DEF Safety

-----------------------------------------------------------------------------
(* Types. *)

\* The three kinds of users are different users.
LEMMA DistinctUsers ==
    /\ "handler" \in Users /\ "poll" \in Users /\ "handler" # "poll"
    /\ \A r \in Rpcs : r \in Users /\ r # "handler" /\ r # "poll"
  BY RpcsAssumption DEF Users

\* What a shut-down or freed handle looks like.
LEMMA FreeType == Free \in Handle
  BY MaxPlugsAssumption DEF Free, Handle, Iface

\* A handle can be opened only if its number is free, and is then not free any more.
LEMMA OpenedType ==
    ASSUME HotplugTypeOK, mouse \in [Handles -> Handle], CanOpen, Open(Opened)
    PROVE  /\ Opened \in Handles
           /\ mouse[Opened] = Free
           /\ \E m \in Handle : m # Free /\ mouse' = [mouse EXCEPT ![Opened] = m]
<1>1. Opened \in Handles /\ mouse[Opened] = Free
  BY DEF CanOpen, Opened
<1>2. PICK i \in Iface : i = Best(Present(path))
  BY DEF CanOpen, Best, Present, Iface
<1>3. path[i] \in 0..MaxPlugs
  BY DEF HotplugTypeOK
<1> DEFINE m == [state |-> "running", iface |-> i, plug |-> path[i]]
<1>4. m \in Handle /\ m # Free
  BY <1>3 DEF Handle, Free
<1>5. mouse' = [mouse EXCEPT ![Opened] = m]
  BY <1>2 DEF Open, Update
<1> QED  BY <1>1, <1>4, <1>5

\* What is left of a dropped handle is a handle.
LEMMA DroppedType ==
    ASSUME mouse \in [Handles -> Handle], NEW h \in Handles
    PROVE  Dropped(h) \subseteq Handle
<1>1. mouse[h] \in Handle /\ [mouse[h] EXCEPT !.state = "failed"] \in Handle
  BY DEF Handle
<1> QED  BY <1>1, FreeType DEF Dropped

\* Disposing leaves an empty slot and touches no handle but the one it held.
LEMMA DisposeType ==
    ASSUME mouse \in [Handles -> Handle], slot \in Handles \cup {NoHandle}, Dispose
    PROVE  /\ slot' = NoHandle
           /\ mouse' \in [Handles -> Handle]
           /\ \A h \in Handles : h # slot => mouse'[h] = mouse[h]
<1>1. CASE slot = NoHandle
  BY <1>1 DEF Dispose, Taken
<1>2. CASE slot # NoHandle
  <2>1. PICK rest \in Dropped(slot) : Update(slot, rest)
    BY <1>2 DEF Dispose
  <2>2. rest \in Handle
    BY <1>2, <2>1, DroppedType
  <2> QED  BY <2>1, <2>2 DEF Dispose, Taken, Update
<1> QED  BY <1>1, <1>2

\* The places and the borrowed handles of the users stay in their types.
LEMMA UsersType ==
    ASSUME at \in [Users -> At], using \in [Users -> Handles \cup {NoHandle}],
           NEW u \in Users
    PROVE  /\ \A p \in At : Goto(u, p) => at' \in [Users -> At]
           /\ \A h \in Handles \cup {NoHandle} :
                Use(u, h) => using' \in [Users -> Handles \cup {NoHandle}]
  BY DEF Goto, Use

\* The variables of the slot keep their types, whatever the users do.
LEMMA SlotTypeStep ==
    ASSUME TypeOK, HotplugInv', [Next]_vars
    PROVE  TypeOK'
<1> USE DEF slotVars
<1>a. HotplugTypeOK'
  BY DEF HotplugInv
<1>b. /\ HotplugTypeOK
      /\ mouse \in [Handles -> Handle]
      /\ slot \in Handles \cup {NoHandle}
      /\ at \in [Users -> At]
      /\ using \in [Users -> Handles \cup {NoHandle}]
      /\ incoming \in DeviceEvent \cup {NoEvent}
      /\ view \in {"unknown", "None"} \cup Iface
  BY DEF TypeOK
<1>c. \A u \in Users, p \in At : Goto(u, p) => at' \in [Users -> At]
  BY <1>b, UsersType
<1>d. \A u \in Users, h \in Handles \cup {NoHandle} :
         Use(u, h) => using' \in [Users -> Handles \cup {NoHandle}]
  BY <1>b, UsersType
<1>e. {"starting", "idle", "ensured", "body", "failing", "telling", "panicked",
       "disposing", "opening", "storing", "applying"} \subseteq At
  BY DEF At
<1>1. ASSUME NEW r \in Rpcs, Ensure(r)
      PROVE  TypeOK'
  <2>1. CASE UNCHANGED <<mouse, slot>>
    BY <1>1, <1>a, <1>b, <1>c, <1>e, <2>1, DistinctUsers DEF Ensure, TypeOK
  <2>2. CASE CanOpen /\ Open(Opened) /\ slot' = Opened
    BY <1>1, <1>a, <1>b, <1>c, <1>e, <2>2, DistinctUsers, OpenedType DEF Ensure, TypeOK
  <2> QED  BY <1>1, <2>1, <2>2 DEF Ensure
<1>2. ASSUME NEW r \in Rpcs, EnsureFails(r)
      PROVE  TypeOK'
  BY <1>2, <1>a, <1>b DEF EnsureFails, TypeOK, vars
<1>3. ASSUME NEW r \in Rpcs, Enter(r)
      PROVE  TypeOK'
  BY <1>3, <1>a, <1>b, <1>c, <1>d, <1>e, DistinctUsers DEF Enter, TypeOK
<1>4. ASSUME NEW r \in Rpcs, EnterEmpty(r)
      PROVE  TypeOK'
  BY <1>4, <1>a, <1>b, <1>c, <1>e, DistinctUsers DEF EnterEmpty, TypeOK
<1>5. ASSUME NEW u \in Users, LeaveBody(u), NEW p \in At, Goto(u, p)
      PROVE  TypeOK'
  BY <1>5, <1>a, <1>b, <1>c, <1>d DEF LeaveBody, TypeOK
<1>6. ASSUME NEW r \in Rpcs, Served(r) \/ BodyErrs(r) \/ BodyFails(r)
      PROVE  TypeOK'
  BY <1>5, <1>6, <1>e, DistinctUsers DEF Served, BodyErrs, BodyFails
<1>7. ASSUME NEW r \in Rpcs, Invalidate(r)
      PROVE  TypeOK'
  BY <1>7, <1>a, <1>b, <1>c, <1>e, DistinctUsers, DisposeType DEF Invalidate, TypeOK
<1>8. ASSUME NEW r \in Rpcs, TellInvalidated(r)
      PROVE  TypeOK'
  BY <1>8, <1>a, <1>b, <1>c, <1>e, DistinctUsers DEF TellInvalidated, TypeOK
<1>9. ASSUME NEW r \in Rpcs, Cancel(r)
      PROVE  TypeOK'
  BY <1>9, <1>a, <1>b, <1>c, <1>d, <1>e, DistinctUsers DEF Cancel, TypeOK
<1>10. CASE StartUp
  <2>1. CASE UNCHANGED <<mouse, slot>>
    BY <1>10, <1>a, <1>b, <1>c, <1>e, <2>1, DistinctUsers DEF StartUp, TypeOK
  <2>2. CASE CanOpen /\ Open(Opened) /\ slot' = Opened
    BY <1>10, <1>a, <1>b, <1>c, <1>e, <2>2, DistinctUsers, OpenedType DEF StartUp, TypeOK
  <2> QED  BY <1>10, <2>1, <2>2 DEF StartUp
<1>11. CASE TakeEvent
  <2>1. Head(events) \in DeviceEvent
    BY <1>11, <1>b, HeadTailProperties DEF TakeEvent, Receive, HotplugTypeOK
  <2> QED  BY <1>11, <1>a, <1>b, <1>c, <1>e, <2>1, DistinctUsers DEF TakeEvent, TypeOK
<1>12. CASE HandlerDisposes
  BY <1>12, <1>a, <1>b, <1>c, <1>e, DistinctUsers, DisposeType DEF HandlerDisposes, TypeOK
<1>13. CASE HandlerTellsDisconnected
  BY <1>13, <1>a, <1>b, <1>c, <1>e, DistinctUsers DEF HandlerTellsDisconnected, TypeOK
<1>14. CASE HandlerOpens
  BY <1>14, <1>a, <1>b, <1>c, <1>d, <1>e, DistinctUsers, OpenedType
  DEF HandlerOpens, TypeOK
<1>15. CASE HandlerCannotOpen
  BY <1>15, <1>a, <1>b, <1>c, <1>e, DistinctUsers DEF HandlerCannotOpen, TypeOK
<1>16. CASE HandlerStores
  <2>1. mouse' \in [Handles -> Handle]
    <3>1. CASE slot = NoHandle
      BY <1>16, <1>b, <3>1 DEF HandlerStores
    <3>2. CASE slot # NoHandle
      BY <1>16, <1>b, <3>2, DroppedType DEF HandlerStores, Update
    <3> QED  BY <3>1, <3>2
  <2>2. slot' \in Handles \cup {NoHandle}
    BY <1>16, <1>b, DistinctUsers DEF HandlerStores
  <2>3. view' \in {"unknown", "None"} \cup Iface
    <3>1. incoming.to \in {"None"} \cup Iface
      BY <1>b DEF DeviceEvent, NoEvent, Connected, Disconnected, ModeChanged
    <3> QED  BY <1>16, <3>1 DEF HandlerStores
  <2> QED
    BY <1>16, <1>a, <1>b, <1>c, <1>d, <1>e, <2>1, <2>2, <2>3, DistinctUsers
    DEF HandlerStores, TypeOK
<1>17. CASE HandlerSkipsApply
  BY <1>17, <1>a, <1>b, <1>c, <1>e, DistinctUsers DEF HandlerSkipsApply, TypeOK
<1>18. CASE HandlerApplies
  BY <1>18, <1>a, <1>b, <1>c, <1>d, <1>e, DistinctUsers DEF HandlerApplies, TypeOK
<1>19. CASE HandlerApplied
  BY <1>5, <1>19, <1>e, DistinctUsers DEF HandlerApplied
<1>20. CASE PollSamples
  BY <1>20, <1>a, <1>b, <1>c, <1>d, <1>e, DistinctUsers DEF PollSamples, TypeOK
<1>21. CASE PollSends \/ PollFails
  BY <1>5, <1>21, <1>e, DistinctUsers DEF PollSends, PollFails
<1>22. ASSUME NEW h \in Handles, Background(h)
       PROVE  TypeOK'
  <2>1. \A st \in {"failed", "told"} : [mouse[h] EXCEPT !.state = st] \in Handle
    BY <1>b DEF Handle
  <2> QED
    BY <1>22, <1>a, <1>b, <2>1, FreeType
    DEF Background, TaskFails, TaskEnds, ForwarderTells, Update, TypeOK
<1>23. CASE Environment \/ UNCHANGED vars
  BY <1>23, <1>a, <1>b DEF Environment, TypeOK, vars
<1> QED
  BY <1>1, <1>2, <1>3, <1>4, <1>6, <1>7, <1>8, <1>9, <1>10, <1>11, <1>12, <1>13, <1>14,
     <1>15, <1>16, <1>17, <1>18, <1>19, <1>20, <1>21, <1>22, <1>23
  DEF Next, Rpc, Handler, BatteryPoll

\* Every variable of the daemon keeps its type.
THEOREM SlotTypeCorrect == Safety => []TypeOK
<1>1. Init => TypeOK
  <2> SUFFICES ASSUME Init
               PROVE  TypeOK
    OBVIOUS
  <2>1. HotplugTypeOK
    BY HotplugInvInit DEF Init, HotplugInv
  <2> QED  BY <2>1, FreeType DEF Init, TypeOK, At
<1>2. TypeOK /\ HotplugInv' /\ [Next]_vars => TypeOK'
  BY SlotTypeStep
<1> QED  BY <1>1, <1>2, HotplugInvCorrect, PTL DEF Safety

-----------------------------------------------------------------------------
(* Nobody's mouse is taken away. *)

\* Until the service has started, nobody uses the slot.
StartsAlone ==
    at["handler"] = "starting" => \A u \in Users \ {"handler"} : at[u] = "idle"

\* The handle the event handler is about to store is open and not the one in the slot.
HandlerOwns ==
    at["handler"] = "storing" =>
        /\ using["handler"] \in Handles
        /\ mouse[using["handler"]] # Free
        /\ using["handler"] # slot

\* What the users of the slot can rely on, taken together.
SlotInv == BorrowedFromSlot /\ SlotNotShutDown /\ StartsAlone /\ HandlerOwns

\* Moving one user, and nobody else.
LEMMA Moves ==
    ASSUME at \in [Users -> At], using \in [Users -> Handles \cup {NoHandle}],
           NEW u \in Users
    PROVE  /\ \A p : Goto(u, p) => at'[u] = p /\ \A v \in Users \ {u} : at'[v] = at[v]
           /\ \A h : Use(u, h) => using'[u] = h /\ \A v \in Users \ {u} : using'[v] = using[v]
  BY DEF Goto, Use

\* A user that moves without touching handle or slot, into the body only with the handle
\* of the slot and nobody else there.
LEMMA MoveStep ==
    ASSUME TypeOK, SlotInv, UNCHANGED <<mouse, slot>>, NEW u \in Users,
           \A v \in Users \ {u} : at'[v] = at[v] /\ using'[v] = using[v],
           at'[u] \notin {"starting", "storing"},
           u # "handler" => at["handler"] # "starting",
           at'[u] = "body" => ~Locked /\ slot # NoHandle /\ using'[u] = slot
    PROVE  SlotInv'
<1>1. BorrowedFromSlot'
  BY DEF SlotInv, BorrowedFromSlot, Locked
<1>2. SlotNotShutDown'
  BY DEF SlotInv, SlotNotShutDown, Free
<1>3. StartsAlone' /\ HandlerOwns'
  BY DistinctUsers DEF SlotInv, StartsAlone, HandlerOwns, Free
<1> QED  BY <1>1, <1>2, <1>3 DEF SlotInv

\* A user that moves while the lock is free and leaves another handle in the slot, or
\* none, that is open and not the event handler's.
LEMMA ReplaceStep ==
    ASSUME TypeOK, SlotInv, ~Locked, NEW u \in Users,
           \A v \in Users \ {u} : at'[v] = at[v] /\ using'[v] = using[v],
           at'[u] \notin {"starting", "storing", "body"},
           u # "handler" => at["handler"] # "starting",
           slot' # NoHandle => mouse'[slot'] # Free,
           at'["handler"] = "storing" =>
             /\ slot' # using["handler"]
             /\ mouse'[using["handler"]] # Free
    PROVE  SlotInv'
<1>1. \A v \in Users : at'[v] # "body"
  BY DEF Locked
<1>2. StartsAlone'
  BY DistinctUsers DEF SlotInv, StartsAlone
<1>3. HandlerOwns'
  BY DistinctUsers DEF SlotInv, HandlerOwns, Free
<1>4. SlotNotShutDown'
  BY DEF SlotNotShutDown, Free
<1> QED  BY <1>1, <1>2, <1>3, <1>4 DEF SlotInv, BorrowedFromSlot

\* No step takes a handle from under its user, nor offers one that was shut down.
LEMMA SlotStep ==
    ASSUME TypeOK, SlotInv, [Next]_vars
    PROVE  SlotInv'
<1> USE DEF slotVars
<1>a. /\ HotplugTypeOK
      /\ mouse \in [Handles -> Handle]
      /\ slot \in Handles \cup {NoHandle}
      /\ at \in [Users -> At]
      /\ using \in [Users -> Handles \cup {NoHandle}]
  BY DEF TypeOK
<1>b. \A u \in Users : \A p : Goto(u, p) =>
         at'[u] = p /\ \A v \in Users \ {u} : at'[v] = at[v]
  BY <1>a, Moves
<1>c. \A u \in Users : \A h : Use(u, h) =>
         using'[u] = h /\ \A v \in Users \ {u} : using'[v] = using[v]
  BY <1>a, Moves
<1>d. \A u \in Users \ {"handler"} : at[u] # "idle" => at["handler"] # "starting"
  BY DEF SlotInv, StartsAlone
<1>e. CanOpen /\ Open(Opened) =>
        /\ Opened \in Handles
        /\ mouse'[Opened] # Free
        /\ \A h \in Handles : mouse[h] # Free => h # Opened /\ mouse'[h] = mouse[h]
  BY <1>a, OpenedType
<1>1. ASSUME NEW r \in Rpcs, Ensure(r)
      PROVE  SlotInv'
  <2>1. /\ ~Locked
        /\ at["handler"] # "starting"
        /\ at'[r] = "ensured"
        /\ \A v \in Users \ {r} : at'[v] = at[v] /\ using'[v] = using[v]
    BY <1>1, <1>b, DistinctUsers DEF Ensure, Serving
  <2>2. CASE UNCHANGED <<mouse, slot>>
    BY <2>1, <2>2, MoveStep, DistinctUsers
  <2>3. CASE slot = NoHandle /\ CanOpen /\ Open(Opened) /\ slot' = Opened
    BY <1>e, <2>1, <2>3, ReplaceStep, DistinctUsers DEF SlotInv, HandlerOwns
  <2> QED  BY <1>1, <2>2, <2>3 DEF Ensure
<1>2. ASSUME NEW r \in Rpcs, EnsureFails(r)
      PROVE  UNCHANGED vars
  BY <1>2 DEF EnsureFails
<1>3. ASSUME NEW r \in Rpcs, Enter(r) \/ EnterEmpty(r) \/ TellInvalidated(r) \/ Cancel(r)
      PROVE  SlotInv'
  <2>1. at["handler"] # "starting"
    BY <1>3, <1>d, DistinctUsers DEF Enter, EnterEmpty, TellInvalidated, Cancel
  <2>2. CASE Enter(r)
    BY <1>b, <1>c, <2>1, <2>2, MoveStep, DistinctUsers DEF Enter
  <2>3. CASE EnterEmpty(r) \/ TellInvalidated(r) \/ Cancel(r)
    BY <1>b, <1>c, <2>1, <2>3, MoveStep, DistinctUsers DEF EnterEmpty, TellInvalidated, Cancel
  <2> QED  BY <1>3, <2>2, <2>3
<1>4. ASSUME NEW u \in Users, LeaveBody(u), NEW p \in {"idle", "failing"}, Goto(u, p)
      PROVE  SlotInv'
  <2>1. u # "handler" => at["handler"] # "starting"
    BY <1>4, <1>d DEF LeaveBody
  <2> QED  BY <1>4, <1>b, <1>c, <2>1, MoveStep DEF LeaveBody
<1>5. ASSUME NEW r \in Rpcs, Served(r) \/ BodyErrs(r) \/ BodyFails(r)
      PROVE  SlotInv'
  BY <1>4, <1>5, DistinctUsers DEF Served, BodyErrs, BodyFails
<1>6. ASSUME Dispose
      PROVE  /\ slot' = NoHandle
             /\ at["handler"] = "storing" => mouse'[using["handler"]] # Free
  BY <1>6, <1>a, DisposeType DEF SlotInv, HandlerOwns
<1>7. ASSUME NEW r \in Rpcs, Invalidate(r)
      PROVE  SlotInv'
  <2>1. /\ ~Locked
        /\ at["handler"] # "starting"
        /\ at'[r] = "telling"
        /\ \A v \in Users \ {r} : at'[v] = at[v] /\ using'[v] = using[v]
        /\ slot' = NoHandle
        /\ at["handler"] = "storing" => mouse'[using["handler"]] # Free
    BY <1>7, <1>b, <1>d, <1>6, DistinctUsers DEF Invalidate
  <2>2. at'["handler"] = "storing" =>
          slot' # using["handler"] /\ mouse'[using["handler"]] # Free
    BY <2>1, DistinctUsers, NoHandleAssumption DEF SlotInv, HandlerOwns
  <2>3. /\ r \in Users
        /\ at'[r] \notin {"starting", "storing", "body"}
        /\ slot' # NoHandle => mouse'[slot'] # Free
    BY <2>1, DistinctUsers
  <2> QED  BY <2>1, <2>2, <2>3, ReplaceStep
<1>8. CASE StartUp
  <2>1. /\ at'["handler"] = "idle"
        /\ \A v \in Users \ {"handler"} : at'[v] = at[v] /\ using'[v] = using[v]
        /\ ~Locked
    BY <1>8, <1>b, DistinctUsers DEF StartUp, SlotInv, StartsAlone, Locked
  <2>2. CASE UNCHANGED <<mouse, slot>>
    BY <2>1, <2>2, MoveStep, DistinctUsers
  <2>3. CASE CanOpen /\ Open(Opened) /\ slot' = Opened
    BY <1>e, <2>1, <2>3, ReplaceStep, DistinctUsers
  <2> QED  BY <1>8, <2>2, <2>3 DEF StartUp
<1>9. ASSUME NEW p \in At \ {"starting", "storing", "body"}, Goto("handler", p),
             UNCHANGED <<mouse, slot, using>>
      PROVE  SlotInv'
  BY <1>9, <1>b, MoveStep, DistinctUsers
<1>10. CASE \/ TakeEvent \/ HandlerTellsDisconnected \/ HandlerCannotOpen
            \/ HandlerSkipsApply
  BY <1>9, <1>10
  DEF TakeEvent, HandlerTellsDisconnected, HandlerCannotOpen, HandlerSkipsApply, At
<1>11. CASE HandlerDisposes
  <2>1. /\ ~Locked
        /\ at'["handler"] \in {"opening", "telling"}
        /\ \A v \in Users \ {"handler"} : at'[v] = at[v] /\ using'[v] = using[v]
        /\ slot' = NoHandle
    BY <1>11, <1>b, <1>6, DistinctUsers DEF HandlerDisposes
  <2> QED  BY <2>1, ReplaceStep, DistinctUsers
<1>12. CASE HandlerOpens
  <2>1. /\ at'["handler"] = "storing" /\ using'["handler"] = Opened
        /\ \A v \in Users \ {"handler"} : at'[v] = at[v] /\ using'[v] = using[v]
        /\ slot' = slot
        /\ CanOpen /\ Open(Opened)
        /\ at["handler"] = "opening"
    BY <1>12, <1>b, <1>c, DistinctUsers DEF HandlerOpens
  <2>2. /\ Opened \in Handles /\ mouse'[Opened] # Free
        /\ slot # NoHandle => slot # Opened /\ mouse'[slot] = mouse[slot]
    BY <1>a, <1>e, <2>1 DEF SlotInv, SlotNotShutDown
  <2>3. BorrowedFromSlot'
    BY <2>1, DistinctUsers DEF SlotInv, BorrowedFromSlot
  <2>4. SlotNotShutDown'
    BY <2>1, <2>2 DEF SlotInv, SlotNotShutDown, Free
  <2>5. StartsAlone' /\ HandlerOwns'
    BY <2>1, <2>2, NoHandleAssumption DEF StartsAlone, HandlerOwns, Free
  <2> QED  BY <2>3, <2>4, <2>5 DEF SlotInv
<1>13. CASE HandlerStores
  <2>1. /\ ~Locked
        /\ at'["handler"] = "applying"
        /\ \A v \in Users \ {"handler"} : at'[v] = at[v] /\ using'[v] = using[v]
        /\ slot' = using["handler"]
        /\ using["handler"] \in Handles
        /\ mouse[using["handler"]] # Free
        /\ using["handler"] # slot
    BY <1>13, <1>b, <1>c, DistinctUsers DEF HandlerStores, Storable, SlotInv, HandlerOwns
  <2>2. mouse'[slot'] = mouse[using["handler"]]
    <3>1. CASE UNCHANGED mouse
      BY <2>1, <3>1
    <3>2. CASE slot # NoHandle /\ \E m : Update(slot, m)
      BY <1>a, <2>1, <3>2 DEF Update
    <3> QED  BY <1>13, <3>1, <3>2 DEF HandlerStores
  <2> QED  BY <2>1, <2>2, ReplaceStep, DistinctUsers
<1>14. CASE HandlerApplies
  BY <1>14, <1>b, <1>c, MoveStep, DistinctUsers DEF HandlerApplies
<1>15. CASE HandlerApplied
  BY <1>4, <1>15, DistinctUsers DEF HandlerApplied
<1>16. CASE PollSamples
  BY <1>16, <1>b, <1>c, MoveStep, DistinctUsers DEF PollSamples, Serving
<1>17. CASE PollSends \/ PollFails
  BY <1>4, <1>17, DistinctUsers DEF PollSends, PollFails
<1>18. ASSUME NEW h \in Handles, Background(h)
       PROVE  SlotInv'
  <2>1. UNCHANGED <<slot, at, using>>
    BY <1>18 DEF Background, TaskFails, TaskEnds, ForwarderTells
  <2>2. \A g \in Handles : mouse[g] # Free /\ Owned(g) => mouse'[g] # Free
    <3>1. CASE TaskFails(h)
      BY <1>a, <3>1 DEF TaskFails, Update, Free, Handle
    <3>2. CASE TaskEnds(h)
      BY <1>a, <3>2 DEF TaskEnds, Update
    <3>3. CASE ForwarderTells(h)
      BY <1>a, <3>3 DEF ForwarderTells, Update, Free, Handle
    <3> QED  BY <1>18, <3>1, <3>2, <3>3 DEF Background
  <2>3. BorrowedFromSlot' /\ StartsAlone'
    BY <2>1 DEF SlotInv, BorrowedFromSlot, StartsAlone
  <2>4. SlotNotShutDown'
    BY <1>a, <2>1, <2>2 DEF SlotInv, SlotNotShutDown, Owned, Free
  <2>5. HandlerOwns'
    BY <2>1, <2>2, DistinctUsers DEF SlotInv, HandlerOwns, Owned, Free
  <2> QED  BY <2>3, <2>4, <2>5 DEF SlotInv
<1>19. CASE Environment \/ UNCHANGED vars
  <2>1. UNCHANGED <<mouse, slot, at, using>>
    BY <1>19 DEF Environment, vars
  <2> QED
    BY <2>1
    DEF SlotInv, BorrowedFromSlot, SlotNotShutDown, StartsAlone, HandlerOwns, Free
<1> QED
  BY <1>1, <1>2, <1>3, <1>5, <1>7, <1>8, <1>10, <1>11, <1>12, <1>13, <1>14, <1>15, <1>16,
     <1>17, <1>18, <1>19
  DEF Next, Rpc, Handler, BatteryPoll

\* The invariant of the slot holds throughout.
LEMMA SlotInvCorrect == Safety => []SlotInv
<1>1. Init => SlotInv
  <2> SUFFICES ASSUME Init
               PROVE  SlotInv
    OBVIOUS
  <2>1. \A u \in Users : at[u] = IF u = "handler" THEN "starting" ELSE "idle"
    BY DEF Init
  <2>2. slot = NoHandle /\ at["handler"] = "starting"
    BY <2>1, DistinctUsers DEF Init
  <2> QED
    BY <2>1, <2>2 DEF SlotInv, BorrowedFromSlot, SlotNotShutDown, StartsAlone, HandlerOwns
<1>2. TypeOK /\ SlotInv /\ [Next]_vars => SlotInv'
  BY SlotStep
<1> QED  BY <1>1, <1>2, SlotTypeCorrect, PTL DEF Safety

\* Whoever talks to the mouse talks to the handle in the slot, alone, for any number of
\* clients and however hotplug events, polls, errors and cancellations interleave.
THEOREM BorrowedCorrect == Safety => []BorrowedFromSlot
  BY SlotInvCorrect, PTL DEF SlotInv

\* The slot never offers a handle that was shut down or dropped.
THEOREM NotShutDownCorrect == Safety => []SlotNotShutDown
  BY SlotInvCorrect, PTL DEF SlotInv
=============================================================================
