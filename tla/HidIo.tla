------------------------------- MODULE HidIo -------------------------------
(***************************************************************************)
(* The Mouse handle and its background IO task: callers of                 *)
(* Mouse::send_command put commands into a bounded mpsc channel; the IO    *)
(* task of io.rs takes one at a time, writes it to the HID device and      *)
(* routes every packet it reads to the one pending command or, for a       *)
(* status-changed packet, to the notification subscribers.                 *)
(*                                                                         *)
(* A call is one future of send_command.  It may be cancelled (a dropped   *)
(* RPC future) at any await, its command staying behind in the channel or  *)
(* with the IO task.  The device is outside the program: it answers in     *)
(* order, late or never, and may be unplugged at any moment.               *)
(*                                                                         *)
(* Time is one bit: the 200 ms of RESPONSE_TIMEOUT have passed or not.     *)
(***************************************************************************)
EXTENDS Naturals, Sequences, FiniteSets

CONSTANTS Calls,        \* the futures of send_command
          None,         \* no call
          Capacity,     \* COMMAND_CHANNEL_CAPACITY
          Mode,         \* ConnectionMode of the opened interface
          MaxUnasked    \* bound: status-changed packets the device sends

ASSUME NoneAssumption == None \notin Calls
ASSUME CapacityAssumption == Capacity \in Nat \ {0}
ASSUME ModeAssumption == Mode \in {"Wireless", "Wired"}
ASSUME MaxUnaskedAssumption == MaxUnasked \in Nat

VARIABLES handle,    \* "open", or "dropped" once command_tx is gone
          phase,     \* where each call stands: new, sending, waiting, cancelled
          reply,     \* what each call's oneshot holds
          queue,     \* commands in the mpsc channel
          pc,        \* the IO task's place in its loop
          pending,   \* pending_command
          deadline,  \* response_deadline: unset, running, passed
          wire,      \* commands the device has and has not answered
          inbound,   \* packets the host has not read
          plugged,   \* whether reads from the device still work
          unasked,   \* status-changed packets sent so far
          notices    \* what the notification channel has broadcast

callVars   == <<handle, phase>>
taskVars   == <<queue, pc, pending, deadline>>
deviceVars == <<wire, inbound, plugged, unasked>>
vars == <<handle, phase, reply, queue, pc, pending, deadline, wire, inbound,
          plugged, unasked, notices>>

Phase      == {"new", "sending", "waiting", "cancelled"}
ErrorKind  == {"hid", "timeout", "offline", "disconnected", "closed"}
Unanswered == [kind |-> "none", to |-> None]
Answer(d)  == [kind |-> "ok", to |-> d]      \* the response the device made for d
Error(e)   == [kind |-> e, to |-> None]
Reply      == {Unanswered} \cup {Answer(d) : d \in Calls} \cup {Error(e) : e \in ErrorKind}

Response(d)   == [kind |-> "response", to |-> d]
StatusChanged == [kind |-> "status", to |-> None]
Packet        == {StatusChanged} \cup {Response(d) : d \in Calls}

TypeOK ==
    /\ handle \in {"open", "dropped"}
    /\ phase \in [Calls -> Phase]
    /\ reply \in [Calls -> Reply]
    /\ queue \in Seq(Calls)
    /\ Len(queue) <= Capacity
    /\ pc \in {"accept", "read", "deadline", "stopped"}
    /\ pending \in Calls \cup {None}
    /\ deadline \in {"unset", "running", "passed"}
    /\ wire \in Seq(Calls)
    /\ inbound \in Seq(Packet)
    /\ plugged \in BOOLEAN
    /\ unasked \in 0..MaxUnasked
    /\ notices \in Seq({"status", "disconnected"})

\* Mouse::open: the device is open, both channels are empty, the task runs.
Init ==
    /\ handle = "open"
    /\ phase = [c \in Calls |-> "new"]
    /\ reply = [c \in Calls |-> Unanswered]
    /\ queue = << >>
    /\ pc = "accept"
    /\ pending = None
    /\ deadline = "unset"
    /\ wire = << >>
    /\ inbound = << >>
    /\ plugged = TRUE
    /\ unasked = 0
    /\ notices = << >>

-----------------------------------------------------------------------------
(* The callers. *)

\* A call that still borrows the handle.
Live(c) == phase[c] \in {"sending", "waiting"} /\ reply[c] = Unanswered

Call(c) ==
    /\ handle = "open"
    /\ phase[c] = "new"
    /\ phase' = [phase EXCEPT ![c] = "sending"]
    /\ UNCHANGED <<handle, reply, taskVars, deviceVars, notices>>

\* Mutant of HasRoom: one permit too many.
HasRoomForOneMore == Len(queue) <= Capacity

HasRoom == Len(queue) < Capacity

\* command_tx.send: waits for room, and fails once the task dropped its receiver.
Enqueue(c) ==
    /\ phase[c] = "sending"
    /\ reply[c] = Unanswered
    /\ \/ /\ pc = "stopped"
          /\ reply' = [reply EXCEPT ![c] = Error("closed")]
          /\ UNCHANGED <<phase, queue>>
       \/ /\ pc # "stopped"
          /\ HasRoom
          /\ queue' = Append(queue, c)
          /\ phase' = [phase EXCEPT ![c] = "waiting"]
          /\ UNCHANGED reply
    /\ UNCHANGED <<handle, pc, pending, deadline, deviceVars, notices>>

\* The caller's future is dropped; a command already sent stays where it is.
Cancel(c) ==
    /\ Live(c)
    /\ phase' = [phase EXCEPT ![c] = "cancelled"]
    /\ UNCHANGED <<handle, reply, taskVars, deviceVars, notices>>

\* Mouse::shutdown, abort or drop: each consumes the handle, so no call borrows it.
Shutdown ==
    /\ handle = "open"
    /\ \A c \in Calls : ~Live(c)
    /\ handle' = "dropped"
    /\ UNCHANGED <<phase, reply, taskVars, deviceVars, notices>>

-----------------------------------------------------------------------------
(* The IO task: one iteration is accept, read, deadline. *)

\* Mutant of Free: a new command may overwrite the pending one.
FreeAlways == TRUE

Free == pending = None

\* A pending command keeps the loop from taking another.
SkipAccept ==
    /\ pc = "accept"
    /\ ~Free
    /\ pc' = "read"
    /\ UNCHANGED <<callVars, reply, queue, pending, deadline, deviceVars, notices>>

\* try_recv found a command: write it, or answer its caller with the write error.
AcceptCommand ==
    /\ pc = "accept"
    /\ Free
    /\ queue # << >>
    /\ queue' = Tail(queue)
    /\ pc' = "read"
    /\ \/ /\ plugged
          /\ wire' = Append(wire, Head(queue))
          /\ pending' = Head(queue)
          /\ deadline' = "running"
          /\ UNCHANGED reply
       \/ /\ reply' = [reply EXCEPT ![Head(queue)] = Error("hid")]
          /\ UNCHANGED <<wire, pending, deadline>>
    /\ UNCHANGED <<callVars, inbound, plugged, unasked, notices>>

\* try_recv found the channel empty.
AcceptNothing ==
    /\ pc = "accept"
    /\ Free
    /\ queue = << >>
    /\ handle = "open"
    /\ pc' = "read"
    /\ UNCHANGED <<callVars, reply, queue, pending, deadline, deviceVars, notices>>

\* try_recv found the channel empty and its sender gone: leave the loop.
AcceptClosed ==
    /\ pc = "accept"
    /\ Free
    /\ queue = << >>
    /\ handle = "dropped"
    /\ pc' = "stopped"
    /\ UNCHANGED <<callVars, reply, queue, pending, deadline, deviceVars, notices>>

\* read_timeout returned a packet: broadcast it, hand it to whichever command is
\* pending, or drop it.
ReadPacket ==
    /\ pc = "read"
    /\ inbound # << >>
    /\ inbound' = Tail(inbound)
    /\ pc' = "deadline"
    /\ LET p == Head(inbound) IN
         \/ /\ p = StatusChanged
            /\ notices' = Append(notices, "status")
            /\ UNCHANGED <<reply, pending, deadline>>
         \/ /\ p # StatusChanged
            /\ pending # None
            /\ reply' = [reply EXCEPT ![pending] = Answer(p.to)]
            /\ pending' = None
            /\ deadline' = "unset"
            /\ UNCHANGED notices
         \/ /\ p # StatusChanged
            /\ pending = None
            /\ UNCHANGED <<reply, pending, deadline, notices>>
    /\ UNCHANGED <<callVars, queue, wire, plugged, unasked>>

\* read_timeout returned 0 after READ_POLL_MS.
ReadNothing ==
    /\ pc = "read"
    /\ inbound = << >>
    /\ plugged
    /\ pc' = "deadline"
    /\ UNCHANGED <<callVars, reply, queue, pending, deadline, deviceVars, notices>>

Queued(c) == \E i \in 1..Len(queue) : queue[i] = c

\* Mutant of ReplyOnError: the receiver outlives the task, its commands with it.
ReplyOnErrorKeepingQueue(c) ==
    IF c = pending THEN Error("disconnected") ELSE reply[c]

ReplyOnError(c) ==
    IF c = pending THEN Error("disconnected")
    ELSE IF Queued(c) THEN Error("closed")
    ELSE reply[c]

\* Mutant of AfterError: the loop survives the read error.
AfterErrorLoopOn == "deadline"

AfterError == "stopped"

\* Mutant of ErrorNotices: the error is only logged.
ErrorNoticesUntold == notices

ErrorNotices == Append(notices, "disconnected")

\* read_timeout failed: tell the subscribers and the pending caller and return; the
\* receiver goes with the task, and with it the oneshots of the queued commands.
ReadError ==
    /\ pc = "read"
    /\ ~plugged
    /\ notices' = ErrorNotices
    /\ reply' = [c \in Calls |-> ReplyOnError(c)]
    /\ pending' = None
    /\ queue' = << >>
    /\ pc' = AfterError
    /\ UNCHANGED <<callVars, deadline, deviceVars>>

\* A sleeping mouse behind a dongle is offline; a wired one timed out.
TimeoutError == IF Mode = "Wireless" THEN "offline" ELSE "timeout"

\* Mutant of Due: only a wired mouse times out.
DueWhenWired == deadline = "passed" /\ pending # None /\ Mode = "Wired"

Due == deadline = "passed" /\ pending # None

\* Mutant of AfterTimeout: the timed-out command is answered and kept.
AfterTimeoutKept == pending

AfterTimeout == None

CheckDeadline ==
    /\ pc = "deadline"
    /\ pc' = "accept"
    /\ \/ /\ Due
          /\ reply' = [reply EXCEPT ![pending] = Error(TimeoutError)]
          /\ pending' = AfterTimeout
          /\ deadline' = "unset"
       \/ /\ ~Due
          /\ UNCHANGED <<reply, pending, deadline>>
    /\ UNCHANGED <<callVars, queue, deviceVars, notices>>

IoTask ==
    \/ SkipAccept \/ AcceptCommand \/ AcceptNothing \/ AcceptClosed
    \/ ReadPacket \/ ReadNothing \/ ReadError
    \/ CheckDeadline

\* 200 ms have passed since the pending command was written.
DeadlinePasses ==
    /\ deadline = "running"
    /\ deadline' = "passed"
    /\ UNCHANGED <<callVars, reply, queue, pc, pending, deviceVars, notices>>

-----------------------------------------------------------------------------
(* The device and the radio link, outside the program. *)

DeviceAnswers ==
    /\ plugged
    /\ wire # << >>
    /\ wire' = Tail(wire)
    /\ inbound' = Append(inbound, Response(Head(wire)))
    /\ UNCHANGED <<callVars, reply, taskVars, plugged, unasked, notices>>

\* A command or its answer is lost on the radio link.
DeviceLoses ==
    /\ wire # << >>
    /\ wire' = Tail(wire)
    /\ UNCHANGED <<callVars, reply, taskVars, inbound, plugged, unasked, notices>>

DeviceNotifies ==
    /\ plugged
    /\ unasked < MaxUnasked
    /\ unasked' = unasked + 1
    /\ inbound' = Append(inbound, StatusChanged)
    /\ UNCHANGED <<callVars, reply, taskVars, wire, plugged, notices>>

\* Unplugged: reads start to fail; packets already buffered may still be read.
Unplug ==
    /\ plugged
    /\ plugged' = FALSE
    /\ UNCHANGED <<callVars, reply, taskVars, wire, inbound, unasked, notices>>

Device == DeviceAnswers \/ DeviceLoses \/ DeviceNotifies \/ Unplug

-----------------------------------------------------------------------------

\* Every call made is resolved and the task has ended: nothing is left to do.
Quiescent ==
    /\ pc = "stopped"
    /\ \A c \in Calls : ~Live(c)
    /\ UNCHANGED vars

Next ==
    \/ \E c \in Calls : Call(c) \/ Enqueue(c) \/ Cancel(c)
    \/ Shutdown
    \/ IoTask
    \/ DeadlinePasses
    \/ Device
    \/ Quiescent

\* The blocking thread keeps running, the clock keeps ticking and a runnable caller
\* is polled.  Nothing is assumed of the device, nor of when handles are dropped.
Fairness ==
    /\ WF_vars(IoTask)
    /\ WF_vars(DeadlinePasses)
    /\ \A c \in Calls : WF_vars(Enqueue(c))

Safety == Init /\ [][Next]_vars
Spec == Safety /\ Fairness

-----------------------------------------------------------------------------
(* Properties. *)

\* No caller is left behind: a call that waits for its response is the pending command
\* or is in the channel of a task that still runs (io.rs answers the pending caller on
\* every exit, and the channel answers the others by closing).
NoOrphan ==
    \A c \in Calls :
        phase[c] = "waiting" /\ reply[c] = Unanswered =>
            c = pending \/ (Queued(c) /\ pc # "stopped")

TimedOut == {c \in Calls : reply[c] = Error(TimeoutError)}

\* Where the responses among some packets are.
Responses(packets) == {i \in 1..Len(packets) : packets[i] # StatusChanged}

\* While the task reads, the responses that may still arrive outnumber the pending
\* command by at most the calls that timed out: only a timeout can put the exchange out
\* of step.
SkewBounded ==
    pc # "stopped" =>
      Len(wire) + Cardinality(Responses(inbound))
          <= Cardinality(TimedOut) + (IF pending = None THEN 0 ELSE 1)

\* A command is in one place: in the channel, pending, or resolved.  So no oneshot is
\* answered twice, and a command whose caller went away is written at most once.
EachOnce ==
    /\ \A i, j \in 1..Len(queue) : queue[i] = queue[j] => i = j
    /\ \A c \in Calls : Queued(c) \/ c = pending =>
         reply[c] = Unanswered /\ phase[c] \in {"waiting", "cancelled"}
    /\ ~Queued(pending)

\* As long as no call has timed out, all that is in flight while the task runs is the
\* one exchange of the pending command: its request or its response, never both.
InStep ==
    TimedOut = {} /\ pc # "stopped" =>
        /\ \A i \in 1..Len(wire) : i = 1 /\ wire[i] = pending
        /\ \A i \in 1..Len(inbound) : inbound[i] # StatusChanged =>
             /\ inbound[i] = Response(pending)
             /\ wire = << >>
             /\ \A j \in 1..Len(inbound) : inbound[j] # StatusChanged => i = j

\* As long as no call has timed out, a response reaches the caller whose command it
\* answers: cancelled calls, lost answers to cancelled calls, status packets and write
\* errors never shift the pairing of commands and responses in io.rs.
NoTimeoutNoMixup ==
    TimedOut = {} =>
        \A c \in Calls : reply[c].kind = "ok" => reply[c] = Answer(c)

\* "Disconnected" is the last thing a subscriber hears of a handle, and it is only said
\* of a task that has ended on a device that is gone.
DisconnectedIsLast ==
    \A i \in 1..Len(notices) :
        notices[i] = "disconnected" => i = Len(notices) /\ pc = "stopped" /\ ~plugged

\* Every call is resolved: by a response, a timeout, an error or the end of the task.
EveryCallResolved == \A c \in Calls : Live(c) ~> ~Live(c)

\* Dropping the handle ends the IO task even if the device never answers again, and
\* whatever cancelled calls left in the channel.
ShutdownEnds == handle = "dropped" ~> pc = "stopped"

\* An unplugged device is announced to the subscribers, unless the handle goes first.
UnplugAnnounced ==
    ~plugged ~> \/ \E i \in 1..Len(notices) : notices[i] = "disconnected"
                \/ handle = "dropped"

\* How a call looks from outside.
CallStatus(c) ==
    CASE phase[c] = "new" -> "idle"
      [] phase[c] = "cancelled" -> "abandoned"
      [] OTHER -> IF reply[c] = Unanswered THEN "open"
                  ELSE IF reply[c].kind = "ok" THEN "answered"
                  ELSE "failed"

\* The task and its channel serve one call at a time and resolve each one once.
Service == INSTANCE SerialService WITH
    status <- [c \in Calls |-> CallStatus(c)],
    serving <- pending,
    up <- pc # "stopped"

\* The IO task implements the serial service of SerialService.tla.
ImplementsService == Service!Spec
=============================================================================
