---------------------------- MODULE HidIoProofs ----------------------------
(***************************************************************************)
(* Proofs about the IO task of HidIo, for any number of calls, any channel *)
(* capacity and either connection mode.                                    *)
(***************************************************************************)
EXTENDS HidIo, FiniteSetTheorems, SequenceTheorems, TLAPS

-----------------------------------------------------------------------------
(* Sequences used as queues. *)

\* Appending to a queue leaves what it holds in place.
LEMMA AppendFacts ==
    ASSUME NEW S, NEW s \in Seq(S), NEW e \in S
    PROVE  /\ Append(s, e) \in Seq(S)
           /\ Len(Append(s, e)) = Len(s) + 1
           /\ \A i \in 1..Len(s) : Append(s, e)[i] = s[i]
           /\ Append(s, e)[Len(s) + 1] = e
  OBVIOUS

\* Taking the head of a queue moves everything else up by one.
LEMMA TailFacts ==
    ASSUME NEW S, NEW s \in Seq(S), s # << >>
    PROVE  /\ Head(s) = s[1]
           /\ Head(s) \in S
           /\ Len(s) \in Nat \ {0}
           /\ Tail(s) \in Seq(S)
           /\ Len(Tail(s)) = Len(s) - 1
           /\ \A i \in 1..Len(Tail(s)) : Tail(s)[i] = s[i + 1]
  BY HeadTailProperties, EmptySeq

-----------------------------------------------------------------------------
(* Types. *)

\* A reply, a packet and an answer are what they are called.
LEMMA ReplyTypes ==
    /\ Unanswered \in Reply
    /\ \A d \in Calls : Answer(d) \in Reply
    /\ \A e \in ErrorKind : Error(e) \in Reply
    /\ StatusChanged \in Packet
    /\ \A d \in Calls : Response(d) \in Packet
    /\ TimeoutError \in ErrorKind
  BY ModeAssumption DEF Reply, ErrorKind, Packet, TimeoutError

\* A packet that is not a notification answers some command.
LEMMA ResponseOfPacket ==
    ASSUME NEW p \in Packet, p # StatusChanged
    PROVE  p.to \in Calls /\ p = Response(p.to)
  BY DEF Packet, Response

\* The channel never holds more than Capacity commands, and every variable keeps its
\* type, whatever the callers, the device and the clock do.
THEOREM TypeCorrect == Safety => []TypeOK
<1>1. Init => TypeOK
  BY ReplyTypes, CapacityAssumption, MaxUnaskedAssumption, EmptySeq DEF Init, TypeOK, Phase
<1>2. TypeOK /\ [Next]_vars => TypeOK'
  <2> SUFFICES ASSUME TypeOK, [Next]_vars
               PROVE  TypeOK'
    OBVIOUS
  <2> USE DEF TypeOK, callVars, taskVars, deviceVars
  <2>1. ASSUME NEW c \in Calls, Call(c)
        PROVE  TypeOK'
    BY <2>1 DEF Call, Phase
  <2>2. ASSUME NEW c \in Calls, Enqueue(c)
        PROVE  TypeOK'
    <3>1. CASE pc = "stopped"
      BY <2>2, <3>1, ReplyTypes DEF Enqueue, ErrorKind
    <3>2. CASE pc # "stopped"
      <4>1. /\ Append(queue, c) \in Seq(Calls)
            /\ Len(Append(queue, c)) = Len(queue) + 1
        BY AppendFacts
      <4>2. Len(queue) < Capacity /\ Len(queue) \in Nat
        BY <2>2, <3>2, LenProperties DEF Enqueue, HasRoom
      <4>3. Len(Append(queue, c)) <= Capacity
        BY <4>1, <4>2, CapacityAssumption
      <4>4. queue' = Append(queue, c) /\ phase' \in [Calls -> Phase]
        BY <2>2, <3>2 DEF Enqueue, Phase
      <4> QED  BY <2>2, <3>2, <4>1, <4>3, <4>4 DEF Enqueue
    <3> QED  BY <3>1, <3>2
  <2>3. ASSUME NEW c \in Calls, Cancel(c)
        PROVE  TypeOK'
    BY <2>3 DEF Cancel, Phase
  <2>4. CASE Shutdown
    BY <2>4 DEF Shutdown
  <2>5. CASE SkipAccept
    BY <2>5 DEF SkipAccept
  <2>6. CASE AcceptCommand
    <3>1. /\ Head(queue) \in Calls
          /\ Tail(queue) \in Seq(Calls)
          /\ Len(Tail(queue)) <= Capacity
      BY <2>6, TailFacts, CapacityAssumption DEF AcceptCommand
    <3>2. Append(wire, Head(queue)) \in Seq(Calls)
      BY <3>1, AppendFacts
    <3> QED  BY <2>6, <3>1, <3>2, ReplyTypes DEF AcceptCommand, ErrorKind
  <2>7. CASE AcceptNothing
    BY <2>7 DEF AcceptNothing
  <2>8. CASE AcceptClosed
    BY <2>8 DEF AcceptClosed
  <2>9. CASE ReadPacket
    <3>1. /\ Head(inbound) \in Packet
          /\ Tail(inbound) \in Seq(Packet)
      BY <2>9, TailFacts DEF ReadPacket
    <3>2. Append(notices, "status") \in Seq({"status", "disconnected"})
      BY AppendFacts
    <3>3. Head(inbound) # StatusChanged => Answer(Head(inbound).to) \in Reply
      BY <3>1, ResponseOfPacket, ReplyTypes
    <3> QED  BY <2>9, <3>1, <3>2, <3>3 DEF ReadPacket
  <2>10. CASE ReadNothing
    BY <2>10 DEF ReadNothing
  <2>11. CASE ReadError
    <3>1. Append(notices, "disconnected") \in Seq({"status", "disconnected"})
      BY AppendFacts
    <3>2. \A c \in Calls : ReplyOnError(c) \in Reply
      BY ReplyTypes DEF ReplyOnError, ErrorKind
    <3> QED  BY <2>11, <3>1, <3>2, EmptySeq, CapacityAssumption
             DEF ReadError, ErrorNotices, AfterError
  <2>12. CASE CheckDeadline
    BY <2>12, ReplyTypes DEF CheckDeadline, AfterTimeout
  <2>13. CASE DeadlinePasses
    BY <2>13 DEF DeadlinePasses
  <2>14. CASE DeviceAnswers
    <3>1. /\ Response(Head(wire)) \in Packet
          /\ Tail(wire) \in Seq(Calls)
      BY <2>14, TailFacts, ReplyTypes DEF DeviceAnswers
    <3> QED  BY <2>14, <3>1, AppendFacts DEF DeviceAnswers
  <2>15. CASE DeviceLoses
    BY <2>15, TailFacts DEF DeviceLoses
  <2>16. CASE DeviceNotifies
    BY <2>16, AppendFacts, ReplyTypes, MaxUnaskedAssumption DEF DeviceNotifies
  <2>17. CASE Unplug
    BY <2>17 DEF Unplug
  <2>18. CASE UNCHANGED vars
    BY <2>18 DEF vars
  <2> QED
    BY <2>1, <2>2, <2>3, <2>4, <2>5, <2>6, <2>7, <2>8, <2>9, <2>10, <2>11, <2>12,
       <2>13, <2>14, <2>15, <2>16, <2>17, <2>18
    DEF Next, IoTask, Device, Quiescent
<1> QED  BY <1>1, <1>2, PTL DEF Safety

-----------------------------------------------------------------------------
(* One command, one place. *)

\* What is queued after a command was appended to the channel.
LEMMA QueuedAppend ==
    ASSUME NEW c \in Calls, queue \in Seq(Calls), queue' = Append(queue, c)
    PROVE  /\ Len(queue) \in Nat
           /\ Len(queue') = Len(queue) + 1
           /\ \A i \in 1..Len(queue) : queue'[i] = queue[i]
           /\ queue'[Len(queue) + 1] = c
           /\ \A d : Queued(d)' <=> Queued(d) \/ d = c
<1>1. /\ Len(queue) \in Nat
      /\ Len(queue') = Len(queue) + 1
      /\ \A i \in 1..Len(queue) : queue'[i] = queue[i]
      /\ queue'[Len(queue) + 1] = c
  BY AppendFacts, LenProperties
<1> QED  BY <1>1 DEF Queued

\* What is queued after the task took the head of the channel.
LEMMA QueuedTail ==
    ASSUME queue \in Seq(Calls), queue # << >>, queue' = Tail(queue)
    PROVE  /\ Head(queue) = queue[1]
           /\ Head(queue) \in Calls
           /\ Len(queue) \in Nat \ {0}
           /\ Len(queue') = Len(queue) - 1
           /\ \A i \in 1..Len(queue') : queue'[i] = queue[i + 1]
           /\ \A d : Queued(d) <=> Queued(d)' \/ d = Head(queue)
<1>1. /\ Head(queue) = queue[1]
      /\ Head(queue) \in Calls
      /\ Len(queue) \in Nat \ {0}
      /\ Len(queue') = Len(queue) - 1
      /\ \A i \in 1..Len(queue') : queue'[i] = queue[i + 1]
  BY TailFacts
<1>2. ASSUME NEW d
      PROVE  Queued(d) <=> Queued(d)' \/ d = Head(queue)
  <2>1. ASSUME Queued(d), d # Head(queue)
        PROVE  Queued(d)'
    <3>1. PICK i \in 1..Len(queue) : queue[i] = d
      BY <2>1 DEF Queued
    <3>2. i - 1 \in 1..Len(queue') /\ queue'[i - 1] = d
      BY <1>1, <2>1, <3>1
    <3> QED  BY <3>2 DEF Queued
  <2>2. ASSUME Queued(d)'
        PROVE  Queued(d)
    <3>1. PICK i \in 1..Len(queue') : queue'[i] = d
      BY <2>2 DEF Queued
    <3>2. i + 1 \in 1..Len(queue) /\ queue[i + 1] = d
      BY <1>1, <3>1
    <3> QED  BY <3>2 DEF Queued
  <2>3. Queued(Head(queue))
    BY <1>1 DEF Queued
  <2> QED  BY <2>1, <2>2, <2>3
<1> QED  BY <1>1, <1>2

\* Nothing is queued in an empty channel, and only calls are queued in a full one.
LEMMA QueuedBasics ==
    /\ queue = << >> => \A d : ~Queued(d)
    /\ queue \in Seq(Calls) => \A d : Queued(d) => d \in Calls
  BY EmptySeq, ElementOfSeq DEF Queued

\* A step of the system preserves EachOnce.
LEMMA EachOnceStep ==
    ASSUME TypeOK, EachOnce, [Next]_vars
    PROVE  EachOnce'
<1> USE DEF callVars, taskVars, deviceVars
<1>a. queue \in Seq(Calls) /\ phase \in [Calls -> Phase] /\ reply \in [Calls -> Reply]
  BY DEF TypeOK
<1>1. ASSUME NEW c \in Calls, Call(c)
      PROVE  EachOnce'
  BY <1>1, <1>a DEF Call, EachOnce, Queued
<1>2. ASSUME NEW c \in Calls, Enqueue(c)
      PROVE  EachOnce'
  <2>1. ~Queued(c) /\ c # pending
    BY <1>2 DEF Enqueue, EachOnce
  <2>2. CASE pc = "stopped"
    BY <1>2, <1>a, <2>1, <2>2 DEF Enqueue, EachOnce, Queued
  <2>3. CASE pc # "stopped"
    <3>1. queue' = Append(queue, c) /\ UNCHANGED <<reply, pending>>
      BY <1>2, <2>3 DEF Enqueue
    <3>2. \A i, j \in 1..Len(queue') : queue'[i] = queue'[j] => i = j
      BY <1>a, <2>1, <3>1, QueuedAppend DEF EachOnce, Queued
    <3>3. \A d \in Calls : Queued(d)' \/ d = pending' =>
             reply'[d] = Unanswered /\ phase'[d] \in {"waiting", "cancelled"}
      BY <1>2, <1>a, <2>3, <3>1, QueuedAppend DEF Enqueue, EachOnce
    <3>4. ~Queued(pending)'
      BY <1>a, <2>1, <3>1, QueuedAppend DEF EachOnce
    <3> QED  BY <3>2, <3>3, <3>4 DEF EachOnce
  <2> QED  BY <2>2, <2>3
<1>3. ASSUME NEW c \in Calls, Cancel(c)
      PROVE  EachOnce'
  BY <1>3, <1>a DEF Cancel, Live, EachOnce, Queued
<1>4. CASE AcceptCommand
  <2>1. queue # << >> /\ queue' = Tail(queue) /\ pending = None
    BY <1>4 DEF AcceptCommand, Free
  <2>2. PICK h : h = Head(queue)
    OBVIOUS
  <2>3. /\ h \in Calls
        /\ \A d : Queued(d) <=> Queued(d)' \/ d = h
        /\ \A i, j \in 1..Len(queue') : queue'[i] = queue'[j] => i = j
    BY <1>a, <2>1, <2>2, QueuedTail DEF EachOnce
  <2>4. ~Queued(h)'
    BY <1>a, <2>1, <2>2, QueuedTail DEF EachOnce, Queued
  <2>5. CASE pending' = h /\ UNCHANGED <<reply, phase>>
    BY <2>3, <2>4, <2>5 DEF EachOnce
  <2>6. CASE reply' = [reply EXCEPT ![h] = Error("hid")] /\ UNCHANGED <<pending, phase>>
    <3>1. \A d \in Calls : Queued(d)' \/ d = pending' =>
             reply'[d] = Unanswered /\ phase'[d] \in {"waiting", "cancelled"}
      BY <1>a, <2>1, <2>3, <2>4, <2>6, NoneAssumption DEF EachOnce
    <3>2. ~Queued(pending)'
      BY <2>3, <2>6 DEF EachOnce
    <3> QED  BY <2>3, <3>1, <3>2 DEF EachOnce
  <2> QED  BY <1>4, <2>2, <2>5, <2>6 DEF AcceptCommand
<1>5. ASSUME pending # None, pending' = None, UNCHANGED <<phase, queue>>,
             \A d \in Calls \ {pending} : reply'[d] = reply[d]
      PROVE  EachOnce'
  <2>1. \A d : Queued(d)' <=> Queued(d)
    BY <1>5 DEF Queued
  <2>2. ~Queued(pending)'
    BY <1>5, <1>a, <2>1, QueuedBasics, NoneAssumption
  <2>3. \A d \in Calls : Queued(d)' \/ d = pending' =>
             reply'[d] = Unanswered /\ phase'[d] \in {"waiting", "cancelled"}
    BY <1>5, <2>1, NoneAssumption DEF EachOnce
  <2> QED  BY <1>5, <2>2, <2>3 DEF EachOnce
<1>6. CASE ReadPacket
  BY <1>5, <1>6, <1>a, EachOnce DEF ReadPacket, EachOnce, Queued
<1>7. CASE ReadError
  <2>1. \A d : ~Queued(d)'
    BY <1>7, EmptySeq DEF ReadError, Queued
  <2> QED  BY <1>7, <2>1, EmptySeq, NoneAssumption DEF ReadError, EachOnce
<1>8. CASE CheckDeadline
  BY <1>5, <1>8, <1>a DEF CheckDeadline, AfterTimeout, Due, EachOnce, Queued
<1>9. CASE UNCHANGED <<phase, reply, queue, pending>>
  BY <1>9 DEF EachOnce, Queued
<1>10. CASE \/ Shutdown \/ SkipAccept \/ AcceptNothing \/ AcceptClosed \/ ReadNothing
            \/ DeadlinePasses \/ Device \/ Quiescent \/ UNCHANGED vars
  BY <1>9, <1>10
  DEF Shutdown, SkipAccept, AcceptNothing, AcceptClosed, ReadNothing, DeadlinePasses,
      Device, DeviceAnswers, DeviceLoses, DeviceNotifies, Unplug, Quiescent, vars
<1> QED
  BY <1>1, <1>2, <1>3, <1>4, <1>6, <1>7, <1>8, <1>10 DEF Next, IoTask

\* No oneshot is answered twice and no command is written twice: the channel, the
\* pending slot and the resolved calls never share a command.
THEOREM EachOnceCorrect == Safety => []EachOnce
<1>1. Init => EachOnce
  BY EmptySeq, NoneAssumption DEF Init, EachOnce, Queued
<1>2. TypeOK /\ EachOnce /\ [Next]_vars => EachOnce'
  BY EachOnceStep
<1> QED  BY <1>1, <1>2, TypeCorrect, PTL DEF Safety

-----------------------------------------------------------------------------
(* Nobody is left behind. *)

\* A step of the system preserves NoOrphan.
LEMMA NoOrphanStep ==
    ASSUME TypeOK, NoOrphan, [Next]_vars
    PROVE  NoOrphan'
<1> USE DEF callVars, taskVars, deviceVars
<1>a. queue \in Seq(Calls) /\ phase \in [Calls -> Phase] /\ reply \in [Calls -> Reply]
  BY DEF TypeOK
<1>b. /\ \A e : Error(e) # Unanswered <=> e # "none"
      /\ \A d : Answer(d) # Unanswered
  BY DEF Error, Unanswered, Answer
<1>1. ASSUME NEW c \in Calls, Call(c)
      PROVE  NoOrphan'
  BY <1>1, <1>a DEF Call, NoOrphan, Queued
<1>2. ASSUME NEW c \in Calls, Enqueue(c)
      PROVE  NoOrphan'
  <2>1. CASE pc = "stopped"
    BY <1>2, <1>a, <1>b, <2>1 DEF Enqueue, NoOrphan, Queued
  <2>2. CASE pc # "stopped"
    <3>1. /\ queue' = Append(queue, c)
          /\ phase' = [phase EXCEPT ![c] = "waiting"]
          /\ UNCHANGED <<reply, pending, pc>>
      BY <1>2, <2>2 DEF Enqueue
    <3>2. \A d : Queued(d)' <=> Queued(d) \/ d = c
      BY <1>a, <3>1, QueuedAppend
    <3> QED  BY <1>a, <2>2, <3>1, <3>2 DEF NoOrphan
  <2> QED  BY <2>1, <2>2
<1>3. ASSUME NEW c \in Calls, Cancel(c)
      PROVE  NoOrphan'
  BY <1>3, <1>a DEF Cancel, NoOrphan, Queued
<1>4. CASE AcceptCommand
  <2>1. /\ queue # << >>
        /\ queue' = Tail(queue)
        /\ pending = None
        /\ pc' = "read"
        /\ UNCHANGED phase
    BY <1>4 DEF AcceptCommand, Free
  <2>2. PICK h : h = Head(queue)
    OBVIOUS
  <2>3. h \in Calls /\ \A d : Queued(d) <=> Queued(d)' \/ d = h
    BY <1>a, <2>1, <2>2, QueuedTail
  <2>4. \/ pending' = h /\ UNCHANGED reply
        \/ reply' = [reply EXCEPT ![h] = Error("hid")] /\ UNCHANGED pending
    BY <1>4, <2>2 DEF AcceptCommand
  <2> QED  BY <1>a, <1>b, <2>1, <2>3, <2>4, NoneAssumption DEF NoOrphan
<1>5. CASE AcceptClosed
  <2>1. pending = None /\ (\A d : ~Queued(d)) /\ UNCHANGED <<phase, reply>>
    BY <1>5, QueuedBasics DEF AcceptClosed, Free
  <2> QED  BY <2>1, NoneAssumption DEF NoOrphan
<1>6. ASSUME pending # None, UNCHANGED <<phase, queue>>, pc' # "stopped",
             NEW r, r # Unanswered, reply' = [reply EXCEPT ![pending] = r]
      PROVE  NoOrphan'
  <2>1. \A d : Queued(d)' <=> Queued(d)
    BY <1>6 DEF Queued
  <2>2. pending \in Calls
    BY <1>6 DEF TypeOK
  <2> QED  BY <1>6, <1>a, <2>1, <2>2 DEF NoOrphan
<1>7. ASSUME UNCHANGED <<phase, reply, queue, pending>>, pc = "stopped" <=> pc' = "stopped"
      PROVE  NoOrphan'
  BY <1>7 DEF NoOrphan, Queued
<1>8. CASE ReadPacket
  <2>1. pc = "read" /\ pc' = "deadline" /\ UNCHANGED <<phase, queue>>
    BY <1>8 DEF ReadPacket
  <2>2. CASE UNCHANGED <<reply, pending>>
    BY <1>7, <2>1, <2>2
  <2>3. CASE pending # None /\ reply' = [reply EXCEPT ![pending] = Answer(Head(inbound).to)]
    BY <1>6, <1>b, <2>1, <2>3
  <2> QED  BY <1>8, <2>2, <2>3 DEF ReadPacket
<1>9. CASE ReadError
  <2>1. /\ \A d \in Calls : reply'[d] = ReplyOnError(d)
        /\ UNCHANGED phase
    BY <1>9 DEF ReadError
  <2> QED  BY <1>b, <2>1 DEF ReplyOnError, NoOrphan
<1>10. CASE CheckDeadline
  <2>1. pc = "deadline" /\ pc' = "accept" /\ UNCHANGED <<phase, queue>>
    BY <1>10 DEF CheckDeadline, AfterTimeout
  <2>2. CASE UNCHANGED <<reply, pending>>
    BY <1>7, <2>1, <2>2
  <2>3. CASE pending # None /\ reply' = [reply EXCEPT ![pending] = Error(TimeoutError)]
    BY <1>6, <1>b, <2>1, <2>3 DEF TimeoutError
  <2> QED  BY <1>10, <2>2, <2>3 DEF CheckDeadline, AfterTimeout, Due
<1>11. CASE \/ Shutdown \/ SkipAccept \/ AcceptNothing \/ ReadNothing
            \/ DeadlinePasses \/ Device \/ Quiescent \/ UNCHANGED vars
  BY <1>7, <1>11
  DEF Shutdown, SkipAccept, AcceptNothing, ReadNothing, DeadlinePasses,
      Device, DeviceAnswers, DeviceLoses, DeviceNotifies, Unplug, Quiescent, vars
<1> QED
  BY <1>1, <1>2, <1>3, <1>4, <1>5, <1>8, <1>9, <1>10, <1>11 DEF Next, IoTask

\* A caller that waits is always the pending one or in the channel of a live task: no
\* interleaving of errors, timeouts, cancellations and shutdown forgets it.
THEOREM NoOrphanCorrect == Safety => []NoOrphan
<1>1. Init => NoOrphan
  BY DEF Init, NoOrphan
<1>2. TypeOK /\ NoOrphan /\ [Next]_vars => NoOrphan'
  BY NoOrphanStep
<1> QED  BY <1>1, <1>2, TypeCorrect, PTL DEF Safety

-----------------------------------------------------------------------------
(* The last word. *)

\* A subscriber hears "disconnected" once, last, and of a device that is gone.
THEOREM DisconnectedIsLastCorrect == Safety => []DisconnectedIsLast
<1>1. Init => DisconnectedIsLast
  BY EmptySeq DEF Init, DisconnectedIsLast
<1>2. TypeOK /\ DisconnectedIsLast /\ [Next]_vars => DisconnectedIsLast'
  <2> SUFFICES ASSUME TypeOK, DisconnectedIsLast, [Next]_vars
               PROVE  DisconnectedIsLast'
    OBVIOUS
  <2> USE DEF callVars, taskVars, deviceVars
  <2>1. ASSUME NEW n \in {"status", "disconnected"}, notices' = Append(notices, n)
        PROVE  /\ Len(notices') = Len(notices) + 1
               /\ Len(notices) \in Nat
               /\ \A i \in 1..Len(notices) : notices'[i] = notices[i]
               /\ notices'[Len(notices) + 1] = n
    BY <2>1, AppendFacts, LenProperties DEF TypeOK
  <2>2. ASSUME UNCHANGED notices,
               (pc = "stopped" /\ ~plugged) => (pc' = "stopped" /\ ~plugged')
        PROVE  DisconnectedIsLast'
    BY <2>2 DEF DisconnectedIsLast
  <2>3. CASE ReadPacket /\ notices' = Append(notices, "status")
    <3>1. \A i \in 1..Len(notices) : notices[i] # "disconnected"
      BY <2>3 DEF ReadPacket, DisconnectedIsLast
    <3> QED  BY <2>1, <2>3, <3>1 DEF DisconnectedIsLast
  <2>4. CASE ReadError
    <3>1. \A i \in 1..Len(notices) : notices[i] # "disconnected"
      BY <2>4 DEF ReadError, DisconnectedIsLast
    <3>2. notices' = Append(notices, "disconnected") /\ pc' = "stopped" /\ ~plugged'
      BY <2>4 DEF ReadError, ErrorNotices, AfterError
    <3> QED  BY <2>1, <3>1, <3>2 DEF DisconnectedIsLast
  <2>5. CASE ReadPacket /\ UNCHANGED notices
    BY <2>2, <2>5 DEF ReadPacket
  <2>6. ASSUME NEW c \in Calls, Call(c) \/ Enqueue(c) \/ Cancel(c)
        PROVE  DisconnectedIsLast'
    BY <2>2, <2>6 DEF Call, Enqueue, Cancel
  <2>7. CASE \/ Shutdown \/ SkipAccept \/ AcceptCommand \/ AcceptNothing \/ AcceptClosed
             \/ ReadNothing \/ CheckDeadline \/ DeadlinePasses
    BY <2>2, <2>7
    DEF Shutdown, SkipAccept, AcceptCommand, AcceptNothing, AcceptClosed, ReadNothing,
        CheckDeadline, DeadlinePasses
  <2>8. CASE Device \/ Quiescent \/ UNCHANGED vars
    BY <2>2, <2>8
    DEF Device, DeviceAnswers, DeviceLoses, DeviceNotifies, Unplug, Quiescent, vars
  <2> QED
    BY <2>3, <2>4, <2>5, <2>6, <2>7, <2>8 DEF Next, IoTask, ReadPacket
<1> QED  BY <1>1, <1>2, TypeCorrect, PTL DEF Safety

-----------------------------------------------------------------------------
(* Who gets which response. *)

\* A step never changes the reply of a resolved call.
LEMMA ReplyOnceStep ==
    ASSUME TypeOK, EachOnce, [Next]_vars, NEW c \in Calls, reply[c] # Unanswered
    PROVE  reply'[c] = reply[c]
<1> USE DEF callVars, taskVars, deviceVars
<1>a. /\ reply \in [Calls -> Reply]
      /\ c # pending
      /\ ~Queued(c)
  BY DEF TypeOK, EachOnce
<1>1. ASSUME NEW d \in Calls, Call(d) \/ Enqueue(d) \/ Cancel(d)
      PROVE  reply'[c] = reply[c]
  BY <1>1, <1>a DEF Call, Enqueue, Cancel
<1>2. CASE AcceptCommand
  <2>1. queue \in Seq(Calls) /\ queue # << >>
    BY <1>2 DEF AcceptCommand, TypeOK
  <2>2. c # Head(queue)
    BY <1>a, <2>1, TailFacts DEF Queued
  <2> QED  BY <1>2, <1>a, <2>2 DEF AcceptCommand
<1>3. CASE ReadPacket \/ CheckDeadline
  BY <1>3, <1>a DEF ReadPacket, CheckDeadline, AfterTimeout
<1>4. CASE ReadError
  BY <1>4, <1>a DEF ReadError, ReplyOnError
<1>5. CASE \/ Shutdown \/ SkipAccept \/ AcceptNothing \/ AcceptClosed \/ ReadNothing
           \/ DeadlinePasses \/ Device \/ Quiescent \/ UNCHANGED vars
  BY <1>5
  DEF Shutdown, SkipAccept, AcceptNothing, AcceptClosed, ReadNothing, DeadlinePasses,
      Device, DeviceAnswers, DeviceLoses, DeviceNotifies, Unplug, Quiescent, vars
<1> QED  BY <1>1, <1>2, <1>3, <1>4, <1>5 DEF Next, IoTask

\* Every call is resolved at most once, whoever races to resolve it.
THEOREM ResolvedOnce ==
    Safety => [][\A c \in Calls : reply[c] # Unanswered => reply'[c] = reply[c]]_vars
<1>1. TypeOK /\ EachOnce /\ [Next]_vars
        => [\A c \in Calls : reply[c] # Unanswered => reply'[c] = reply[c]]_vars
  BY ReplyOnceStep
<1> QED  BY <1>1, TypeCorrect, EachOnceCorrect, PTL DEF Safety

\* A call that has timed out stays timed out.
LEMMA TimedOutGrows ==
    ASSUME TypeOK, EachOnce, [Next]_vars
    PROVE  TimedOut \subseteq TimedOut'
<1> SUFFICES ASSUME NEW c \in Calls, reply[c] = Error(TimeoutError)
             PROVE  reply'[c] = Error(TimeoutError)
  BY DEF TimedOut, Error, TimeoutError
<1>1. reply[c] # Unanswered
  BY DEF Error, TimeoutError, Unanswered
<1> QED  BY <1>1, ReplyOnceStep

\* Two tagged records are told apart by their tags.
LEMMA Tags ==
    /\ \A d : Response(d) # StatusChanged /\ Response(d).to = d
    /\ \A d, x : Response(d) = Response(x) => d = x
  BY DEF Response, StatusChanged

\* A step of the system preserves InStep.
LEMMA InStepStep ==
    ASSUME TypeOK, EachOnce, InStep, [Next]_vars
    PROVE  InStep'
<1> USE DEF callVars, taskVars, deviceVars
<1> SUFFICES ASSUME TimedOut' = {}, pc' # "stopped"
             PROVE  InStep'
  BY DEF InStep
<1>a. /\ queue \in Seq(Calls)
      /\ wire \in Seq(Calls)
      /\ inbound \in Seq(Packet)
      /\ reply \in [Calls -> Reply]
      /\ pending \in Calls \cup {None}
  BY DEF TypeOK
<1>b. TimedOut = {}
  BY TimedOutGrows
<1>1. ASSUME UNCHANGED <<wire, inbound, pending>>, pc # "stopped"
      PROVE  InStep'
  BY <1>1, <1>b DEF InStep
<1>2. ASSUME pc # "stopped"
      PROVE  /\ \A i \in 1..Len(wire) : i = 1 /\ wire[i] = pending
             /\ \A i \in 1..Len(inbound) : inbound[i] # StatusChanged =>
                  /\ inbound[i] = Response(pending)
                  /\ wire = << >>
                  /\ \A j \in 1..Len(inbound) : inbound[j] # StatusChanged => i = j
  BY <1>2, <1>b DEF InStep
<1>3. ASSUME pc # "stopped", pending = None
      PROVE  wire = << >> /\ \A i \in 1..Len(inbound) : inbound[i] = StatusChanged
  <2>1. wire = << >>
    <3>1. \A i \in 1..Len(wire) : wire[i] = None /\ wire[i] \in Calls
      BY <1>2, <1>3, <1>a, ElementOfSeq
    <3> QED  BY <1>a, <3>1, EmptySeq, NoneAssumption
  <2>2. ASSUME NEW i \in 1..Len(inbound), inbound[i] # StatusChanged
        PROVE  FALSE
    <3>1. inbound[i].to \in Calls /\ inbound[i].to = None
      BY <1>2, <1>3, <1>a, <2>2, ElementOfSeq, ResponseOfPacket, Tags
    <3> QED  BY <3>1, NoneAssumption
  <2> QED  BY <2>1, <2>2
<1>4. CASE AcceptCommand
  <2>1. pc # "stopped" /\ pending = None /\ inbound' = inbound /\ Head(queue) \in Calls
    BY <1>4, <1>a, TailFacts DEF AcceptCommand, Free
  <2>2. wire = << >> /\ \A i \in 1..Len(inbound) : inbound[i] = StatusChanged
    BY <1>3, <2>1
  <2>3. CASE wire' = Append(wire, Head(queue)) /\ pending' = Head(queue)
    <3>1. Len(wire') = 1 /\ wire'[1] = pending'
      BY <2>1, <2>2, <2>3, EmptySeq, AppendFacts
    <3> QED  BY <2>1, <2>2, <3>1 DEF InStep
  <2>4. CASE UNCHANGED <<wire, pending>>
    BY <1>1, <2>1, <2>4
  <2> QED  BY <1>4, <2>3, <2>4 DEF AcceptCommand
<1>5. CASE ReadPacket
  <2>1. /\ pc # "stopped"
        /\ inbound # << >>
        /\ inbound' = Tail(inbound)
        /\ wire' = wire
    BY <1>5 DEF ReadPacket
  <2>2. /\ Head(inbound) = inbound[1]
        /\ Len(inbound) \in Nat \ {0}
        /\ Len(inbound') = Len(inbound) - 1
        /\ \A i \in 1..Len(inbound') : inbound'[i] = inbound[i + 1]
    BY <1>a, <2>1, TailFacts
  <2>3. CASE pending' = pending
    BY <1>2, <2>1, <2>2, <2>3 DEF InStep
  <2>4. CASE Head(inbound) # StatusChanged /\ pending' = None
    <3>1. wire = << >> /\ \A j \in 1..Len(inbound) : inbound[j] # StatusChanged => j = 1
      BY <1>2, <2>1, <2>2, <2>4
    <3>2. \A i \in 1..Len(inbound') : inbound'[i] = StatusChanged
      BY <2>2, <3>1
    <3> QED  BY <2>1, <3>1, <3>2, EmptySeq DEF InStep
  <2> QED  BY <1>5, <2>3, <2>4 DEF ReadPacket
<1>6. CASE ReadError
  BY <1>6 DEF ReadError, AfterError
<1>7. CASE CheckDeadline
  <2>1. ~Due
    <3>1. SUFFICES ASSUME Due
                   PROVE  FALSE
      OBVIOUS
    <3>2. pending \in Calls /\ reply' = [reply EXCEPT ![pending] = Error(TimeoutError)]
      BY <1>7, <1>a, <3>1 DEF CheckDeadline, AfterTimeout, Due
    <3>3. pending \in TimedOut'
      BY <1>a, <3>2 DEF TimedOut, TimeoutError, Error
    <3> QED  BY <3>3
  <2> QED  BY <1>1, <1>7, <2>1 DEF CheckDeadline, AfterTimeout
<1>8. ASSUME wire # << >>, pc # "stopped"
      PROVE  /\ Len(wire) = 1
             /\ Head(wire) = pending
             /\ Tail(wire) = << >>
             /\ \A i \in 1..Len(inbound) : inbound[i] = StatusChanged
  <2>1. Head(wire) = wire[1] /\ Len(wire) \in Nat \ {0}
    BY <1>8, <1>a, TailFacts
  <2>2. Len(wire) = 1
    <3>1. Len(wire) \in 1..Len(wire)
      BY <2>1
    <3> QED  BY <1>2, <1>8, <3>1
  <2>3. Tail(wire) \in Seq(Calls) /\ Len(Tail(wire)) = 0
    BY <1>8, <1>a, <2>2, TailFacts
  <2>4. Tail(wire) = << >>
    BY <2>3, EmptySeq
  <2> QED  BY <1>2, <1>8, <2>1, <2>2, <2>4
<1>9. CASE DeviceAnswers
  <2>1. /\ pc # "stopped"
        /\ wire # << >>
        /\ wire' = Tail(wire)
        /\ inbound' = Append(inbound, Response(Head(wire)))
        /\ pending' = pending
    BY <1>9 DEF DeviceAnswers
  <2>2. Response(Head(wire)) \in Packet
    BY <1>a, <2>1, TailFacts, ReplyTypes
  <2>3. /\ Len(inbound) \in Nat
        /\ Len(inbound') = Len(inbound) + 1
        /\ \A i \in 1..Len(inbound) : inbound'[i] = inbound[i]
        /\ inbound'[Len(inbound) + 1] = Response(Head(wire))
    BY <1>a, <2>1, <2>2, AppendFacts, LenProperties
  <2>4. Head(wire) = pending /\ wire' = << >>
        /\ \A i \in 1..Len(inbound) : inbound[i] = StatusChanged
    BY <1>8, <2>1
  <2> QED  BY <2>1, <2>3, <2>4, EmptySeq DEF InStep
<1>10. CASE DeviceLoses
  <2>1. wire' = << >> /\ UNCHANGED <<inbound, pending>> /\ pc # "stopped"
    BY <1>8, <1>10 DEF DeviceLoses
  <2> QED  BY <1>2, <2>1, EmptySeq DEF InStep
<1>11. CASE DeviceNotifies
  <2>1. /\ inbound' = Append(inbound, StatusChanged)
        /\ UNCHANGED <<wire, pending>>
        /\ pc # "stopped"
    BY <1>11 DEF DeviceNotifies
  <2>2. /\ Len(inbound) \in Nat
        /\ Len(inbound') = Len(inbound) + 1
        /\ \A i \in 1..Len(inbound) : inbound'[i] = inbound[i]
        /\ inbound'[Len(inbound) + 1] = StatusChanged
    BY <1>a, <2>1, ReplyTypes, AppendFacts, LenProperties
  <2> QED  BY <1>2, <2>1, <2>2 DEF InStep
<1>12. ASSUME NEW c \in Calls, Call(c) \/ Enqueue(c) \/ Cancel(c)
       PROVE  InStep'
  BY <1>1, <1>12 DEF Call, Enqueue, Cancel
<1>13. CASE \/ Shutdown \/ SkipAccept \/ AcceptNothing \/ AcceptClosed \/ ReadNothing
            \/ DeadlinePasses \/ Unplug \/ Quiescent \/ UNCHANGED vars
  BY <1>1, <1>13
  DEF Shutdown, SkipAccept, AcceptNothing, AcceptClosed, ReadNothing, DeadlinePasses,
      Unplug, Quiescent, vars
<1> QED
  BY <1>4, <1>5, <1>6, <1>7, <1>9, <1>10, <1>11, <1>12, <1>13 DEF Next, IoTask, Device

\* While no call has timed out, one exchange at most is in flight, the pending one's.
THEOREM InStepCorrect == Safety => []InStep
<1>1. Init => InStep
  BY EmptySeq DEF Init, InStep
<1>2. TypeOK /\ EachOnce /\ InStep /\ [Next]_vars => InStep'
  BY InStepStep
<1> QED  BY <1>1, <1>2, TypeCorrect, EachOnceCorrect, PTL DEF Safety

\* A step of the system preserves NoTimeoutNoMixup.
LEMMA NoMixupStep ==
    ASSUME TypeOK, EachOnce, InStep, NoTimeoutNoMixup, [Next]_vars
    PROVE  NoTimeoutNoMixup'
<1> USE DEF callVars, taskVars, deviceVars
<1> SUFFICES ASSUME TimedOut' = {}, NEW c \in Calls, reply'[c].kind = "ok"
             PROVE  reply'[c] = Answer(c)
  BY DEF NoTimeoutNoMixup
<1>a. reply \in [Calls -> Reply] /\ inbound \in Seq(Packet) /\ queue \in Seq(Calls)
  BY DEF TypeOK
<1>b. TimedOut = {}
  BY TimedOutGrows
<1>c. \A e \in ErrorKind : Error(e).kind # "ok"
  BY DEF Error, ErrorKind
<1>1. CASE reply'[c] = reply[c]
  BY <1>1, <1>b DEF NoTimeoutNoMixup
<1>2. CASE ReadPacket /\ reply'[c] # reply[c]
  <2>1. /\ inbound # << >>
        /\ pc # "stopped"
        /\ c = pending
        /\ Head(inbound) # StatusChanged
        /\ reply'[c] = Answer(Head(inbound).to)
    BY <1>2, <1>a DEF ReadPacket
  <2>2. Head(inbound) = inbound[1] /\ 1 \in 1..Len(inbound)
    BY <1>a, <2>1, TailFacts
  <2>3. Head(inbound) = Response(pending)
    BY <1>b, <2>1, <2>2 DEF InStep
  <2> QED  BY <2>1, <2>3, Tags
<1>3. CASE ~ReadPacket /\ reply'[c] # reply[c]
  <2>1. reply'[c] \in {Error(e) : e \in ErrorKind}
    <3>1. ASSUME NEW d \in Calls, Call(d) \/ Enqueue(d) \/ Cancel(d)
          PROVE  reply'[c] \in {Error(e) : e \in ErrorKind}
      BY <1>3, <1>a, <3>1 DEF Call, Enqueue, Cancel, ErrorKind
    <3>2. CASE AcceptCommand
      BY <1>3, <1>a, <3>2 DEF AcceptCommand, ErrorKind
    <3>3. CASE ReadError
      BY <1>3, <3>3 DEF ReadError, ReplyOnError, ErrorKind
    <3>4. CASE CheckDeadline
      BY <1>3, <1>a, <3>4 DEF CheckDeadline, AfterTimeout, TimeoutError, ErrorKind
    <3>5. CASE \/ Shutdown \/ SkipAccept \/ AcceptNothing \/ AcceptClosed \/ ReadNothing
               \/ DeadlinePasses \/ Device \/ Quiescent \/ UNCHANGED vars
      BY <1>3, <3>5
      DEF Shutdown, SkipAccept, AcceptNothing, AcceptClosed, ReadNothing, DeadlinePasses,
          Device, DeviceAnswers, DeviceLoses, DeviceNotifies, Unplug, Quiescent, vars
    <3> QED  BY <1>3, <3>1, <3>2, <3>3, <3>4, <3>5 DEF Next, IoTask
  <2> QED  BY <1>c, <2>1
<1> QED  BY <1>1, <1>2, <1>3

\* Until some call times out, a response reaches the caller whose command it answers.
THEOREM NoMixupCorrect == Safety => []NoTimeoutNoMixup
<1>1. Init => NoTimeoutNoMixup
  BY DEF Init, NoTimeoutNoMixup, Unanswered
<1>2. TypeOK /\ EachOnce /\ InStep /\ NoTimeoutNoMixup /\ [Next]_vars => NoTimeoutNoMixup'
  BY NoMixupStep
<1> QED  BY <1>1, <1>2, TypeCorrect, EachOnceCorrect, InStepCorrect, PTL DEF Safety

-----------------------------------------------------------------------------
(* How far commands and responses can get out of step. *)

\* The responses among finitely many packets can be counted.
LEMMA ResponsesCount ==
    ASSUME NEW s \in Seq(Packet)
    PROVE  IsFiniteSet(Responses(s)) /\ Cardinality(Responses(s)) \in Nat
<1>1. IsFiniteSet(1..Len(s)) /\ Responses(s) \subseteq 1..Len(s)
  BY FS_Interval, LenProperties DEF Responses
<1> QED  BY <1>1, FS_Subset, FS_CardinalityType

\* A packet more is at most a response more, and a notification is none.
LEMMA ResponsesAppend ==
    ASSUME NEW s \in Seq(Packet), NEW p \in Packet
    PROVE  Cardinality(Responses(Append(s, p)))
             = Cardinality(Responses(s)) + (IF p = StatusChanged THEN 0 ELSE 1)
<1>1. /\ Len(s) \in Nat
      /\ Len(Append(s, p)) = Len(s) + 1
      /\ \A i \in 1..Len(s) : Append(s, p)[i] = s[i]
      /\ Append(s, p)[Len(s) + 1] = p
  BY AppendFacts, LenProperties
<1>2. CASE p = StatusChanged
  <2>1. Responses(Append(s, p)) = Responses(s)
    BY <1>1, <1>2 DEF Responses
  <2> QED  BY <1>2, <2>1, ResponsesCount
<1>3. CASE p # StatusChanged
  <2>1. Responses(Append(s, p)) = Responses(s) \cup {Len(s) + 1}
    BY <1>1, <1>3 DEF Responses
  <2>2. Len(s) + 1 \notin Responses(s)
    BY <1>1 DEF Responses
  <2>3. Cardinality(Responses(s) \cup {Len(s) + 1}) = Cardinality(Responses(s)) + 1
    BY <2>2, ResponsesCount, FS_AddElement
  <2> QED  BY <1>3, <2>1, <2>3
<1> QED  BY <1>2, <1>3

\* Reading a response leaves one less to read.
LEMMA ResponsesTail ==
    ASSUME NEW s \in Seq(Packet), s # << >>
    PROVE  Cardinality(Responses(Tail(s)))
             <= Cardinality(Responses(s)) - (IF Head(s) = StatusChanged THEN 0 ELSE 1)
<1> DEFINE Rest == Responses(s) \ {1}
           f == [i \in Rest |-> i - 1]
<1>1. /\ Head(s) = s[1] /\ Tail(s) \in Seq(Packet)
      /\ Len(s) \in Nat \ {0}
      /\ Len(Tail(s)) = Len(s) - 1
      /\ \A i \in 1..Len(Tail(s)) : Tail(s)[i] = s[i + 1]
  BY TailFacts
<1>2. IsFiniteSet(Responses(s)) /\ Cardinality(Responses(s)) \in Nat
  BY ResponsesCount
<1>3. /\ IsFiniteSet(Rest)
      /\ Cardinality(Rest) = Cardinality(Responses(s)) - (IF Head(s) = StatusChanged THEN 0 ELSE 1)
  <2>1. 1 \in Responses(s) <=> Head(s) # StatusChanged
    BY <1>1 DEF Responses
  <2>2. IsFiniteSet(Rest)
        /\ Cardinality(Rest) = IF 1 \in Responses(s) THEN Cardinality(Responses(s)) - 1
                               ELSE Cardinality(Responses(s))
    BY <1>2, FS_RemoveElement
  <2> HIDE DEF Rest
  <2> QED  BY <1>2, <2>1, <2>2
<1>4. f \in Surjection(Rest, Responses(Tail(s)))
  <2>1. \A i \in Rest : i - 1 \in Responses(Tail(s))
    BY <1>1 DEF Responses
  <2>2. \A j \in Responses(Tail(s)) : j + 1 \in Rest /\ (j + 1) - 1 = j
    BY <1>1 DEF Responses
  <2> HIDE DEF Rest
  <2>3. f \in [Rest -> Responses(Tail(s))]
    BY <2>1
  <2>4. \A j \in Responses(Tail(s)) : \E i \in Rest : f[i] = j
    BY <2>2
  <2> QED  BY <2>3, <2>4 DEF Surjection
<1>5. Cardinality(Responses(Tail(s))) <= Cardinality(Rest)
  <2> HIDE DEF Rest, f
  <2> QED  BY <1>3, <1>4, FS_Surjection
<1> QED  BY <1>3, <1>5

\* What SkewBounded compares, with what makes it countable.
SkewInv == IsFiniteSet(TimedOut) /\ SkewBounded

Counting == IF pending = None THEN 0 ELSE 1

\* A step after which no more is in flight, or more calls have timed out.
LEMMA SkewKept ==
    ASSUME TypeOK, EachOnce, SkewInv, [Next]_vars, pc # "stopped",
           TimedOut' = TimedOut,
           Len(wire') + Cardinality(Responses(inbound')) + Counting
             <= Len(wire) + Cardinality(Responses(inbound)) + Counting',
           Len(wire') \in Nat, Cardinality(Responses(inbound')) \in Nat
    PROVE  SkewInv'
<1> DEFINE W == Len(wire)
           R == Cardinality(Responses(inbound))
           T == Cardinality(TimedOut)
<1>1. W \in Nat /\ R \in Nat /\ T \in Nat
  BY LenProperties, ResponsesCount, FS_CardinalityType DEF TypeOK, SkewInv
<1>2. W + R <= T + Counting
  BY DEF SkewInv, SkewBounded, Counting
<1>3. Counting \in Nat /\ Counting' \in Nat
  BY DEF Counting
<1>4. Len(wire') + Cardinality(Responses(inbound')) <= T + Counting'
  <2> HIDE DEF W, R, T
  <2>1. Len(wire') + Cardinality(Responses(inbound')) + Counting <= W + R + Counting'
    BY DEF W, R
  <2> QED  BY <1>1, <1>2, <1>3, <2>1
<1>5. SkewBounded' <=> (pc' # "stopped" =>
          Len(wire') + Cardinality(Responses(inbound')) <= Cardinality(TimedOut') + Counting')
  BY DEF SkewBounded, Counting
<1> QED  BY <1>4, <1>5 DEF SkewInv

\* A step after which the task has ended.
LEMMA SkewOver ==
    ASSUME IsFiniteSet(TimedOut), pc' = "stopped", TimedOut' = TimedOut
    PROVE  SkewInv'
  BY DEF SkewInv, SkewBounded

\* Replies that change, but not to a timeout.
LEMMA TimedOutStays ==
    ASSUME TypeOK, EachOnce, [Next]_vars,
           \A c \in Calls : reply'[c] = reply[c] \/ reply'[c].kind # TimeoutError
    PROVE  TimedOut' = TimedOut
<1>1. TimedOut \subseteq TimedOut'
  BY TimedOutGrows
<1>2. \A c \in Calls : reply'[c] = Error(TimeoutError) => reply[c] = Error(TimeoutError)
  BY DEF Error
<1> QED  BY <1>1, <1>2 DEF TimedOut, Error, TimeoutError

\* A step of the system preserves SkewBounded.
LEMMA SkewStep ==
    ASSUME TypeOK, EachOnce, SkewInv, [Next]_vars
    PROVE  SkewInv'
<1> USE DEF callVars, taskVars, deviceVars
<1>a. /\ queue \in Seq(Calls) /\ wire \in Seq(Calls) /\ inbound \in Seq(Packet)
      /\ reply \in [Calls -> Reply] /\ pending \in Calls \cup {None}
  BY DEF TypeOK
<1>b. Len(wire) \in Nat /\ Cardinality(Responses(inbound)) \in Nat
  BY <1>a, LenProperties, ResponsesCount
<1>c. TimeoutError \in {"offline", "timeout"}
  BY DEF TimeoutError
<1>d. /\ \A d : Answer(d).kind = "ok"
      /\ \A e : Error(e).kind = e
  BY DEF Answer, Error
<1>1. ASSUME UNCHANGED <<wire, inbound, pending>>, pc # "stopped", TimedOut' = TimedOut
      PROVE  SkewInv'
  BY <1>1, <1>b, SkewKept DEF Counting
<1>2. ASSUME UNCHANGED <<reply, wire, inbound, pending>>,
             pc' = pc \/ pc' = "stopped" \/ pc # "stopped"
      PROVE  SkewInv'
  <2>1. TimedOut' = TimedOut
    BY <1>2 DEF TimedOut, TimeoutError
  <2> QED  BY <1>1, <1>2, <2>1, SkewOver DEF SkewInv
<1>3. ASSUME NEW c \in Calls, Call(c) \/ Enqueue(c) \/ Cancel(c)
      PROVE  SkewInv'
  <2>1. UNCHANGED <<pc, wire, inbound, pending>>
    BY <1>3 DEF Call, Enqueue, Cancel
  <2>2. \A d \in Calls : reply'[d] = reply[d] \/ reply'[d] = Error("closed")
    BY <1>3, <1>a DEF Call, Enqueue, Cancel
  <2>3. TimedOut' = TimedOut
    BY <1>c, <1>d, <2>2, TimedOutStays
  <2> QED  BY <1>1, <2>1, <2>3, SkewOver DEF SkewInv
<1>4. CASE AcceptCommand
  <2>1. /\ pc # "stopped" /\ pending = None /\ UNCHANGED inbound /\ Head(queue) \in Calls
    BY <1>4, <1>a, TailFacts DEF AcceptCommand, Free
  <2>2. CASE wire' = Append(wire, Head(queue)) /\ pending' = Head(queue) /\ UNCHANGED reply
    <3>1. Len(wire') = Len(wire) + 1
      BY <1>a, <2>1, <2>2, AppendFacts
    <3>2. Counting = 0 /\ Counting' = 1
      BY <2>1, <2>2, NoneAssumption DEF Counting
    <3>3. TimedOut' = TimedOut
      BY <2>2 DEF TimedOut, TimeoutError
    <3> QED  BY <1>b, <2>1, <3>1, <3>2, <3>3, SkewKept
  <2>3. CASE reply' = [reply EXCEPT ![Head(queue)] = Error("hid")] /\ UNCHANGED <<wire, pending>>
    <3>1. \A d \in Calls : reply'[d] = reply[d] \/ reply'[d] = Error("hid")
      BY <1>a, <2>3
    <3>2. TimedOut' = TimedOut
      BY <1>c, <1>d, <3>1, TimedOutStays
    <3> QED  BY <1>1, <2>1, <2>3, <3>2
  <2> QED  BY <1>4, <2>2, <2>3 DEF AcceptCommand
<1>5. CASE ReadPacket
  <2>1. /\ pc # "stopped" /\ inbound # << >> /\ inbound' = Tail(inbound) /\ wire' = wire
    BY <1>5 DEF ReadPacket
  <2>2. /\ Cardinality(Responses(inbound'))
             <= Cardinality(Responses(inbound)) - (IF Head(inbound) = StatusChanged THEN 0 ELSE 1)
        /\ Cardinality(Responses(inbound')) \in Nat
    BY <1>a, <2>1, ResponsesTail, ResponsesCount, TailFacts
  <2>3. \A d \in Calls : reply'[d] = reply[d] \/ reply'[d] = Answer(Head(inbound).to)
    BY <1>5, <1>a DEF ReadPacket
  <2>4. TimedOut' = TimedOut
    BY <1>c, <1>d, <2>3, TimedOutStays
  <2>5. CASE pending' = pending
    <3>1. Cardinality(Responses(inbound')) <= Cardinality(Responses(inbound))
      BY <1>b, <2>2
    <3>2. Counting' = Counting /\ Counting \in Nat
      BY <2>5 DEF Counting
    <3> QED  BY <1>b, <2>1, <2>2, <2>4, <3>1, <3>2, SkewKept
  <2>6. CASE Head(inbound) # StatusChanged /\ pending # None /\ pending' = None
    <3>1. Cardinality(Responses(inbound')) <= Cardinality(Responses(inbound)) - 1
      BY <2>2, <2>6
    <3>2. Counting = 1 /\ Counting' = 0
      BY <2>6 DEF Counting
    <3> QED  BY <1>b, <2>1, <2>2, <2>4, <3>1, <3>2, SkewKept
  <2> QED  BY <1>5, <2>5, <2>6 DEF ReadPacket
<1>6. CASE ReadError
  <2>1. \A d \in Calls : reply'[d] = reply[d] \/ reply'[d] \in {Error("disconnected"), Error("closed")}
    BY <1>6 DEF ReadError, ReplyOnError
  <2>2. TimedOut' = TimedOut
    BY <1>c, <1>d, <2>1, TimedOutStays
  <2> QED  BY <1>6, <2>2, SkewOver DEF ReadError, AfterError, SkewInv
<1>7. CASE CheckDeadline /\ Due
  <2>1. /\ pc # "stopped" /\ pending \in Calls /\ pending' = None
        /\ UNCHANGED <<wire, inbound>>
        /\ reply' = [reply EXCEPT ![pending] = Error(TimeoutError)]
    BY <1>7, <1>a DEF CheckDeadline, Due, AfterTimeout
  <2>2. pending \notin TimedOut
    BY <2>1 DEF EachOnce, TimedOut, Error, Unanswered, TimeoutError
  <2>3. TimedOut' = TimedOut \cup {pending}
    BY <1>a, <2>1 DEF TimedOut, TimeoutError, Error
  <2>4. IsFiniteSet(TimedOut') /\ Cardinality(TimedOut') = Cardinality(TimedOut) + 1
    BY <2>2, <2>3, FS_AddElement DEF SkewInv
  <2>5. Len(wire) + Cardinality(Responses(inbound)) <= Cardinality(TimedOut) + 1
    BY <2>1, NoneAssumption DEF SkewInv, SkewBounded
  <2>6. Cardinality(TimedOut) \in Nat
    BY FS_CardinalityType DEF SkewInv
  <2> QED  BY <1>b, <2>1, <2>4, <2>5, <2>6 DEF SkewInv, SkewBounded
<1>8. CASE CheckDeadline /\ ~Due
  BY <1>2, <1>8 DEF CheckDeadline
<1>9. CASE DeviceAnswers
  <2>1. /\ wire # << >> /\ wire' = Tail(wire)
        /\ inbound' = Append(inbound, Response(Head(wire)))
        /\ UNCHANGED <<pending, pc, reply>>
    BY <1>9 DEF DeviceAnswers
  <2>2. Response(Head(wire)) \in Packet /\ Response(Head(wire)) # StatusChanged
    BY <1>a, <2>1, TailFacts, ReplyTypes, Tags
  <2>3. Cardinality(Responses(inbound')) = Cardinality(Responses(inbound)) + 1
    BY <1>a, <2>1, <2>2, ResponsesAppend
  <2>4. Len(wire') = Len(wire) - 1 /\ Len(wire) \in Nat \ {0}
    BY <1>a, <2>1, TailFacts
  <2>5. TimedOut' = TimedOut /\ Counting' = Counting /\ Counting \in Nat
    BY <2>1 DEF TimedOut, TimeoutError, Counting
  <2>6. CASE pc # "stopped"
    BY <1>b, <2>3, <2>4, <2>5, <2>6, SkewKept
  <2> QED  BY <2>1, <2>5, <2>6, SkewOver DEF SkewInv
<1>10. CASE DeviceLoses
  <2>1. wire # << >> /\ wire' = Tail(wire) /\ UNCHANGED <<inbound, pending, pc, reply>>
    BY <1>10 DEF DeviceLoses
  <2>2. Len(wire') = Len(wire) - 1 /\ Len(wire) \in Nat \ {0}
    BY <1>a, <2>1, TailFacts
  <2>3. TimedOut' = TimedOut /\ Counting' = Counting /\ Counting \in Nat
    BY <2>1 DEF TimedOut, TimeoutError, Counting
  <2>4. CASE pc # "stopped"
    BY <1>b, <2>1, <2>2, <2>3, <2>4, SkewKept
  <2> QED  BY <2>1, <2>3, <2>4, SkewOver DEF SkewInv
<1>11. CASE DeviceNotifies
  <2>1. inbound' = Append(inbound, StatusChanged) /\ UNCHANGED <<wire, pending, pc, reply>>
    BY <1>11 DEF DeviceNotifies
  <2>2. Cardinality(Responses(inbound')) = Cardinality(Responses(inbound))
    BY <1>a, <1>b, <2>1, ReplyTypes, ResponsesAppend
  <2>3. TimedOut' = TimedOut /\ Counting' = Counting /\ Counting \in Nat
    BY <2>1 DEF TimedOut, TimeoutError, Counting
  <2>4. CASE pc # "stopped"
    BY <1>b, <2>1, <2>2, <2>3, <2>4, SkewKept
  <2> QED  BY <2>1, <2>3, <2>4, SkewOver DEF SkewInv
<1>12. CASE \/ Shutdown \/ SkipAccept \/ AcceptNothing \/ AcceptClosed \/ ReadNothing
            \/ DeadlinePasses \/ Unplug \/ Quiescent \/ UNCHANGED vars
  BY <1>2, <1>12
  DEF Shutdown, SkipAccept, AcceptNothing, AcceptClosed, ReadNothing, DeadlinePasses,
      Unplug, Quiescent, vars
<1> QED
  BY <1>3, <1>4, <1>5, <1>6, <1>7, <1>8, <1>9, <1>10, <1>11, <1>12 DEF Next, IoTask, Device

\* While the task reads, the responses it may still read, one for each command that the
\* device has not answered, outnumber the pending command by at most the calls that timed
\* out (io.rs): no cancelled call, lost answer, notification or write error adds to that.
THEOREM SkewBoundedCorrect == Safety => []SkewBounded
<1>1. Init => SkewInv
  <2> SUFFICES ASSUME Init  PROVE SkewInv
    OBVIOUS
  <2>1. TimedOut = {} /\ Responses(inbound) = {} /\ Len(wire) = 0
    BY EmptySeq DEF Init, TimedOut, Responses, Unanswered, Error, TimeoutError
  <2>2. IsFiniteSet({}) /\ Cardinality({}) = 0
    BY FS_EmptySet
  <2>3. Cardinality(TimedOut) = 0 /\ Cardinality(Responses(inbound)) = 0
    BY <2>1, <2>2
  <2>4. pending = None
    BY DEF Init
  <2> QED  BY <2>1, <2>2, <2>3, <2>4 DEF SkewInv, SkewBounded
<1>2. TypeOK /\ EachOnce /\ SkewInv /\ [Next]_vars => SkewInv'
  BY SkewStep
<1>3. SkewInv => SkewBounded
  BY DEF SkewInv
<1> QED  BY <1>1, <1>2, <1>3, TypeCorrect, EachOnceCorrect, PTL DEF Safety

-----------------------------------------------------------------------------
(* The IO task implements the serial service. *)

\* A task that has stopped has no pending command: it resolved it on its way out.
StoppedIdle == pc = "stopped" => pending = None

\* Both exits of the loop leave no command pending.
LEMMA StoppedIdleCorrect == Safety => []StoppedIdle
<1>1. Init => StoppedIdle
  BY DEF Init, StoppedIdle
<1>2. StoppedIdle /\ [Next]_vars => StoppedIdle'
  BY DEF StoppedIdle, Next, IoTask, Device, Call, Enqueue, Cancel, Shutdown, SkipAccept,
         AcceptCommand, AcceptNothing, AcceptClosed, ReadPacket, ReadNothing, ReadError,
         CheckDeadline, DeadlinePasses, DeviceAnswers, DeviceLoses, DeviceNotifies, Unplug,
         Quiescent, Free, callVars, taskVars, deviceVars, vars
<1> QED  BY <1>1, <1>2, PTL DEF Safety

\* A call that was not made has no reply.
NewUnanswered == \A c \in Calls : phase[c] = "new" => reply[c] = Unanswered

\* Only commands in the channel or pending, and calls still sending, are replied to.
LEMMA NewUnansweredCorrect == Safety => []NewUnanswered
<1>1. Init => NewUnanswered
  BY DEF Init, NewUnanswered
<1>2. TypeOK /\ EachOnce /\ NewUnanswered /\ [Next]_vars => NewUnanswered'
  <2> SUFFICES ASSUME TypeOK, EachOnce, NewUnanswered, [Next]_vars,
                      NEW c \in Calls, phase'[c] = "new"
               PROVE  reply'[c] = Unanswered
    BY DEF NewUnanswered
  <2> USE DEF callVars, taskVars, deviceVars
  <2>a. phase \in [Calls -> Phase] /\ reply \in [Calls -> Reply]
    BY DEF TypeOK
  <2>1. ASSUME NEW d \in Calls, Call(d) \/ Enqueue(d) \/ Cancel(d)
        PROVE  phase[c] = "new" /\ reply'[c] = reply[c]
    BY <2>1, <2>a DEF Call, Enqueue, Cancel, Live
  <2>2. ASSUME UNCHANGED phase
        PROVE  phase[c] = "new" /\ c # pending /\ ~Queued(c)
    BY <2>2 DEF EachOnce
  <2>3. CASE AcceptCommand
    <3>1. queue \in Seq(Calls) /\ queue # << >>
      BY <2>3 DEF AcceptCommand, TypeOK
    <3>2. c # Head(queue)
      BY <2>2, <2>3, <3>1, TailFacts DEF AcceptCommand, Queued
    <3> QED  BY <2>2, <2>3, <2>a, <3>2 DEF AcceptCommand, NewUnanswered
  <2>4. CASE ReadPacket \/ CheckDeadline
    BY <2>2, <2>4, <2>a DEF ReadPacket, CheckDeadline, AfterTimeout, NewUnanswered
  <2>5. CASE ReadError
    BY <2>2, <2>5 DEF ReadError, ReplyOnError, NewUnanswered
  <2>6. CASE \/ Shutdown \/ SkipAccept \/ AcceptNothing \/ AcceptClosed \/ ReadNothing
             \/ DeadlinePasses \/ Device \/ Quiescent \/ UNCHANGED vars
    BY <2>6
    DEF Shutdown, SkipAccept, AcceptNothing, AcceptClosed, ReadNothing, DeadlinePasses,
        Device, DeviceAnswers, DeviceLoses, DeviceNotifies, Unplug, Quiescent, vars,
        NewUnanswered
  <2> QED  BY <2>1, <2>3, <2>4, <2>5, <2>6 DEF Next, IoTask, NewUnanswered
<1> QED  BY <1>1, <1>2, TypeCorrect, EachOnceCorrect, PTL DEF Safety

\* Replies seen from outside: Unanswered is open, a response is answered, the rest failed.
LEMMA StatusFacts ==
    ASSUME NEW c \in Calls, reply \in [Calls -> Reply], phase \in [Calls -> Phase]
    PROVE  /\ phase[c] = "new" => CallStatus(c) = "idle"
           /\ phase[c] = "cancelled" => CallStatus(c) = "abandoned"
           /\ phase[c] \in {"sending", "waiting"} =>
                /\ reply[c] = Unanswered => CallStatus(c) = "open"
                /\ \A d : reply[c] = Answer(d) => CallStatus(c) = "answered"
                /\ \A e \in ErrorKind : reply[c] = Error(e) => CallStatus(c) = "failed"
           /\ CallStatus(c) \in Service!Status
  BY DEF CallStatus, Unanswered, Answer, Error, ErrorKind, Service!Status, Phase

\* Every step of HidIo is a step of the serial service or changes nothing it can see.
LEMMA ServiceStep ==
    ASSUME TypeOK, TypeOK', EachOnce, StoppedIdle, NewUnanswered, [Next]_vars
    PROVE  [Service!Next]_(Service!vars)
<1> USE DEF callVars, taskVars, deviceVars
<1>a. /\ phase \in [Calls -> Phase] /\ phase' \in [Calls -> Phase]
      /\ reply \in [Calls -> Reply] /\ reply' \in [Calls -> Reply]
      /\ queue \in Seq(Calls)
      /\ pending \in Calls \cup {None}
  BY DEF TypeOK
<1>b. /\ \A e \in ErrorKind : Error(e) # Unanswered
      /\ \A d : Answer(d) # Unanswered
      /\ {"closed", "hid", "disconnected", TimeoutError} \subseteq ErrorKind
  BY DEF Error, Unanswered, Answer, ErrorKind, TimeoutError
<1> DEFINE st == [c \in Calls |-> CallStatus(c)]
<1>c. \A c \in Calls : phase'[c] = phase[c] /\ reply'[c] = reply[c]
                          => CallStatus(c)' = CallStatus(c)
  BY DEF CallStatus
<1>d. \A c \in Calls :
        /\ phase[c] = "new" => CallStatus(c) = "idle"
        /\ phase[c] = "cancelled" => CallStatus(c) = "abandoned"
        /\ phase[c] \in {"sending", "waiting"} /\ reply[c] = Unanswered
             => CallStatus(c) = "open"
  BY <1>a, StatusFacts
<1>e. \A c \in Calls :
        /\ phase'[c] = "cancelled" => CallStatus(c)' = "abandoned"
        /\ phase'[c] \in {"sending", "waiting"} =>
             /\ reply'[c] = Unanswered => CallStatus(c)' = "open"
             /\ \A d : reply'[c] = Answer(d) => CallStatus(c)' = "answered"
             /\ \A e \in ErrorKind : reply'[c] = Error(e) => CallStatus(c)' = "failed"
  BY <1>a DEF CallStatus, Unanswered, Answer, Error, ErrorKind
<1>1. ASSUME UNCHANGED <<phase, reply, pending>>, (pc = "stopped") <=> (pc' = "stopped")
      PROVE  UNCHANGED Service!vars
  <2>1. st' = st
    BY <1>1, <1>c
  <2> QED  BY <1>1, <2>1 DEF Service!vars
<1>2. ASSUME NEW c \in Calls,
             \A d \in Calls \ {c} : phase'[d] = phase[d] /\ reply'[d] = reply[d]
      PROVE  st' = [st EXCEPT ![c] = CallStatus(c)']
  BY <1>2, <1>c
<1>3. ASSUME NEW c \in Calls, Call(c)
      PROVE  Service!Issue(c)
  <2>1. /\ CallStatus(c) = "idle"
        /\ CallStatus(c)' = "open"
        /\ UNCHANGED <<pending, pc>>
    BY <1>3, <1>a, <1>d, <1>e DEF Call, NewUnanswered
  <2>2. st' = [st EXCEPT ![c] = "open"]
    BY <1>2, <1>3, <1>a, <2>1 DEF Call
  <2> QED  BY <2>1, <2>2 DEF Service!Issue
<1>4. ASSUME NEW c \in Calls, Enqueue(c)
      PROVE  [Service!Refuse(c)]_(Service!vars)
  <2>1. CASE pc = "stopped"
    <3>1. /\ CallStatus(c) = "open"
          /\ CallStatus(c)' = "failed"
          /\ pending = None
          /\ UNCHANGED <<pending, pc>>
      BY <1>4, <1>a, <1>b, <1>d, <1>e, <2>1 DEF Enqueue, StoppedIdle
    <3>2. st' = [st EXCEPT ![c] = "failed"]
      BY <1>2, <1>4, <1>a, <2>1, <3>1 DEF Enqueue
    <3> QED  BY <3>1, <3>2 DEF Service!Refuse, Service!Resolve
  <2>2. CASE pc # "stopped"
    <3>1. /\ CallStatus(c) = "open"
          /\ CallStatus(c)' = "open"
          /\ UNCHANGED <<pending, pc>>
      BY <1>4, <1>a, <1>d, <1>e, <2>2 DEF Enqueue
    <3>2. st' = st
      BY <1>2, <1>4, <1>a, <2>2, <3>1 DEF Enqueue
    <3> QED  BY <3>1, <3>2 DEF Service!vars
  <2> QED  BY <2>1, <2>2
<1>5. ASSUME NEW c \in Calls, Cancel(c)
      PROVE  Service!Abandon(c)
  <2>1. /\ CallStatus(c) = "open"
        /\ CallStatus(c)' = "abandoned"
        /\ UNCHANGED <<pending, pc>>
    BY <1>5, <1>a, <1>d, <1>e DEF Cancel, Live
  <2>2. st' = [st EXCEPT ![c] = "abandoned"]
    BY <1>2, <1>5, <1>a, <2>1 DEF Cancel
  <2> QED  BY <2>1, <2>2 DEF Service!Abandon
<1>6. CASE AcceptCommand
  <2>1. PICK h \in Calls : h = Head(queue) /\ Queued(h)
    BY <1>6, <1>a, TailFacts DEF AcceptCommand, Queued
  <2>2. /\ phase[h] \in {"waiting", "cancelled"}
        /\ reply[h] = Unanswered
        /\ CallStatus(h) \in {"open", "abandoned"}
        /\ pending = None
        /\ pc = "accept" /\ pc' = "read"
        /\ UNCHANGED phase
    BY <1>6, <1>d, <2>1 DEF AcceptCommand, Free, EachOnce
  <2>3. CASE pending' = h /\ UNCHANGED reply
    <3>1. st' = st
      BY <1>c, <2>2, <2>3
    <3> QED  BY <2>2, <2>3, <3>1 DEF Service!Serve, Service!Next
  <2>4. CASE reply' = [reply EXCEPT ![h] = Error("hid")] /\ UNCHANGED pending
    <3>1. st' = [st EXCEPT ![h] = CallStatus(h)']
      BY <1>2, <1>a, <2>2, <2>4
    <3>2. CASE phase[h] = "waiting"
      <4>1. CallStatus(h) = "open" /\ CallStatus(h)' = "failed"
        BY <1>a, <1>b, <1>d, <1>e, <2>2, <2>4, <3>2
      <4> QED  BY <2>2, <2>4, <3>1, <4>1 DEF Service!Refuse, Service!Resolve, Service!Next
    <3>3. CASE phase[h] = "cancelled"
      <4>1. CallStatus(h)' = CallStatus(h)
        BY <1>d, <1>e, <2>2, <3>3
      <4>2. st' = st
        BY <3>1, <4>1
      <4> QED  BY <2>2, <2>4, <4>2 DEF Service!vars
    <3> QED  BY <2>2, <3>2, <3>3
  <2> QED  BY <1>6, <2>1, <2>3, <2>4 DEF AcceptCommand
<1>7. ASSUME pending # None, pending' = None, UNCHANGED phase, pc # "stopped", pc' # "stopped",
             NEW r, reply' = [reply EXCEPT ![pending] = r],
             (\E d : r = Answer(d)) \/ (\E e \in ErrorKind : r = Error(e))
      PROVE  Service!Next
  <2>1. PICK c \in Calls : c = pending
    BY <1>7, <1>a
  <2>2. phase[c] \in {"waiting", "cancelled"} /\ reply[c] = Unanswered /\ reply'[c] = r
    BY <1>7, <1>a, <2>1 DEF EachOnce
  <2>3. st' = [st EXCEPT ![c] = CallStatus(c)']
    BY <1>2, <1>7, <1>a, <2>1
  <2>4. CASE phase[c] = "waiting"
    <3>1. CallStatus(c) = "open" /\ CallStatus(c)' \in {"answered", "failed"}
      BY <1>7, <1>d, <1>e, <2>2, <2>4
    <3> QED  BY <1>7, <2>1, <2>3, <3>1 DEF Service!Finish, Service!Resolve, Service!Next
  <2>5. CASE phase[c] = "cancelled"
    <3>1. CallStatus(c) = "abandoned" /\ CallStatus(c)' = "abandoned"
      BY <1>7, <1>d, <1>e, <2>5
    <3>2. Service!Resolve(c, "failed")
      BY <2>3, <3>1 DEF Service!Resolve
    <3> QED  BY <1>7, <2>1, <3>2 DEF Service!Finish, Service!Next
  <2> QED  BY <2>2, <2>4, <2>5
<1>8. CASE ReadPacket
  <2>1. pc = "read" /\ pc' = "deadline" /\ UNCHANGED phase
    BY <1>8 DEF ReadPacket
  <2>2. CASE UNCHANGED <<reply, pending>>
    BY <1>1, <2>1, <2>2
  <2>3. CASE /\ pending # None
             /\ pending' = None
             /\ reply' = [reply EXCEPT ![pending] = Answer(Head(inbound).to)]
    BY <1>7, <2>1, <2>3
  <2> QED  BY <1>8, <2>2, <2>3 DEF ReadPacket
<1>9. CASE CheckDeadline
  <2>1. pc = "deadline" /\ pc' = "accept" /\ UNCHANGED phase
    BY <1>9 DEF CheckDeadline, AfterTimeout
  <2>2. CASE UNCHANGED <<reply, pending>>
    BY <1>1, <2>1, <2>2
  <2>3. CASE /\ pending # None
             /\ pending' = None
             /\ reply' = [reply EXCEPT ![pending] = Error(TimeoutError)]
    BY <1>7, <1>b, <2>1, <2>3
  <2> QED  BY <1>9, <2>2, <2>3 DEF CheckDeadline, AfterTimeout, Due
<1>10. CASE ReadError
  <2>1. /\ \A c \in Calls : reply'[c] = ReplyOnError(c)
        /\ pc = "read" /\ pc' = "stopped" /\ pending' = None
        /\ UNCHANGED phase
    BY <1>10 DEF ReadError, AfterError
  <2>2. ASSUME NEW c \in Calls
        PROVE  \/ CallStatus(c)' = CallStatus(c)
               \/ CallStatus(c) = "open" /\ CallStatus(c)' = "failed"
    <3>1. CASE c = pending \/ Queued(c)
      <4>1. phase[c] \in {"waiting", "cancelled"} /\ reply[c] = Unanswered
        BY <3>1 DEF EachOnce
      <4>2. reply'[c] \in {Error("disconnected"), Error("closed")}
        BY <2>1, <3>1 DEF ReplyOnError
      <4> QED  BY <1>b, <1>d, <1>e, <2>1, <4>1, <4>2
    <3>2. CASE ~(c = pending \/ Queued(c))
      BY <1>c, <2>1, <3>2 DEF ReplyOnError
    <3> QED  BY <3>1, <3>2
  <2>3. \A c \in Calls : c = pending => CallStatus(c)' # "open"
    BY <1>b, <1>e, <2>1 DEF ReplyOnError, EachOnce
  <2>4. \A c \in Calls : CallStatus(c)' \in Service!Status
    BY <1>a DEF CallStatus, Unanswered, Service!Status, Phase
  <2>5. /\ st' \in [Calls -> Service!Status]
        /\ \A c \in Calls : \/ st'[c] = st[c]
                            \/ st[c] = "open" /\ st'[c] = "failed"
        /\ pending # None => st'[pending] # "open"
    BY <1>a, <2>2, <2>3, <2>4
  <2> QED  BY <2>1, <2>5 DEF Service!Stop, Service!Next
<1>11. CASE AcceptClosed
  <2>1. st' = st
    BY <1>11, <1>c DEF AcceptClosed
  <2>2. st \in [Calls -> Service!Status]
    BY <1>a, StatusFacts
  <2> QED  BY <1>11, <2>1, <2>2 DEF AcceptClosed, Free, Service!Stop, Service!Next
<1>12. CASE \/ Shutdown \/ SkipAccept \/ AcceptNothing \/ ReadNothing
            \/ DeadlinePasses \/ Device \/ Quiescent \/ UNCHANGED vars
  BY <1>1, <1>12
  DEF Shutdown, SkipAccept, AcceptNothing, ReadNothing, DeadlinePasses,
      Device, DeviceAnswers, DeviceLoses, DeviceNotifies, Unplug, Quiescent, vars
<1> QED
  BY <1>3, <1>4, <1>5, <1>6, <1>8, <1>9, <1>10, <1>11, <1>12
  DEF Next, IoTask, Service!Next

\* The IO task, its channel and its callers implement the serial service: the safety
\* part of ImplementsService.
THEOREM RefinesService == Safety => Service!Safety
<1>1. Init => Service!Init
  BY StatusFacts DEF Init, Service!Init, CallStatus
<1>2. TypeOK /\ TypeOK' /\ EachOnce /\ StoppedIdle /\ NewUnanswered /\ [Next]_vars
        => [Service!Next]_(Service!vars)
  BY ServiceStep
<1> QED
  BY <1>1, <1>2, TypeCorrect, EachOnceCorrect, StoppedIdleCorrect, NewUnansweredCorrect, PTL
  DEF Safety, Service!Safety
=============================================================================
