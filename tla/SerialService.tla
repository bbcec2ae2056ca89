--------------------------- MODULE SerialService ---------------------------
(***************************************************************************)
(* What a Mouse handle promises its callers, with no queue, no clock and   *)
(* no packets: commands are served one at a time, each one is resolved     *)
(* exactly once, and none is left unresolved, whether or not the device    *)
(* survives.  HidIo implements this specification.                         *)
(***************************************************************************)
EXTENDS Naturals

CONSTANTS Calls,   \* the futures of Mouse::send_command
          None     \* the absence of a call

VARIABLES status,  \* where each call stands
          serving, \* the command the device is working on
          up       \* whether the service still accepts commands

vars == <<status, serving, up>>

Status == {"idle", "open", "answered", "failed", "abandoned"}

TypeOK ==
    /\ status \in [Calls -> Status]
    /\ serving \in Calls \cup {None}
    /\ up \in BOOLEAN

Init ==
    /\ status = [c \in Calls |-> "idle"]
    /\ serving = None
    /\ up = TRUE

\* A call that nobody waits for any more keeps its status.
Resolve(c, outcome) ==
    status' = [status EXCEPT ![c] = IF @ = "open" THEN outcome ELSE @]

Issue(c) ==
    /\ status[c] = "idle"
    /\ status' = [status EXCEPT ![c] = "open"]
    /\ UNCHANGED <<serving, up>>

\* The caller goes away; the device may serve the command all the same.
Abandon(c) ==
    /\ status[c] = "open"
    /\ status' = [status EXCEPT ![c] = "abandoned"]
    /\ UNCHANGED <<serving, up>>

Serve(c) ==
    /\ up
    /\ serving = None
    /\ status[c] \in {"open", "abandoned"}
    /\ serving' = c
    /\ UNCHANGED <<status, up>>

Finish(c) ==
    /\ serving = c
    /\ serving' = None
    /\ \E outcome \in {"answered", "failed"} : Resolve(c, outcome)
    /\ UNCHANGED up

\* A command the device never took.
Refuse(c) ==
    /\ serving = None
    /\ status[c] = "open"
    /\ Resolve(c, "failed")
    /\ UNCHANGED <<serving, up>>

\* The service ends; it may fail any number of open calls on its way out.
Stop ==
    /\ up
    /\ up' = FALSE
    /\ serving' = None
    /\ status' \in [Calls -> Status]
    /\ \A c \in Calls :
         \/ status'[c] = status[c]
         \/ status[c] = "open" /\ status'[c] = "failed"
    /\ serving # None => status'[serving] # "open"

Next ==
    \/ \E c \in Calls : Issue(c) \/ Abandon(c) \/ Serve(c) \/ Finish(c) \/ Refuse(c)
    \/ Stop

Safety == Init /\ [][Next]_vars

\* Every call that stays open is resolved, not merely allowed to be.
Spec == Safety /\ \A c \in Calls : status[c] = "open" ~> status[c] # "open"
=============================================================================
