----------------------------- MODULE MouseRead -----------------------------
(***************************************************************************)
(* What Mouse::read_memory makes of the packet that answered its command   *)
(* (mouse.rs): a value or an error.  The exchange itself is HidIo's.       *)
(*                                                                         *)
(* The device answers every read with the byte it keeps at the address, so *)
(* an address stands for the byte.                                         *)
(***************************************************************************)
EXTENDS HidIo

CONSTANTS Command,  \* the command each call sends: "read" or another
          Address   \* the address it names

Ok(value) == [kind |-> "ok", value |-> value]
Err(kind) == [kind |-> kind, value |-> None]

\* The command byte of the response must echo the request's.
Echoes(c) == Command[reply[c].to] = Command[c]

\* read_memory: an echoed address that differs is only logged.
ReadOutcome(c) ==
    IF reply[c].kind # "ok" THEN Err(reply[c].kind)
    ELSE IF ~Echoes(c) THEN Err("unexpected")
    ELSE Ok(Address[reply[c].to])

Finished(c) == phase[c] = "waiting" /\ reply[c] # Unanswered

-----------------------------------------------------------------------------
(* Properties. *)

\* "we verify that bytes 0-4 of the response match the request before accepting data"
\* (read_memory, mouse.rs:297): what a successful read returns was kept at the address
\* it asked for.
ReadsItsAddress ==
    \A c \in Calls :
        Command[c] = "read" /\ Finished(c) /\ ReadOutcome(c).kind = "ok"
            => ReadOutcome(c).value = Address[c]
=============================================================================
