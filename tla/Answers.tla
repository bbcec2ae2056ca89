------------------------------ MODULE Answers ------------------------------
(***************************************************************************)
(* What mouse.rs reads out of the answers to commands that are not about   *)
(* memory, and out of an answer to a memory read.                          *)
(*                                                                         *)
(* An answer is a report: the report ID, the command it repeats, a status, *)
(* the address and the length, and from its seventh byte on the data.      *)
(***************************************************************************)
EXTENDS MouseTypes

\* Three bytes, most significant first, least significant first.
Reverse3(bytes) == <<bytes[3], bytes[2], bytes[1]>>

\* ensure_response_len, before any byte is looked at.
Short(response, need)       == Len(response) < need
IsAnswerTo(cmd, response)   == response[2] = cmd
StatusOk(response)          == response[3] = 0

\* The address and the length that the answer repeats are compared but not insisted on.
MemoryIn(response, length) ==
    IF Short(response, 6 + length) \/ ~IsAnswerTo(CMD_READ_FLASH, response) \/ ~StatusOk(response)
    THEN Invalid
    ELSE SubSeq(response, 7, 6 + length)

decode_battery_response(response) ==
    IF Short(response, 10) \/ ~IsAnswerTo(CMD_BATTERY, response) \/ ~StatusOk(response)
    THEN Invalid
    ELSE LET mv == 256 * response[9] + response[10] IN
         [voltage_mv |-> mv, percentage |-> voltage_to_percentage_table(mv),
          charging |-> response[8] = 1, device_percentage |-> response[7]]

\* Whichever command it answers.
LongDistanceIn(response) ==
    IF Short(response, 7) \/ response[3] = 1 THEN Invalid ELSE response[7] = 1
OnlineIn(response)  == IF Short(response, 7) THEN Invalid ELSE response[7] = 1
AddressIn(response) == IF Short(response, 10) THEN Invalid ELSE Reverse3(SubSeq(response, 8, 10))

\* Whatever its status.
ProfileIn(response) ==
    IF Short(response, 7) \/ ~IsAnswerTo(CMD_GET_CURRENT_CONFIG, response) THEN Invalid
    ELSE response[7]

\* An unknown status is taken for Idle.
PairStateIn(response) ==
    IF Short(response, 8) \/ ~IsAnswerTo(CMD_GET_PAIR_STATE, response) THEN Invalid
    ELSE <<IF response[7] \in PairStatus THEN response[7] ELSE 0, response[8]>>

\* An unknown type is taken for WirelessStandard.
HandshakeIn(response) ==
    IF Short(response, 13) \/ ~IsAnswerTo(CMD_DEVICE_INFO, response) \/ ~StatusOk(response)
    THEN Invalid
    ELSE [cid |-> response[11], mid |-> response[12],
          connection_type |-> IF response[13] \in ConnectionType THEN response[13] ELSE 0]

\* Reported as "Unknown" where it is no version.
FirmwareIn(cmd, response) ==
    IF Short(response, 8) \/ response[1] # REPORT_ID \/ ~IsAnswerTo(cmd, response) THEN Invalid
    ELSE <<response[7], response[8]>>

-----------------------------------------------------------------------------
(* What the device sends, and what the program makes of it. *)

Report(cmd, address, data) ==
    <<REPORT_ID, cmd, 0, address \div 256, address % 256, Len(data)>> \o Filled(data, 11)

Sent(ask, value) ==
    CASE ask = "memory"        -> Report(CMD_READ_FLASH, OFFSET_MACROS, value)
      [] ask = "battery"       -> Report(CMD_BATTERY, 0,
                                         <<value.device_percentage, Flag(value.charging),
                                           value.voltage_mv \div 256, value.voltage_mv % 256>>)
      [] ask = "long distance" -> Report(CMD_GET_LONG_RANGE, 0, <<Flag(value)>>)
      [] ask = "online"        -> Report(CMD_STATUS, 0, <<Flag(value)>>)
      [] ask = "address"       -> Report(CMD_STATUS, 0, <<1>> \o Reverse3(value))
      [] ask = "profile"       -> Report(CMD_GET_CURRENT_CONFIG, 0, <<value>>)
      [] ask = "pairing"       -> Report(CMD_GET_PAIR_STATE, 0, value)
      [] ask = "handshake"     -> Report(CMD_DEVICE_INFO, 0,
                                         <<0, 0, 0, 0, value.cid, value.mid,
                                           value.connection_type>>)
      [] ask = "mouse"         -> Report(CMD_READ_VERSION, 0, value)
      [] ask = "receiver"      -> Report(CMD_DONGLE_VERSION, 0, value)

\* A read asks for as many bytes as it wants.
Received(ask, value, response) ==
    CASE ask = "memory"        -> MemoryIn(response, Len(value))
      [] ask = "battery"       -> decode_battery_response(response)
      [] ask = "long distance" -> LongDistanceIn(response)
      [] ask = "online"        -> OnlineIn(response)
      [] ask = "address"       -> AddressIn(response)
      [] ask = "profile"       -> ProfileIn(response)
      [] ask = "pairing"       -> PairStateIn(response)
      [] ask = "handshake"     -> HandshakeIn(response)
      [] ask = "mouse"         -> FirmwareIn(CMD_READ_VERSION, response)
      [] ask = "receiver"      -> FirmwareIn(CMD_DONGLE_VERSION, response)
=============================================================================
