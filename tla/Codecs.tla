------------------------------ MODULE Codecs ------------------------------
(***************************************************************************)
(* Values on their way over a wire.  One side encodes a value, and the     *)
(* other decodes it again: settings and packets between the program and    *)
(* the mouse, with at most one byte damaged on the way; the mouse's        *)
(* answers, which may arrive cut short; and configurations between the     *)
(* program and its clients or its profiles, where the wire is a message.   *)
(***************************************************************************)
EXTENDS Conversions, Answers

CONSTANTS Nothing,      \* not decoded yet
          Subjects,     \* the values to send, each with its kind
          KeyPresses,   \* the key presses a shortcut is built from
          Damages       \* what may be added to a damaged byte

ASSUME DamagesAssumption == Damages \subseteq 1..255

\* What the builders of packets are called with.
Buildable ==
    {p \in [cmd : {CMD_WRITE_FLASH}, address : Word, length : 0..10, data : Seq(Byte)] :
        /\ p.length = MinOf(Len(p.data), 10)
        /\ Len(p.data) = 2 => p.data[2] = calculate_data_checksum(p.data[1])}
      \cup [cmd : {CMD_READ_FLASH}, address : Word, length : 0..10, data : {<< >>}]
      \cup [cmd : {CMD_SET_LONG_RANGE}, address : {0}, length : {10}, data : {<<0>>, <<1>>}]
      \cup [cmd : {CMD_CONFIG_FLAGS}, address : {0}, length : {1}, data : {<<0>>, <<1>>}]
      \cup [cmd : {CMD_SET_CURRENT_CONFIG}, address : {0}, length : {1}, data : [1..1 -> Byte]]
      \cup [cmd : {CMD_DEVICE_INFO}, address : {0}, length : {8}, data : [1..4 -> Byte]]
      \cup [cmd : {CMD_DONGLE_ENTER_PAIR}, address : {0}, length : {2}, data : {<<0, 0>>}]
      \cup [cmd : {CMD_STATUS, CMD_BATTERY, CMD_GET_PAIR_STATE, CMD_CLEAR_SETTING,
                   CMD_GET_CURRENT_CONFIG, CMD_READ_VERSION, CMD_GET_LONG_RANGE,
                   CMD_DONGLE_VERSION}, address : {0}, length : {0}, data : {<< >>}]

\* What the mouse answers.
Answerable ==
    {a \in [ask : {"memory"}, value : Seq(Byte)] : Len(a.value) <= 10}
      \cup {a \in [ask : {"battery"},
                   value : [voltage_mv : Word, percentage : Nat, charging : BOOLEAN,
                            device_percentage : Byte]] :
              a.value.percentage = voltage_to_percentage_table(a.value.voltage_mv)}
      \cup [ask : {"long distance", "online"}, value : BOOLEAN]
      \cup [ask : {"address"}, value : Color]
      \cup [ask : {"profile"}, value : Byte]
      \cup [ask : {"pairing"}, value : PairStatus \X Byte]
      \cup [ask : {"handshake"},
            value : [cid : Byte, mid : Byte, connection_type : ConnectionType]]
      \cup [ask : {"mouse", "receiver"}, value : Byte \X Byte]

\* The values of a kind; the name of a macro is any text without a zero byte.
Sendable(kind) ==
    CASE kind = "dpi"                            -> DPI_MIN..DPI_MAX
      [] kind = "color"                          -> Color
      [] kind \in {"rate", "next rate"}          -> PollingRate
      [] kind \in {"lift-off", "next lift-off"}  -> LiftOffDistance
      [] kind = "sleep time"                     -> SleepTime
      [] kind \in {"brightness", "cycles"}       -> Byte
      [] kind = "key"                            -> KeyFunction
      [] kind = "shortcut event"                 -> ShortcutEvent
      [] kind = "shortcut"                       -> {s \in Seq(ShortcutEvent) : Len(s) <= 20}
      [] kind = "macro event"                    -> MacroEvent
      [] kind = "macro"                          -> [name   : {n \in Seq(1..255) : IsText(n)},
                                                     events : Seq(MacroEvent)]
      [] kind = "packet"                         -> Buildable
      [] kind = "answer"                         -> Answerable
      [] kind = "status"                         -> SUBSET DOMAIN FlagBits
      [] kind = "voltage"                        -> Word
      [] kind = "config"                         -> MouseConfig
      [] kind = "profile"                        ->
             [polling_rate : 1..7, lift_off_distance : 1..3, sleep_timeout_seconds : Nat,
              switches : [Switches -> BOOLEAN], dpi_stages : Seq(DpiStage),
              current_dpi_index : Byte]

Kinds ==
    {"dpi", "color", "rate", "lift-off", "sleep time", "next rate", "next lift-off",
     "brightness", "cycles", "key", "shortcut event", "shortcut", "macro event", "macro",
     "packet", "answer", "status", "voltage", "config", "profile"}

ASSUME SubjectsAssumption ==
    /\ \A s \in Subjects : s.kind \in Kinds /\ s \in [kind : {s.kind}, v : Sendable(s.kind)]
    /\ KeyPresses \subseteq [type : ShortcutKeyType, code : Word]

VARIABLES subject,  \* the value, [kind, v]
          wire,     \* its bytes, once encoded
          damaged,  \* whether a byte was changed on the way
          back      \* what was decoded

vars == <<subject, wire, damaged, back>>

\* Kinds whose bytes carry a checksum that the reader of the bytes compares.
Checked == {"key", "packet"}

\* A notification with the given flags, as the device sends it.
StatusReport(flags) ==
    LET bit(what) == IF what \in flags THEN FlagBits[what] ELSE 0 IN
    <<REPORT_ID, CMD_STATUS_CHANGED, 0, 0, 0, 0,
      bit("dpi") + bit("report_rate") + bit("profile") + bit("dpi_settings") + bit("light")
        + bit("battery")>>

\* The builder that mouse.rs uses for a packet.
Built(p) ==
    CASE p.cmd = CMD_WRITE_FLASH /\ Len(p.data) = 2 -> build_memory_write(p.address, p.data[1])
      [] p.cmd = CMD_WRITE_FLASH /\ Len(p.data) # 2 -> build_flash_write(p.address, p.data)
      [] p.cmd = CMD_READ_FLASH         -> build_memory_read(p.address, p.length)
      [] p.cmd = CMD_SET_LONG_RANGE     -> build_set_long_range_cmd(p.data[1] = 1)
      [] p.cmd = CMD_SET_CURRENT_CONFIG -> build_set_current_config_cmd(p.data[1])
      [] p.cmd = CMD_CONFIG_FLAGS       -> build_pc_driver_status_cmd(p.data[1] = 1)
      [] p.cmd = CMD_DEVICE_INFO        -> build_handshake_cmd(p.data)
      [] p.cmd = CMD_DONGLE_ENTER_PAIR  -> build_dongle_enter_pair_cmd
      [] OTHER                          -> build_simple_command(p.cmd)

\* The device takes a packet only with a right checksum.
ReadPacket(packet) ==
    IF verify_response_checksum(packet)
    THEN [cmd |-> packet[1], address |-> PacketAddress(packet), length |-> packet[5],
          data |-> PacketData(packet)]
    ELSE Invalid

Encoded(s) ==
    CASE s.kind = "dpi"            -> encode_dpi(s.v)
      [] s.kind = "color"          -> encode_dpi_color(s.v)
      [] s.kind = "rate"           -> <<PollingRateCode[s.v], encode_report_rate(s.v)>>
      [] s.kind = "lift-off"       -> <<LiftOffCode[s.v]>>
      [] s.kind = "sleep time"     -> <<SleepTimeCode[s.v]>>
      [] s.kind = "next rate"      -> <<NextRate(s.v)>>
      [] s.kind = "next lift-off"  -> <<NextLiftOff[s.v]>>
      [] s.kind = "brightness"     -> <<encode_brightness(s.v)>>
      [] s.kind = "cycles"         -> <<CycleByte(s.v)>>
      [] s.kind = "key"            -> EncodeKey(s.v)
      [] s.kind = "shortcut event" -> EncodeShortcutEvent(s.v)
      [] s.kind = "shortcut"       -> EncodeShortcut(s.v)
      [] s.kind = "macro event"    -> EncodeMacroEvent(s.v)
      [] s.kind = "macro"          -> EncodeMacro(s.v)
      [] s.kind = "packet"         -> Built(s.v)
      [] s.kind = "answer"         -> Sent(s.v.ask, s.v.value)
      [] s.kind = "status"         -> StatusReport(s.v)
      [] s.kind = "voltage"        -> <<s.v \div 256, s.v % 256>>
      [] s.kind = "config"         -> <<ConfigToProto(s.v)>>
      [] s.kind = "profile"        -> <<proto_to_profile_config(s.v)>>

Decoded(s, bytes) ==
    CASE s.kind = "dpi"            -> decode_dpi(bytes)
      [] s.kind = "color"          -> SubSeq(bytes, 1, 3)
      [] s.kind = "rate"           -> <<decode_report_rate(bytes[1]),
                                        FromCode(PollingRateCode, bytes[2])>>
      [] s.kind = "lift-off"       -> FromCode(LiftOffCode, bytes[1])
      [] s.kind = "sleep time"     -> FromCode(SleepTimeCode, bytes[1])
      [] s.kind = "next rate"      -> PrevRate(bytes[1])
      [] s.kind = "next lift-off"  -> PrevLiftOff[bytes[1]]
      [] s.kind = "brightness"     -> decode_brightness(bytes[1])
      [] s.kind = "cycles"         -> CycleByte(bytes[1])
      [] s.kind = "key"            -> DecodeKey(bytes)
      [] s.kind = "shortcut event" -> DecodeShortcutEvent(bytes)
      [] s.kind = "shortcut"       -> DecodeShortcut(bytes)
      [] s.kind = "macro event"    -> DecodeMacroEvent(bytes)
      [] s.kind = "macro"          -> DecodeMacro(bytes)
      [] s.kind = "packet"         -> ReadPacket(bytes)
      [] s.kind = "answer"         -> Received(s.v.ask, s.v.value, bytes)
      [] s.kind = "status"         -> IF is_status_changed_notification(bytes)
                                      THEN Changed(parse_status_changed_notification(bytes))
                                      ELSE Invalid
      [] s.kind = "voltage"        -> voltage_to_percentage_table(256 * bytes[1] + bytes[2])
      [] s.kind = "config"         -> ConfigFromProto(bytes[1])
      [] s.kind = "profile"        -> <<profile_to_proto(bytes[1]),
                                        profile_config_to_mouse_config(bytes[1])>>

Init ==
    /\ subject \in Subjects
    /\ wire = << >>
    /\ damaged = FALSE
    /\ back = Nothing

\* add_key_press on a shortcut that is still being put together.
AddPress(press) ==
    /\ subject.kind = "shortcut"
    /\ wire = << >>
    /\ LET events == AddKeyPress(subject.v, press.type, press.code) IN
         /\ events # subject.v
         /\ subject' = [subject EXCEPT !.v = events]
    /\ UNCHANGED <<wire, damaged, back>>

Encode ==
    /\ wire = << >>
    /\ wire' = Encoded(subject)
    /\ UNCHANGED <<subject, damaged, back>>

Damage(i, d) ==
    /\ subject.kind \in Checked
    /\ i \in DOMAIN wire
    /\ ~damaged
    /\ back = Nothing
    /\ damaged' = TRUE
    /\ wire' = [wire EXCEPT ![i] = (@ + d) % 256]
    /\ UNCHANGED <<subject, back>>

\* A report with less than it should have.
Cut(n) ==
    /\ subject.kind = "answer"
    /\ n < Len(wire)
    /\ ~damaged
    /\ back = Nothing
    /\ damaged' = TRUE
    /\ wire' = SubSeq(wire, 1, n)
    /\ UNCHANGED <<subject, back>>

Decode ==
    /\ wire # << >>
    /\ back = Nothing
    /\ back' = Decoded(subject, wire)
    /\ UNCHANGED <<subject, wire, damaged>>

Next ==
    \/ \E press \in KeyPresses : AddPress(press)
    \/ Encode
    \/ \E i \in 1..16, d \in Damages : Damage(i, d)
    \/ \E n \in 1..16 : Cut(n)
    \/ Decode

Spec == Init /\ [][Next]_vars

-----------------------------------------------------------------------------
(* Properties. *)

\* The whole characters in the first 30 bytes of a name, and U+FFFD for one the limit cuts.
CutName(name) ==
    LET limit == MinOf(Len(name), MAX_NAME_LENGTH)
        ends  == {n \in 0..limit : n = 0 \/ EndsChar(name, n)}
        whole == CHOOSE n \in ends : \A other \in ends : other <= n
    IN SubSeq(name, 1, whole) \o (IF whole < limit THEN Replacement ELSE << >>)

\* What each codec promises to bring back: the value, or the nearest one it can carry.
Carried(s) ==
    CASE s.kind = "dpi"        -> s.v - (s.v % DPI_STEP)
      [] s.kind = "rate"       -> <<s.v, s.v>>
      [] s.kind = "brightness" -> Clamp(s.v, 1, 10)
      [] s.kind = "cycles"     -> IF s.v \in {0, 251, 252} THEN Clamp(s.v, 1, 250) ELSE s.v
      [] s.kind = "packet"     -> [s.v EXCEPT !.data = SubSeq(Padded(@), 1, s.v.length)]
      [] s.kind = "answer"     -> s.v.value
      [] s.kind = "macro"      ->
             [name   |-> CutName(s.v.name),
              events |-> SubSeq(s.v.events, 1, MinOf(Len(s.v.events), 70))]
      [] s.kind = "config"     -> WithDefaults(
             [name \in {"polling_rate", "lift_off_distance", "sleep_timeout_seconds",
                        "dpi_stages", "current_dpi_index"} |-> s.v[name]],
             [name \in Switches |-> s.v[name]])
      [] s.kind = "profile"    -> <<[s.v EXCEPT !.sleep_timeout_seconds = AsU16(@)],
                                    ConfigFromProto(s.v)>>
      [] OTHER                 -> s.v

\* Bytes that arrive as they were sent decode to the value they were made from, for DPI
\* values rounded down to a step of 50, brightness levels, polling rates, key functions,
\* macros cut to their limits, packets, answers, and shortcuts of up to ten events; a
\* configuration that was stored as a profile is what it would have been without.  Of a
\* macro's name the characters that fit in 30 bytes come back: the cut is made at a byte
\* (Macro::encode), and a character that it cuts reads as U+FFFD (Macro::decode).
ReadsBackWhatWasSent ==
    back # Nothing /\ ~damaged /\ subject.kind # "voltage"
        /\ ~(subject.kind = "shortcut" /\ Len(subject.v) > MAX_SHORTCUT_EVENTS)
    => back = Carried(subject)

\* One damaged byte in a key function or in a packet never passes for a valid one
\* (KeyFunction::decode, verify_response_checksum), and of an answer that is cut short
\* nothing is read that it does not contain.
DamageDetected ==
    damaged /\ back # Nothing =>
        back = Invalid \/ (subject.kind = "answer" /\ back = subject.v.value)

\* The percentage shown never rises while the voltage falls, and stays between the rows
\* of the table around the voltage: rounding and interpolation do not overshoot.
PercentFollowsVoltage ==
    subject.kind = "voltage" /\ back # Nothing =>
        /\ voltage_to_percentage_table(subject.v - 1) <= back
        /\ \A i \in 1..TableEnd :
             /\ Volt(i) <= subject.v => Percent(i) <= back
             /\ Volt(i) >= subject.v => back <= Percent(i)
=============================================================================
