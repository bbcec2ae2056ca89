--------------------------- MODULE MouseSettings ---------------------------
(***************************************************************************)
(* Reading and changing the settings of a mouse: the getters and setters   *)
(* of mouse.rs and the RPCs of server.rs that call the setters.            *)
(*                                                                         *)
(* A call is a sequence of packets.  The device may take one, refuse it,   *)
(* or not be heard of again, and a call may be given up at any packet.     *)
(* Calls do not overlap: the daemon holds the mouse's mutex during each.   *)
(* What is on its way when a call ends is stored before the next call's    *)
(* packets, or never, because commands reach the device in order.          *)
(***************************************************************************)
EXTENDS Conversions

CONSTANTS
    Factory,     \* the device's memory after a reset: a function from addresses to bytes
    Numbers,     \* numbers that requests carry, 32 bits wide
    Protos,      \* configurations in requests
    Configs,     \* configurations of the library
    Colors, Keys, Lights, Effects, Shortcuts, Macros,
    Stages,      \* the DPI stages and keys that are looked at
    Slots,       \* the slots of shortcuts and macros that are looked at
    MaxCalls,    \* bound: calls
    MaxFaults    \* bound: packets refused or lost, calls given up

VARIABLES
    device,  \* its memory, and the two settings that are not in its memory
    start,   \* the device when the last call began
    steps,   \* the packets the running call has still to send
    asked,   \* the settings the last call asks for
    result,  \* "idle", "running", "ok" or "failed"
    unseen,  \* whether the last call met a refusal it did not look at
    calls, faults

vars == <<device, start, steps, asked, result, unseen, calls, faults>>

-----------------------------------------------------------------------------
(* The memory of the device; what was never written reads as zero. *)

At(mem, address)           == IF address \in DOMAIN mem THEN mem[address] ELSE 0
read_memory(mem, offset, n) == [i \in 1..n |-> At(mem, offset + i - 1)]

\* mem, with the bytes of data from an address on.
Overlay(mem, address, data) ==
    LET covered == address..(address + Len(data) - 1)
    IN [a \in DOMAIN mem \cup covered |->
           IF a \in covered THEN data[a - address + 1] ELSE mem[a]]

\* get_config can make sense of it: the rate and the distance are known codes, and there are
\* no more than eight stages.
ReadableIn(mem) ==
    /\ At(mem, OFFSET_REPORT_RATE) \in {PollingRateCode[hz] : hz \in PollingRate}
    /\ At(mem, OFFSET_LIFT_OFF_DISTANCE) \in {LiftOffCode[d] : d \in LiftOffDistance}
    /\ At(mem, OFFSET_MAX_DPI) <= 8
    /\ At(mem, OFFSET_CURRENT_DPI) \in Nat

ASSUME RequestsAssumption ==
    /\ Numbers \subseteq Nat
    /\ Colors \subseteq Nat \X Nat \X Nat
    /\ Keys \subseteq KeyFunction
    /\ Configs \subseteq MouseConfig
    /\ Stages \subseteq 0..7
    /\ Slots \subseteq 0..7
    /\ \A proto \in Protos :
         /\ proto.switches \in [Switches -> BOOLEAN]
         /\ proto.dpi_stages \in Seq([value : Nat, color : Nat \X Nat \X Nat])
         /\ {proto.current_dpi_index, proto.sleep_timeout_seconds} \subseteq Nat

\* What a light, an effect, a shortcut and a macro hold has the types of their fields; a
\* name is a string.
ASSUME ValuesAssumption ==
    /\ Lights \subseteq [mode : LightMode, color : Color, speed : Byte, brightness : Byte,
                         enabled : BOOLEAN]
    /\ Effects \subseteq [mode : DpiEffectMode, brightness : Byte, speed : Byte,
                          enabled : BOOLEAN]
    /\ Shortcuts \subseteq Seq(ShortcutEvent)
    /\ Macros \subseteq [name : {n \in Seq(Byte) : IsText(n)}, events : Seq(MacroEvent)]

OrElse(value, default) == IF value = Invalid THEN default ELSE value

-----------------------------------------------------------------------------
(* Getters. *)

get_bool(mem, offset)       == At(mem, offset) = 1
get_polling_rate(mem)       == FromCode(PollingRateCode, At(mem, OFFSET_REPORT_RATE))
get_lift_off_distance(mem)  == FromCode(LiftOffCode, At(mem, OFFSET_LIFT_OFF_DISTANCE))
get_sleep_timeout(mem)      == 10 * At(mem, OFFSET_SLEEP_TIMEOUT)
get_performance_time(mem)   == OrElse(FromCode(SleepTimeCode, At(mem, OFFSET_PERFORMANCE_TIME)), 10)
get_debounce_time(mem)      == At(mem, OFFSET_DEBOUNCE_TIME)
get_moving_off_light_time(mem) == At(mem, OFFSET_MOVING_OFF_LIGHT)
get_dpi_count(mem)          == At(mem, OFFSET_MAX_DPI)
get_current_dpi_index(mem)  == At(mem, OFFSET_CURRENT_DPI)

\* An unknown mode is taken for LowPower.
get_sensor_mode(mem) ==
    IF At(mem, OFFSET_SENSOR_MODE) \in SensorMode THEN At(mem, OFFSET_SENSOR_MODE) ELSE 0

get_dpi_value(mem, stage) == decode_dpi(read_memory(mem, OFFSET_DPI_VALUES + 4 * stage, 4))
get_dpi_color(mem, stage) == read_memory(mem, OFFSET_DPI_COLORS + 4 * stage, 3)

\* The ninth stage does not exist.
get_dpi_stages(mem) ==
    IF get_dpi_count(mem) > 8 THEN Invalid
    ELSE [k \in 1..get_dpi_count(mem) |->
            [value |-> get_dpi_value(mem, k - 1), color |-> get_dpi_color(mem, k - 1)]]

\* An unknown mode is taken for off.
get_light_settings(mem) ==
    LET data == read_memory(mem, OFFSET_LIGHT_SETTINGS, 7) IN
    [mode       |-> IF data[1] \in LightMode THEN data[1] ELSE 0,
     color      |-> SubSeq(data, 2, 4),
     speed      |-> data[5],
     brightness |-> data[6],
     enabled    |-> get_bool(mem, OFFSET_LIGHT_STATE)]

get_dpi_effect_settings(mem) ==
    LET mode == At(mem, OFFSET_DPI_EFFECT_MODE) IN
    [mode       |-> IF mode \in DpiEffectMode THEN mode ELSE 0,
     brightness |-> decode_brightness(At(mem, OFFSET_DPI_EFFECT_BRIGHTNESS)),
     speed      |-> Clamp(At(mem, OFFSET_DPI_EFFECT_SPEED), 1, 10),
     enabled    |-> get_bool(mem, OFFSET_DPI_EFFECT_STATE)]

get_key_function(mem, key) ==
    OrElse(DecodeKey(read_memory(mem, OFFSET_KEY_FUNCTIONS + 4 * key, 4)), DisabledKey)

ShortcutAddress(slot) == OFFSET_SHORTCUT_KEYS + SHORTCUT_KEY_SLOT_SIZE * slot
MacroAddress(slot)    == OFFSET_MACROS + MACRO_SLOT_SIZE * slot

get_shortcut_key(mem, slot) ==
    OrElse(DecodeShortcut(read_memory(mem, ShortcutAddress(slot), SHORTCUT_KEY_SLOT_SIZE)), << >>)
get_macro(mem, slot) == DecodeMacro(read_memory(mem, MacroAddress(slot), MACRO_SLOT_SIZE))

\* One getter after the other; the first that fails fails it.
get_config(dev) ==
    LET mem == dev.memory IN
    IF Invalid \in {get_polling_rate(mem), get_lift_off_distance(mem)}
         \/ get_dpi_stages(mem) = Invalid
    THEN Invalid
    ELSE [polling_rate          |-> get_polling_rate(mem),
          lift_off_distance     |-> get_lift_off_distance(mem),
          sleep_timeout_seconds |-> get_sleep_timeout(mem),
          angle_snapping        |-> get_bool(mem, OFFSET_ANGLE_SNAPPING),
          ripple_control        |-> get_bool(mem, OFFSET_RIPPLE_CONTROL),
          high_speed_mode       |-> get_bool(mem, OFFSET_HIGH_SPEED_MODE),
          long_distance_mode    |-> dev.long_distance,
          debounce_time         |-> get_debounce_time(mem),
          motion_sync           |-> get_bool(mem, OFFSET_MOTION_SYNC),
          moving_off_light_time |-> get_moving_off_light_time(mem),
          performance_time      |-> get_performance_time(mem),
          sensor_mode           |-> get_sensor_mode(mem),
          sensor_20k            |-> get_bool(mem, OFFSET_SENSOR_20K),
          dpi_stages            |-> get_dpi_stages(mem),
          current_dpi_index     |-> get_current_dpi_index(mem)]

\* The setters accept what get_config reads.
AcceptableIn(mem) ==
    /\ ReadableIn(mem)
    /\ At(mem, OFFSET_MAX_DPI) \in Nat
    /\ At(mem, OFFSET_CURRENT_DPI) < 8
    /\ {At(mem, OFFSET_SLEEP_TIMEOUT), At(mem, OFFSET_MOVING_OFF_LIGHT)} \subseteq Byte
    /\ At(mem, OFFSET_DEBOUNCE_TIME) \in 0..30
    /\ \A stage \in 0..7 : /\ get_dpi_value(mem, stage) \in DPI_MIN..DPI_MAX
                           /\ get_dpi_color(mem, stage) \in Color

ASSUME FactoryAssumption == AcceptableIn(Factory)

-----------------------------------------------------------------------------
(* Packets.  The status command sent before a write changes nothing, so it is part of the  *)
(* write's packet.  "check" is what is made of the answer: its status is looked at, or     *)
(* only the command it repeats, or nothing.                                                *)

Step(op, check, address, data) == [op |-> op, check |-> check, address |-> address, data |-> data]

write_memory(offset, value) ==
    <<Step("store", "status", offset, <<value, calculate_data_checksum(value)>>)>>

WriteFlash(address, data)  == <<Step("store", "echo", address, data)>>
SimpleCommand(op, payload) == <<Step(op, "echo", 0, <<payload>>)>>

\* The arguments are refused before anything is sent.
Reject == <<Step("reject", "status", 0, << >>)>>

Unless(wrong, script) == IF wrong THEN Reject ELSE script

\* A slot of `size` bytes, at most ten bytes to a packet; the answers are not looked at.
WriteInChunks(address, data, size) ==
    [k \in 1..((size + 9) \div 10) |->
        Step("store", "none", address + 10 * (k - 1),
             SubSeq(data, 10 * (k - 1) + 1, MinOf(10 * k, size)))]

-----------------------------------------------------------------------------
(* Setters. *)

MAX_SLEEP_TIMEOUT_SECONDS == 2550

set_bool(offset, enabled)      == write_memory(offset, Flag(enabled))
set_polling_rate(hz)           == write_memory(OFFSET_REPORT_RATE, PollingRateCode[hz])
set_lift_off_distance(mm10)    == write_memory(OFFSET_LIFT_OFF_DISTANCE, LiftOffCode[mm10])
set_long_distance_mode(on)     == SimpleCommand("range", Flag(on))
set_moving_off_light_time(t)   == write_memory(OFFSET_MOVING_OFF_LIGHT, t)
set_performance_time(seconds)  == write_memory(OFFSET_PERFORMANCE_TIME, SleepTimeCode[seconds])
set_sensor_mode(mode)          == write_memory(OFFSET_SENSOR_MODE, mode)
set_current_profile(profile)   == Unless(profile > 3, SimpleCommand("profile", profile))
factory_reset                  == SimpleCommand("reset", 0)

\* Both registers, the second one first.
set_sleep_timeout(seconds) ==
    Unless(seconds > MAX_SLEEP_TIMEOUT_SECONDS,
           write_memory(OFFSET_SLEEP_TIMEOUT_SECONDARY, seconds \div 10)
             \o write_memory(OFFSET_SLEEP_TIMEOUT, seconds \div 10))

set_debounce_time(ms) == Unless(ms > 30, write_memory(OFFSET_DEBOUNCE_TIME, ms))

\* Mutant of set_dpi_count: the limit is the size of a byte.
SetDpiCountAny(count) == write_memory(OFFSET_MAX_DPI, count)

set_dpi_count(count)  == Unless(count = 0 \/ count > 8, write_memory(OFFSET_MAX_DPI, count))

set_current_dpi_index(index) == Unless(index >= 8, write_memory(OFFSET_CURRENT_DPI, index))

\* Mutant of set_dpi_value: two stages share two bytes.
SetDpiValueCrowded(stage, dpi) ==
    Unless(stage >= 8 \/ dpi \notin DPI_MIN..DPI_MAX,
           WriteFlash(OFFSET_DPI_VALUES + 2 * stage, encode_dpi(dpi)))

set_dpi_value(stage, dpi) ==
    Unless(stage >= 8 \/ dpi \notin DPI_MIN..DPI_MAX,
           WriteFlash(OFFSET_DPI_VALUES + 4 * stage, encode_dpi(dpi)))

set_dpi_color(stage, color) ==
    Unless(stage >= 8, WriteFlash(OFFSET_DPI_COLORS + 4 * stage, encode_dpi_color(color)))

set_light_settings(light) ==
    WriteFlash(OFFSET_LIGHT_SETTINGS,
               <<light.mode>> \o light.color \o <<light.speed, light.brightness, 0>>)
      \o set_bool(OFFSET_LIGHT_STATE, light.enabled)

set_dpi_effect_settings(effect) ==
    write_memory(OFFSET_DPI_EFFECT_MODE, effect.mode)
      \o write_memory(OFFSET_DPI_EFFECT_BRIGHTNESS, encode_brightness(effect.brightness))
      \o write_memory(OFFSET_DPI_EFFECT_SPEED, Clamp(effect.speed, 1, 10))
      \o set_bool(OFFSET_DPI_EFFECT_STATE, effect.enabled)

set_key_function(key, function) ==
    Unless(key >= 8, WriteFlash(OFFSET_KEY_FUNCTIONS + 4 * key, EncodeKey(function)))

set_shortcut_key(slot, events) ==
    Unless(slot >= 8, WriteInChunks(ShortcutAddress(slot), EncodeShortcut(events),
                                    SHORTCUT_KEY_SLOT_SIZE))
set_macro(slot, macro) ==
    Unless(slot >= 8, WriteInChunks(MacroAddress(slot), EncodeMacro(macro), MACRO_SLOT_SIZE))

\* The value and the color of each stage, in turn.
StageWrites(stages) ==
    [k \in 1..2 * Len(stages) |->
        LET stage == (k - 1) \div 2
            s     == stages[stage + 1]
        IN IF k % 2 = 1 THEN set_dpi_value(stage, s.value)[1] ELSE set_dpi_color(stage, s.color)[1]]

\* Nothing about DPI without stages; a count is a byte.
DpiWrites(config) ==
    IF config.dpi_stages = << >> THEN << >>
    ELSE set_dpi_count(Len(config.dpi_stages) % 256)
           \o StageWrites(config.dpi_stages)
           \o set_current_dpi_index(config.current_dpi_index)

\* Mutant of set_config: the timeout last, over the performance time.
SetConfigTimeoutLast(config) ==
    set_polling_rate(config.polling_rate)
      \o set_performance_time(config.performance_time)
      \o set_sleep_timeout(config.sleep_timeout_seconds)

set_config(config) ==
    set_polling_rate(config.polling_rate)
      \o set_lift_off_distance(config.lift_off_distance)
      \o set_sleep_timeout(config.sleep_timeout_seconds)
      \o set_bool(OFFSET_ANGLE_SNAPPING, config.angle_snapping)
      \o set_bool(OFFSET_RIPPLE_CONTROL, config.ripple_control)
      \o set_bool(OFFSET_HIGH_SPEED_MODE, config.high_speed_mode)
      \o set_long_distance_mode(config.long_distance_mode)
      \o set_debounce_time(config.debounce_time)
      \o set_bool(OFFSET_MOTION_SYNC, config.motion_sync)
      \o set_moving_off_light_time(config.moving_off_light_time)
      \o set_performance_time(config.performance_time)
      \o set_sensor_mode(config.sensor_mode)
      \o set_bool(OFFSET_SENSOR_20K, config.sensor_20k)
      \o DpiWrites(config)

-----------------------------------------------------------------------------
(* The settings by name, [name, index], and what a call asks of them. *)

Single(name)   == <<name, 0>>
PlainSettings  == DOMAIN DefaultConfig \ {"dpi_stages", "current_dpi_index"}
Setting ==
    {Single(name) : name \in PlainSettings \cup {"dpi_count", "current_dpi_index", "light",
                                                  "dpi_effect", "profile"}}
      \cup ({"dpi_value", "dpi_color", "key_function"} \X Stages)
      \cup ({"shortcut", "macro"} \X Slots)

\* What the getter of a setting returns, given what get_config does.
Got(dev, config, s) ==
    LET mem == dev.memory IN
    CASE s[1] = "polling_rate"      -> get_polling_rate(mem)
      [] s[1] = "lift_off_distance" -> get_lift_off_distance(mem)
      [] s[1] = "profile"           -> dev.profile
      [] s[1] = "dpi_count"         -> get_dpi_count(mem)
      [] s[1] = "dpi_value"         -> get_dpi_value(mem, s[2])
      [] s[1] = "dpi_color"         -> get_dpi_color(mem, s[2])
      [] s[1] = "light"             -> get_light_settings(mem)
      [] s[1] = "dpi_effect"        -> get_dpi_effect_settings(mem)
      [] s[1] = "key_function"      -> get_key_function(mem, s[2])
      [] s[1] = "shortcut"          -> get_shortcut_key(mem, s[2])
      [] s[1] = "macro"             -> get_macro(mem, s[2])
      [] OTHER                      -> config[s[1]]

Readings(dev, settings) ==
    LET config == get_config(dev) IN [s \in settings |-> Got(dev, config, s)]

Nothing                    == << >>
Asking(name, index, value) == [s \in {<<name, index>>} |-> value]
Both(f, g) == [s \in DOMAIN f \cup DOMAIN g |-> IF s \in DOMAIN f THEN f[s] ELSE g[s]]

TensOf(seconds)   == seconds - (seconds % 10)
RoundedDpi(value) == value - (value % DPI_STEP)

\* A timeout goes into the register of the performance time, too.
AskingTimeout(seconds) ==
    Both(Asking("sleep_timeout_seconds", 0, TensOf(seconds)),
         Asking("performance_time", 0, OrElse(FromCode(SleepTimeCode, seconds \div 10), 10)))

AskingDpi(config) ==
    LET last == Len(config.dpi_stages) - 1 IN
    [s \in {Single("dpi_count"), Single("current_dpi_index")}
             \cup ({"dpi_value", "dpi_color"} \X (0..last)) |->
        CASE s[1] = "dpi_count"         -> last + 1
          [] s[1] = "current_dpi_index" -> config.current_dpi_index
          [] s[1] = "dpi_value"         -> RoundedDpi(config.dpi_stages[s[2] + 1].value)
          [] s[1] = "dpi_color"         -> config.dpi_stages[s[2] + 1].color]

AskingConfig(config) ==
    LET plain == [s \in {Single(name) : name \in PlainSettings} |->
                    IF s[1] = "sleep_timeout_seconds" THEN TensOf(config[s[1]]) ELSE config[s[1]]]
    IN IF config.dpi_stages = << >> THEN plain ELSE Both(plain, AskingDpi(config))

-----------------------------------------------------------------------------
(* The system. *)

Init ==
    /\ device = [memory |-> Factory, long_distance |-> FALSE, profile |-> 0]
    /\ start = device
    /\ steps = << >>
    /\ asked = << >>
    /\ result = "idle"
    /\ unseen = FALSE
    /\ calls = 0
    /\ faults = 0

Call(script, want) ==
    /\ result # "running"
    /\ calls < MaxCalls
    /\ calls' = calls + 1
    /\ steps' = script
    /\ asked' = want
    /\ start' = device
    /\ result' = "running"
    /\ unseen' = FALSE
    /\ UNCHANGED <<device, faults>>

(* RPCs: what a request carries is converted first, and refused if that fails. *)

SetConfig(proto) ==
    LET config == ConfigFromProto(proto) IN
    IF config = Invalid THEN Call(Reject, Nothing)
    ELSE Call(set_config(config), AskingConfig(config))

SetPollingRate(n) ==
    LET rate == RateFromProto(n) IN
    Call(IF rate = Invalid THEN Reject ELSE set_polling_rate(rate), Asking("polling_rate", 0, rate))

SetLiftOffDistance(n) ==
    LET lod == LodFromProto(n) IN
    Call(IF lod = Invalid THEN Reject ELSE set_lift_off_distance(lod),
         Asking("lift_off_distance", 0, lod))

SetSleepTimeout(n) == Call(set_sleep_timeout(AsU16(n)), AskingTimeout(AsU16(n)))

SetAngleSnapping(on) ==
    Call(set_bool(OFFSET_ANGLE_SNAPPING, on), Asking("angle_snapping", 0, on))
SetRippleControl(on) ==
    Call(set_bool(OFFSET_RIPPLE_CONTROL, on), Asking("ripple_control", 0, on))
SetHighSpeedMode(on) ==
    Call(set_bool(OFFSET_HIGH_SPEED_MODE, on), Asking("high_speed_mode", 0, on))
SetLongDistanceMode(on) ==
    Call(set_long_distance_mode(on), Asking("long_distance_mode", 0, on))

\* Without a stage, the current one: a set of no or one number.
StageOf(option) ==
    IF option = {} THEN get_current_dpi_index(device.memory) ELSE CHOOSE n \in option : TRUE

SetDpiValue(n, option) ==
    LET stage == StageOf(option) IN
    Call(Unless(Invalid \in {TryU16(n), TryU8(stage)}, set_dpi_value(stage, n)),
         Asking("dpi_value", stage, RoundedDpi(n)))

SetDpiColor(color, option) ==
    LET stage == StageOf(option) IN
    Call(Unless(Invalid \in {TryU8(stage)} \cup {TryU8(color[i]) : i \in 1..3},
                set_dpi_color(stage, color)),
         Asking("dpi_color", stage, color))

SetCurrentDpiIndex(n) ==
    Call(Unless(TryU8(n) = Invalid, set_current_dpi_index(n)), Asking("current_dpi_index", 0, n))

SetDpiCount(n) ==
    Call(Unless(TryU8(n) = Invalid, set_dpi_count(n)), Asking("dpi_count", 0, n))

(* Setters that no RPC reaches: the library's own callers. *)

ApplyConfig(config)      == Call(set_config(config), AskingConfig(config))
SetDebounceTime(ms)      == Call(set_debounce_time(ms), Asking("debounce_time", 0, ms))
SetMotionSync(on)        == Call(set_bool(OFFSET_MOTION_SYNC, on), Asking("motion_sync", 0, on))
SetSensor20kMode(on)     == Call(set_bool(OFFSET_SENSOR_20K, on), Asking("sensor_20k", 0, on))
SetSensorMode(mode)      == Call(set_sensor_mode(mode), Asking("sensor_mode", 0, mode))
SetMovingOffLightTime(t) == Call(set_moving_off_light_time(t), Asking("moving_off_light_time", 0, t))
SetPerformanceTime(s)    == Call(set_performance_time(s), Asking("performance_time", 0, s))
SetLightSettings(light)  == Call(set_light_settings(light), Asking("light", 0, light))
SetDpiEffect(effect) ==
    Call(set_dpi_effect_settings(effect),
         Asking("dpi_effect", 0, [effect EXCEPT !.brightness = Clamp(@, 1, 10),
                                                !.speed = Clamp(@, 1, 10)]))
SetKeyFunction(key, f)   == Call(set_key_function(key, f), Asking("key_function", key, f))
SetShortcutKey(slot, s)  == Call(set_shortcut_key(slot, s), Asking("shortcut", slot, s))
SetMacro(slot, m)        == Call(set_macro(slot, m), Asking("macro", slot, m))
SetCurrentProfile(p)     == Call(set_current_profile(p), Asking("profile", 0, p))
FactoryReset ==
    Call(factory_reset,
         Readings([device EXCEPT !.memory = Factory],
                  Setting \ {Single("long_distance_mode"), Single("profile")}))

(* What becomes of the next packet. *)

\* The device after it has taken a packet.
Taken(packet) ==
    CASE packet.op = "store"   -> [device EXCEPT !.memory =
                                      Overlay(@, packet.address, packet.data)]
      [] packet.op = "range"   -> [device EXCEPT !.long_distance = packet.data[1] = 1]
      [] packet.op = "profile" -> [device EXCEPT !.profile = packet.data[1]]
      [] packet.op = "reset"   -> [device EXCEPT !.memory = Factory]

Sending == result = "running" /\ steps # << >> /\ Head(steps).op # "reject"

Accepted ==
    /\ Sending
    /\ device' = Taken(Head(steps))
    /\ steps' = Tail(steps)
    /\ UNCHANGED <<start, asked, result, unseen, calls, faults>>

Fail ==
    /\ result' = "failed"
    /\ steps' = << >>

\* The device reports an error; only check_response_status sees it.
Refused ==
    /\ Sending
    /\ faults < MaxFaults
    /\ faults' = faults + 1
    /\ \/ Head(steps).check = "status" /\ Fail /\ UNCHANGED unseen
       \/ /\ Head(steps).check # "status"
          /\ steps' = Tail(steps)
          /\ unseen' = TRUE
          /\ UNCHANGED result
    /\ UNCHANGED <<device, start, asked, calls>>

\* No answer to this call, or the call is dropped; the packet may arrive all the same.
Interrupted ==
    /\ Sending
    /\ faults < MaxFaults
    /\ faults' = faults + 1
    /\ device' \in {device, Taken(Head(steps))}
    /\ Fail
    /\ UNCHANGED <<start, asked, unseen, calls>>

Rejected ==
    /\ result = "running" /\ steps # << >> /\ Head(steps).op = "reject"
    /\ Fail
    /\ UNCHANGED <<device, start, asked, unseen, calls, faults>>

Finish ==
    /\ result = "running" /\ steps = << >>
    /\ result' = "ok"
    /\ UNCHANGED <<device, start, steps, asked, unseen, calls, faults>>

StageOptions == {{}} \cup {{n} : n \in Stages \cup {8}}

DaemonCall ==
    \/ \E proto \in Protos : SetConfig(proto)
    \/ \E n \in Numbers :
         \/ SetPollingRate(n) \/ SetLiftOffDistance(n) \/ SetSleepTimeout(n)
         \/ SetCurrentDpiIndex(n) \/ SetDpiCount(n)
         \/ \E stage \in StageOptions : SetDpiValue(n, stage)
    \/ \E on \in BOOLEAN :
         SetAngleSnapping(on) \/ SetRippleControl(on) \/ SetHighSpeedMode(on)
           \/ SetLongDistanceMode(on)
    \/ \E color \in Colors, stage \in StageOptions : SetDpiColor(color, stage)

LibraryCall ==
    \/ \E config \in Configs : ApplyConfig(config)
    \/ \E on \in BOOLEAN : SetMotionSync(on) \/ SetSensor20kMode(on)
    \/ \E n \in Numbers \cap Byte :
         SetDebounceTime(n) \/ SetMovingOffLightTime(n) \/ SetCurrentProfile(n)
    \/ \E mode \in SensorMode : SetSensorMode(mode)
    \/ \E time \in SleepTime : SetPerformanceTime(time)
    \/ \E light \in Lights : SetLightSettings(light)
    \/ \E effect \in Effects : SetDpiEffect(effect)
    \/ \E index \in Stages \cup {8}, key \in Keys : SetKeyFunction(index, key)
    \/ \E slot \in Slots \cup {8} :
         \/ \E events \in Shortcuts : SetShortcutKey(slot, events)
         \/ \E macro \in Macros : SetMacro(slot, macro)
    \/ FactoryReset

Next ==
    \/ DaemonCall \/ LibraryCall
    \/ Accepted \/ Refused \/ Interrupted \/ Rejected \/ Finish

Spec == Init /\ [][Next]_vars

-----------------------------------------------------------------------------
(* Properties. *)

\* However calls fail half-way, in whatever order they come: get_config never fails on what
\* they left in the memory.
Readable == ReadableIn(device.memory)

\* A call that reports success, and met no refusal it did not look at, has done all it was
\* asked, and nothing else: each setting reads as asked (rounded as documented), each other
\* one as before the call.
OkMeansApplied ==
    result = "ok" /\ ~unseen =>
        LET before == Readings(start, Setting \ DOMAIN asked)
            now    == Readings(device, Setting)
        IN \A s \in Setting : now[s] = IF s \in DOMAIN asked THEN asked[s] ELSE before[s]

\* Settings spread over several packets, and the register with two uses.
Spread == {"light", "dpi_effect", "shortcut", "macro", "performance_time"}

\* At every moment of a call, and after one that failed or was dropped at any packet, each
\* setting that fits into one packet reads as before the call or as asked: set_config may
\* stop half-way between settings, never half-way through one, and damages no other.
OldOrNew ==
    LET whole  == {s \in Setting : s[1] \notin Spread}
        before == Readings(start, whole)
        now    == Readings(device, whole)
    IN \A s \in whole : now[s] = before[s] \/ (s \in DOMAIN asked /\ now[s] = asked[s])

Applicable(config) ==
    /\ config # Invalid
    /\ LET script == set_config(config) IN \A i \in DOMAIN script : script[i].op # "reject"

\* What get_config returns, whatever calls failed before, can be applied again, by the
\* library and through the daemon's messages: no setter refuses what a getter returned.
Reapplicable ==
    /\ Applicable(get_config(device))
    /\ Applicable(ConfigFromProto(ConfigToProto(get_config(device))))
=============================================================================
