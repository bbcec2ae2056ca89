---------------------------- MODULE Conversions ----------------------------
(***************************************************************************)
(* From gRPC messages to the settings of the library, to the profiles on   *)
(* disk, and back (scyrox-proto convert.rs, the end of server.rs).         *)
(*                                                                         *)
(* A message is a record of 32-bit numbers, an enumeration in it its       *)
(* number, 0 when unspecified.  Lift-off distances are in tenths of a      *)
(* millimetre, as in MouseTypes; profiles store them in hundredths.        *)
(***************************************************************************)
EXTENDS MouseTypes

\* u16::try_from, u8::try_from.
TryU16(n) == IF n < 65536 THEN n ELSE Invalid
TryU8(n)  == IF n < 256 THEN n ELSE Invalid

\* `as u16`, which cuts off what does not fit.
AsU16(n) == n % 65536

-----------------------------------------------------------------------------
(* Enumerations. *)

RateToProto(hz)   == CHOOSE n \in 1..7 : RatesAscending[n] = hz
RateFromProto(n)  == IF n \in 1..7 THEN RatesAscending[n] ELSE Invalid

LodAscending      == <<7, 10, 20>>
LodToProto(mm10)  == CHOOSE n \in 1..3 : LodAscending[n] = mm10
LodFromProto(n)   == IF n \in 1..3 THEN LodAscending[n] ELSE Invalid

\* A distance that is none of the three falls into the range around one of them.
NearestLod(mm100) ==
    IF FromMm100(mm100) # Invalid THEN FromMm100(mm100)
    ELSE IF mm100 <= 85 THEN 7
    ELSE IF mm100 <= 150 THEN 10
    ELSE 20

hz_to_proto_polling_rate(hz) == IF hz \in PollingRate THEN RateToProto(hz) ELSE 0
mm_to_proto_lod(mm100)       == LodToProto(NearestLod(mm100))

-----------------------------------------------------------------------------
(* DPI stages: [value, color]. *)

StageToProto(stage) == stage

StageFromProto(stage) ==
    IF TryU16(stage.value) = Invalid \/ \E i \in 1..3 : TryU8(stage.color[i]) = Invalid
    THEN Invalid
    ELSE stage

StagesFromProto(stages) ==
    IF \E i \in DOMAIN stages : StageFromProto(stages[i]) = Invalid
    THEN Invalid
    ELSE [i \in DOMAIN stages |-> StageFromProto(stages[i])]

-----------------------------------------------------------------------------
(* The configuration of a mouse. *)

DpiStage == [value : Word, color : Color]

MouseConfig ==
    [polling_rate : PollingRate, lift_off_distance : LiftOffDistance,
     sleep_timeout_seconds : Word, angle_snapping : BOOLEAN, ripple_control : BOOLEAN,
     high_speed_mode : BOOLEAN, long_distance_mode : BOOLEAN, debounce_time : Byte,
     motion_sync : BOOLEAN, moving_off_light_time : Byte, performance_time : SleepTime,
     sensor_mode : SensorMode, sensor_20k : BOOLEAN, dpi_stages : Seq(DpiStage),
     current_dpi_index : Byte]

\* A rejection is no value.
ASSUME InvalidAssumption == Invalid \notin Nat \cup DpiStage \cup Seq(DpiStage) \cup MouseConfig
                                 \cup KeyFunction \cup ShortcutEvent \cup Seq(ShortcutEvent)
                                 \cup MacroEvent

\* MouseConfig::default.
DefaultConfig ==
    [polling_rate |-> 1000, lift_off_distance |-> 7, sleep_timeout_seconds |-> 300,
     angle_snapping |-> FALSE, ripple_control |-> FALSE, high_speed_mode |-> FALSE,
     long_distance_mode |-> FALSE, debounce_time |-> 0, motion_sync |-> FALSE,
     moving_off_light_time |-> 0, performance_time |-> 60, sensor_mode |-> 1,
     sensor_20k |-> FALSE, dpi_stages |-> << >>, current_dpi_index |-> 0]

\* The settings a message and a profile carry; the others stay behind.
Switches == {"angle_snapping", "ripple_control", "high_speed_mode", "long_distance_mode"}

ConfigToProto(config) ==
    [polling_rate          |-> RateToProto(config.polling_rate),
     lift_off_distance     |-> LodToProto(config.lift_off_distance),
     sleep_timeout_seconds |-> config.sleep_timeout_seconds,
     switches              |-> [s \in Switches |-> config[s]],
     dpi_stages            |-> [i \in DOMAIN config.dpi_stages |->
                                   StageToProto(config.dpi_stages[i])],
     current_dpi_index     |-> config.current_dpi_index]

\* The settings in `carried`, and the default for every other one.
WithDefaults(carried, switches) ==
    [s \in DOMAIN DefaultConfig |->
        IF s \in DOMAIN carried THEN carried[s]
        ELSE IF s \in Switches THEN switches[s]
        ELSE DefaultConfig[s]]

ConfigFromProto(proto) ==
    IF \/ RateFromProto(proto.polling_rate) = Invalid
       \/ LodFromProto(proto.lift_off_distance) = Invalid
       \/ StagesFromProto(proto.dpi_stages) = Invalid
       \/ TryU8(proto.current_dpi_index) = Invalid
    THEN Invalid
    ELSE WithDefaults(
           [polling_rate          |-> RateFromProto(proto.polling_rate),
            lift_off_distance     |-> LodFromProto(proto.lift_off_distance),
            sleep_timeout_seconds |-> AsU16(proto.sleep_timeout_seconds),
            dpi_stages            |-> StagesFromProto(proto.dpi_stages),
            current_dpi_index     |-> proto.current_dpi_index],
           proto.switches)

-----------------------------------------------------------------------------
(* Profiles. *)

proto_to_profile_config(proto) ==
    IF \/ RateFromProto(proto.polling_rate) = Invalid
       \/ LodFromProto(proto.lift_off_distance) = Invalid
       \/ StagesFromProto(proto.dpi_stages) = Invalid
       \/ TryU8(proto.current_dpi_index) = Invalid
    THEN Invalid
    ELSE [polling_rate_hz       |-> RateFromProto(proto.polling_rate),
          lift_off_distance_mm  |-> 10 * LodFromProto(proto.lift_off_distance),
          sleep_timeout_seconds |-> AsU16(proto.sleep_timeout_seconds),
          switches              |-> proto.switches,
          dpi_stages            |-> StagesFromProto(proto.dpi_stages),
          current_dpi_index     |-> proto.current_dpi_index]

profile_config_to_mouse_config(profile) ==
    IF profile.polling_rate_hz \notin PollingRate THEN Invalid
    ELSE WithDefaults(
           [polling_rate          |-> profile.polling_rate_hz,
            lift_off_distance     |-> NearestLod(profile.lift_off_distance_mm),
            sleep_timeout_seconds |-> profile.sleep_timeout_seconds,
            dpi_stages            |-> profile.dpi_stages,
            current_dpi_index     |-> profile.current_dpi_index],
           profile.switches)

profile_to_proto(profile) ==
    [polling_rate          |-> hz_to_proto_polling_rate(profile.polling_rate_hz),
     lift_off_distance     |-> mm_to_proto_lod(profile.lift_off_distance_mm),
     sleep_timeout_seconds |-> profile.sleep_timeout_seconds,
     switches              |-> profile.switches,
     dpi_stages            |-> [i \in DOMAIN profile.dpi_stages |->
                                   StageToProto(profile.dpi_stages[i])],
     current_dpi_index     |-> profile.current_dpi_index]
=============================================================================
