----------------------------- MODULE Protocol -----------------------------
(***************************************************************************)
(* The wire format of the mouse (protocol.rs): the memory map, the         *)
(* checksums, the packets, and the codes of DPI values, report rates,      *)
(* brightness levels and battery voltages.                                 *)
(*                                                                         *)
(* A byte is a number in 0..255 and a packet a sequence of 16 of them;     *)
(* byte i of the code is element i + 1 here.                               *)
(***************************************************************************)
EXTENDS Naturals, Integers, Sequences, FiniteSets

CONSTANT Invalid  \* what a decoder returns for data it rejects

Byte  == 0..255
Color == Byte \X Byte \X Byte

-----------------------------------------------------------------------------
(* Commands and the memory map. *)

CMD_DEVICE_INFO        == 1
CMD_CONFIG_FLAGS       == 2
CMD_STATUS             == 3
CMD_BATTERY            == 4
CMD_DONGLE_ENTER_PAIR  == 5
CMD_GET_PAIR_STATE     == 6
CMD_WRITE_FLASH        == 7
CMD_READ_FLASH         == 8
CMD_CLEAR_SETTING      == 9
CMD_STATUS_CHANGED     == 10
CMD_GET_CURRENT_CONFIG == 14
CMD_SET_CURRENT_CONFIG == 15
CMD_READ_VERSION       == 18
CMD_SET_LONG_RANGE     == 22
CMD_GET_LONG_RANGE     == 23
CMD_DONGLE_VERSION     == 29

OFFSET_REPORT_RATE           == 0
OFFSET_MAX_DPI               == 2
OFFSET_CURRENT_DPI           == 4
OFFSET_SENSOR_20K            == 8
OFFSET_LIFT_OFF_DISTANCE     == 10
OFFSET_DPI_VALUES            == 12
OFFSET_DPI_COLORS            == 44
OFFSET_DPI_EFFECT_MODE       == 76
OFFSET_DPI_EFFECT_BRIGHTNESS == 78
OFFSET_DPI_EFFECT_SPEED      == 80
OFFSET_DPI_EFFECT_STATE      == 82
OFFSET_KEY_FUNCTIONS         == 96
OFFSET_LIGHT_SETTINGS        == 160
OFFSET_LIGHT_STATE           == 167
OFFSET_DEBOUNCE_TIME         == 169
OFFSET_MOTION_SYNC           == 171
OFFSET_SLEEP_TIMEOUT         == 173
OFFSET_ANGLE_SNAPPING        == 175
OFFSET_RIPPLE_CONTROL        == 177
OFFSET_MOVING_OFF_LIGHT      == 179
OFFSET_HIGH_SPEED_MODE       == 181
OFFSET_PERFORMANCE_TIME      == 183
OFFSET_SLEEP_TIMEOUT_SECONDARY == OFFSET_PERFORMANCE_TIME
OFFSET_SENSOR_MODE           == 185
OFFSET_SHORTCUT_KEYS         == 256
OFFSET_MACROS                == 768

SHORTCUT_KEY_SLOT_SIZE == 32
MACRO_SLOT_SIZE        == 384
REPORT_ID              == 8

-----------------------------------------------------------------------------
(* Checksums. *)

Total(bytes) ==
    LET sum[n \in 0..Len(bytes)] == IF n = 0 THEN 0 ELSE sum[n - 1] + bytes[n]
    IN  sum[Len(bytes)]

\* The byte that makes an entry in flash add up to 0x55.
Complement(bytes) == (85 - Total(bytes)) % 256

calculate_data_checksum(value) == Complement(<<value>>)

\* Over bytes 0 to 14 of the packet and the report ID.
calculate_checksum(body) == Complement(Append(body, REPORT_ID))

verify_response_checksum(response) ==
    Len(response) >= 16 /\ response[16] = calculate_checksum(SubSeq(response, 1, 15))

-----------------------------------------------------------------------------
(* Packets. *)

Padded(data) == [i \in 1..10 |-> IF i <= Len(data) THEN data[i] ELSE 0]

Packet(cmd, address, length, data) ==
    LET body == <<cmd, 0, address \div 256, address % 256, length>> \o Padded(data)
    IN Append(body, calculate_checksum(body))

build_command(cmd, address, length) == Packet(cmd, address, length, << >>)
build_simple_command(cmd)           == build_command(cmd, 0, 0)
build_memory_read(address, length)  == build_command(CMD_READ_FLASH, address, length)

\* The value and its complement, at two consecutive addresses.
build_memory_write(address, value) ==
    Packet(CMD_WRITE_FLASH, address, 2, <<value, calculate_data_checksum(value)>>)

\* At most ten bytes; the rest of the data is not sent.
build_flash_write(address, data) ==
    LET n == IF Len(data) < 10 THEN Len(data) ELSE 10
    IN Packet(CMD_WRITE_FLASH, address, n, SubSeq(data, 1, n))

Flag(b) == IF b THEN 1 ELSE 0

build_handshake_cmd(random)        == Packet(CMD_DEVICE_INFO, 0, 8, random)
build_pc_driver_status_cmd(on)     == Packet(CMD_CONFIG_FLAGS, 0, 1, <<Flag(on)>>)
build_set_long_range_cmd(enabled)  == Packet(CMD_SET_LONG_RANGE, 0, 10, <<Flag(enabled)>>)
build_dongle_enter_pair_cmd        == Packet(CMD_DONGLE_ENTER_PAIR, 0, 2, <<0, 0, 62>>)
build_set_current_config_cmd(p)    == Packet(CMD_SET_CURRENT_CONFIG, 0, 1, <<p>>)

\* What the device reads out of a packet.
PacketAddress(packet) == 256 * packet[3] + packet[4]
PacketData(packet)    == SubSeq(packet, 6, 5 + packet[5])

-----------------------------------------------------------------------------
(* DPI values: two copies of the low byte, two of the high bits, a checksum. *)

DPI_MIN  == 50
DPI_MAX  == 26000
DPI_STEP == 50

\* Mutant of encode_dpi: the high bits are written once only, where nobody reads them.
EncodeDpiHighOnly(dpi) ==
    LET code  == dpi \div DPI_STEP - 1
        bytes == <<code % 256, code % 256, 64 * (code \div 256)>>
    IN Append(bytes, Complement(bytes))

encode_dpi(dpi) ==
    LET steps == dpi \div DPI_STEP
        code  == IF steps = 0 THEN 0 ELSE steps - 1
        high  == (code \div 256) % 4
        bytes == <<code % 256, code % 256, 4 * high + 64 * high>>
    IN Append(bytes, Complement(bytes))

decode_dpi(bytes) ==
    (bytes[1] + 256 * ((bytes[3] \div 4) % 4) + 1) * DPI_STEP

encode_dpi_color(color) == Append(color, Complement(color))

-----------------------------------------------------------------------------
(* Report rates. *)

encode_report_rate(hz) == IF hz <= 1000 THEN 1000 \div hz ELSE (hz \div 2000) * 16

decode_report_rate(value) ==
    IF value >= 16 THEN (value \div 16) * 2000
    ELSE IF value > 0 THEN 1000 \div value
    ELSE 1000

-----------------------------------------------------------------------------
(* Battery. *)

CUSTOM_VOLTAGE_TABLE ==
    << <<3009, 0>>, <<3251, 1>>, <<3356, 2>>, <<3446, 3>>, <<3501, 4>>, <<3548, 5>>,
       <<3588, 6>>, <<3620, 7>>, <<3644, 8>>, <<3664, 9>>, <<3669, 10>>, <<3698, 15>>,
       <<3714, 20>>, <<3734, 25>>, <<3748, 30>>, <<3766, 35>>, <<3782, 40>>, <<3800, 45>>,
       <<3821, 50>>, <<3841, 55>>, <<3864, 60>>, <<3895, 65>>, <<3928, 70>>, <<3962, 75>>,
       <<3996, 80>>, <<4040, 85>>, <<4081, 90>>, <<4129, 95>>, <<4197, 100>> >>

TableEnd == Len(CUSTOM_VOLTAGE_TABLE)
Volt(i)    == CUSTOM_VOLTAGE_TABLE[i][1]
Percent(i) == CUSTOM_VOLTAGE_TABLE[i][2]

\* The first row at or above a voltage within the table.
RowFor(mv) == CHOOSE i \in 2..TableEnd : Volt(i - 1) < mv /\ mv <= Volt(i)

\* Linear between two rows, rounded half up.  The code computes with f32, which rounds
\* every voltage of the table's range to the same percentage.
Interpolated(mv, i) ==
    LET run  == Volt(i) - Volt(i - 1)
        rise == Percent(i) - Percent(i - 1)
    IN (2 * Percent(i - 1) * run + 2 * (mv - Volt(i - 1)) * rise + run) \div (2 * run)

\* Mutant of voltage_to_percentage_table: interpolates from the row above.
PercentageFromNextRow(mv) ==
    IF mv <= Volt(1) THEN 0
    ELSE IF mv >= Volt(TableEnd) THEN 100
    ELSE 2 * Percent(RowFor(mv)) - Interpolated(mv, RowFor(mv))

voltage_to_percentage_table(mv) ==
    IF mv <= Volt(1) THEN Percent(1)
    ELSE IF mv >= Volt(TableEnd) THEN Percent(TableEnd)
    ELSE Interpolated(mv, RowFor(mv))

-----------------------------------------------------------------------------
(* Brightness, notifications. *)

BRIGHTNESS_TABLE == <<16, 30, 60, 90, 128, 150, 180, 210, 230, 255>>

encode_brightness(level) ==
    BRIGHTNESS_TABLE[IF level = 0 THEN 1 ELSE IF level > 10 THEN 10 ELSE level]

\* The first level that is as bright.
decode_brightness(value) ==
    CHOOSE l \in 1..10 : /\ value <= BRIGHTNESS_TABLE[l]
                         /\ \A k \in 1..l - 1 : BRIGHTNESS_TABLE[k] < value

\* Notifications arrive with the report ID in front of the packet.
is_status_changed_notification(report) ==
    Len(report) >= 2 /\ report[2] = CMD_STATUS_CHANGED

parse_status_changed_notification(report) ==
    IF Len(report) < 7 \/ report[2] # CMD_STATUS_CHANGED THEN Invalid ELSE report[7]
=============================================================================
