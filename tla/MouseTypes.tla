---------------------------- MODULE MouseTypes ----------------------------
(***************************************************************************)
(* The settings of a mouse and their codes in flash (types.rs).            *)
(*                                                                         *)
(* An enumeration of the code is the set of its members' codes; a member   *)
(* is its code where the code is all that matters, and the value it stands *)
(* for (Hz, tenths of a millimetre, seconds) where the conversion matters. *)
(***************************************************************************)
EXTENDS Protocol

Word == 0..65535

MinOf(a, b)      == IF a < b THEN a ELSE b
Clamp(n, lo, hi) == IF n < lo THEN lo ELSE MinOf(n, hi)

-----------------------------------------------------------------------------
(* Enumerations: value -> code. *)

\* PollingRate, in Hz.
PollingRateCode ==
    [hz \in {125, 250, 500, 1000, 2000, 4000, 8000} |->
        CASE hz = 125 -> 8 [] hz = 250 -> 4 [] hz = 500 -> 2 [] hz = 1000 -> 1
          [] hz = 2000 -> 16 [] hz = 4000 -> 32 [] hz = 8000 -> 64]
PollingRate == DOMAIN PollingRateCode

\* PollingRate::ALL, ascending; next and prev walk it and wrap around.
RatesAscending == <<125, 250, 500, 1000, 2000, 4000, 8000>>
NextRate(hz) == LET i == CHOOSE i \in 1..7 : RatesAscending[i] = hz
                IN RatesAscending[(i % 7) + 1]
PrevRate(hz) == LET i == CHOOSE i \in 1..7 : RatesAscending[i] = hz
                IN RatesAscending[((i + 5) % 7) + 1]

\* LiftOffDistance, in tenths of a millimetre: Low, Medium, High.
LiftOffCode     == [mm10 \in {7, 10, 20} |-> IF mm10 = 7 THEN 3 ELSE IF mm10 = 10 THEN 1 ELSE 2]
LiftOffDistance == DOMAIN LiftOffCode
NextLiftOff     == [mm10 \in LiftOffDistance |-> IF mm10 = 7 THEN 10 ELSE IF mm10 = 10 THEN 20 ELSE 7]
PrevLiftOff     == [mm10 \in LiftOffDistance |-> IF mm10 = 7 THEN 20 ELSE IF mm10 = 10 THEN 7 ELSE 10]

\* SleepTime, in seconds.
SleepTimeCode == [s \in {10, 30, 60, 300, 600, 1800} |-> s \div 10]
SleepTime     == DOMAIN SleepTimeCode

\* SensorMode: LowPower, HighPerformance.
SensorMode == {0, 1}

LightMode      == 0..6
DpiEffectMode  == 0..2
PairStatus     == 0..3
ConnectionType == 0..5

\* try_from of an enumeration given by its codes.
FromCode(code, byte) ==
    IF \E v \in DOMAIN code : code[v] = byte
    THEN CHOOSE v \in DOMAIN code : code[v] = byte
    ELSE Invalid

\* from_mm: within a hundredth of a millimetre; the hundredths are those of the input.
FromMm100(mm100) ==
    IF \E d \in LiftOffDistance : 10 * d = mm100
    THEN CHOOSE d \in LiftOffDistance : 10 * d = mm100
    ELSE Invalid

-----------------------------------------------------------------------------
(* Key functions. *)

KeyFunctionType == 0..7
MouseButton     == {256 * 2^k : k \in 0..4}
DpiSwitchMode   == {256, 512, 768}
ScrollDirection == {256, 512}

KeyFunction == [function_type : KeyFunctionType, parameter : Word]
DisabledKey == [function_type |-> 0, parameter |-> 0]

\* FireKeyConfig and MacroKeyConfig: one byte in the high half, one in the low half.
Halves(high, low) == 256 * high + low

KeyFor(type, parameter) == [function_type |-> type, parameter |-> parameter]
mouse_button(button)    == KeyFor(1, button)
dpi_switch(mode)        == KeyFor(2, mode)
scroll_wheel(direction) == KeyFor(3, direction)
fire_key(interval, n)   == KeyFor(4, Halves(interval, n))
shortcut_key(slot)      == KeyFor(5, slot)
macro_key(slot, cycles) == KeyFor(6, Halves(slot, cycles))
report_rate_switch      == KeyFor(7, 0)

EncodeKey(key) ==
    LET bytes == <<key.function_type, key.parameter \div 256, key.parameter % 256>>
    IN Append(bytes, Complement(bytes))

\* Mutant of DecodeKey: the checksum is not looked at.
DecodeKeyUnchecked(bytes) ==
    IF bytes[1] \notin KeyFunctionType THEN Invalid
    ELSE KeyFor(bytes[1], Halves(bytes[2], bytes[3]))

\* An unknown type and a wrong checksum are rejected.
DecodeKey(bytes) ==
    IF bytes[1] \notin KeyFunctionType \/ bytes[4] # Complement(SubSeq(bytes, 1, 3))
    THEN Invalid
    ELSE KeyFor(bytes[1], Halves(bytes[2], bytes[3]))

-----------------------------------------------------------------------------
(* Shortcuts. *)

ShortcutKeyType == 0..2
ModifierKey     == {2^k : k \in 0..7}
MediaKey        == {387, 205, 181, 182, 183, 226, 233, 234, 394, 402, 404, 545,
                    547, 548, 549, 550, 551, 554}
HidKeyCode      == (4..99) \ {50}

ShortcutEvent == [key_down : BOOLEAN, key_type : ShortcutKeyType, key_code : Word]

MAX_SHORTCUT_EVENTS == 10

Press(type, code) ==
    << [key_down |-> TRUE, key_type |-> type, key_code |-> code],
       [key_down |-> FALSE, key_type |-> type, key_code |-> code] >>

\* Nothing is added beyond twice MAX_EVENTS events.
AddKeyPress(events, type, code) ==
    IF Len(events) + 2 <= 2 * MAX_SHORTCUT_EVENTS THEN events \o Press(type, code) ELSE events

EncodeShortcutEvent(e) ==
    <<e.key_type + (IF e.key_down THEN 128 ELSE 64), e.key_code % 256, e.key_code \div 256>>

\* The low four bits name the type.
DecodeShortcutEvent(bytes) ==
    IF bytes[1] % 16 \notin ShortcutKeyType THEN Invalid
    ELSE [key_down |-> bytes[1] >= 128, key_type |-> bytes[1] % 16,
          key_code |-> bytes[2] + 256 * bytes[3]]

\* The whole ones of n entries of `size` bytes in a table that starts at `base`, counted from 0.
Entries(data, base, size, n) ==
    LET fits == {k \in 0..n - 1 : base + (k + 1) * size <= Len(data)}
    IN [k \in 1..Cardinality(fits) |-> SubSeq(data, base + (k - 1) * size + 1, base + k * size)]

\* Parts of `size` bytes each, one after the other.
Flattened(parts, size) ==
    [i \in 1..size * Len(parts) |-> parts[1 + (i - 1) \div size][1 + ((i - 1) % size)]]

ValidOnes(decoded) ==
    LET kept[n \in 0..Len(decoded)] ==
          IF n = 0 THEN << >>
          ELSE IF decoded[n] = Invalid THEN kept[n - 1]
          ELSE Append(kept[n - 1], decoded[n])
    IN  kept[Len(decoded)]

Filled(bytes, size) == bytes \o [i \in 1..size - Len(bytes) |-> 0]

\* The count of all events, then the events that fit: ten of three bytes.
EncodeShortcut(events) ==
    LET room == (SHORTCUT_KEY_SLOT_SIZE - 1) \div 3
        kept == SubSeq(events, 1, MinOf(Len(events), room))
        body == Flattened([i \in DOMAIN kept |-> EncodeShortcutEvent(kept[i])], 3)
    IN Filled(<<Len(events)>> \o body, SHORTCUT_KEY_SLOT_SIZE)

DecodeShortcut(data) ==
    IF data[1] > 2 * MAX_SHORTCUT_EVENTS THEN Invalid
    ELSE LET entries == Entries(data, 1, 3, data[1])
         IN ValidOnes([i \in DOMAIN entries |-> DecodeShortcutEvent(entries[i])])

-----------------------------------------------------------------------------
(* Macros. *)

MacroEventKeyType == {1, 4}
MacroMouseButton  == {2^k : k \in 0..4}
MacroEvent        ==
    [key_down : BOOLEAN, key_type : MacroEventKeyType, key_code : Word, delay_ms : Word]

MAX_NAME_LENGTH   == 30
MAX_MACRO_EVENTS  == 70
EVENT_SIZE        == 5

EncodeMacroEvent(e) ==
    <<e.key_type + (IF e.key_down THEN 64 ELSE 128), e.key_code % 256, e.key_code \div 256,
      e.delay_ms \div 256, e.delay_ms % 256>>

\* The top two bits tell down from up, the low four name the type.
DecodeMacroEvent(bytes) ==
    IF bytes[1] % 16 \notin MacroEventKeyType THEN Invalid
    ELSE [key_down |-> bytes[1] \div 64 = 1, key_type |-> bytes[1] % 16,
          key_code |-> bytes[2] + 256 * bytes[3], delay_ms |-> 256 * bytes[4] + bytes[5]]

\* The name is cut at 30 bytes and the list of events at 70.
EncodeMacro(macro) ==
    LET name   == SubSeq(macro.name, 1, MinOf(Len(macro.name), MAX_NAME_LENGTH))
        events == SubSeq(macro.events, 1, MinOf(Len(macro.events), MAX_MACRO_EVENTS))
    IN Filled(<<Len(name)>> \o Filled(name, MAX_NAME_LENGTH) \o <<Len(events)>>
                \o Flattened([i \in DOMAIN events |-> EncodeMacroEvent(events[i])], EVENT_SIZE),
              MACRO_SLOT_SIZE)

\* UTF-8: the bytes of a character by its first byte, and what may come second.
CharLength(first) ==
    CASE first \in 0..127   -> 1 [] first \in 194..223 -> 2
      [] first \in 224..239 -> 3 [] first \in 240..244 -> 4 [] OTHER -> 0
Second(first) ==
    CASE first = 224 -> 160..191 [] first = 237 -> 128..159
      [] first = 240 -> 144..191 [] first = 244 -> 128..143 [] OTHER -> 128..191

\* A character of UTF-8, whole or cut short after any of its bytes.
IsBegun(bytes) ==
    /\ Len(bytes) \in 1..CharLength(bytes[1])
    /\ Len(bytes) >= 2 => bytes[2] \in Second(bytes[1])
    /\ \A i \in 3..Len(bytes) : bytes[i] \in 128..191
IsChar(bytes) == IsBegun(bytes) /\ Len(bytes) = CharLength(bytes[1])

\* A character ends at byte n.
EndsChar(bytes, n) == \E k \in 1..MinOf(n, 4) : IsChar(SubSeq(bytes, n - k + 1, n))

\* A Rust string: every byte is one of a whole character's.
IsText(bytes) ==
    \A i \in 1..Len(bytes) :
        \E first, last \in 1..Len(bytes) :
            first <= i /\ i <= last /\ IsChar(SubSeq(bytes, first, last))

\* How many of the first n bytes are read together as the last piece of them: a character,
\* whole or cut short, or a single byte.
LastPiece(bytes, n) ==
    LET begun == {k \in 2..MinOf(n, 4) : IsBegun(SubSeq(bytes, n - k + 1, n))}
    IN  IF begun = {} THEN 1 ELSE CHOOSE k \in begun : TRUE

\* U+FFFD, the replacement character.
Replacement == <<239, 191, 189>>

\* from_utf8_lossy: what is not a whole character reads as U+FFFD; read[n] is what the
\* first n bytes read as.
Lossy ==
    [bytes \in Seq(Byte) |->
        LET read[n \in 0..Len(bytes)] ==
              IF n = 0 THEN << >>
              ELSE LET k     == LastPiece(bytes, n)
                       piece == SubSeq(bytes, n - k + 1, n)
                   IN  read[n - k] \o (IF IsChar(piece) THEN piece ELSE Replacement)
        IN  read[Len(bytes)]]

\* The name ends at its length or at a zero byte.
DecodeMacro(data) ==
    LET length == MinOf(data[1], MAX_NAME_LENGTH)
        ends   == {i \in 1..length : data[i + 1] = 0}
        stop   == IF ends = {} THEN length ELSE (CHOOSE i \in ends : \A j \in ends : i <= j) - 1
        events == Entries(data, 32, EVENT_SIZE, MinOf(data[32], MAX_MACRO_EVENTS))
    IN [name   |-> Lossy[SubSeq(data, 2, stop + 1)],
        events |-> ValidOnes([i \in DOMAIN events |-> DecodeMacroEvent(events[i])])]

\* MacroCycleMode: a count of 1 to 250, or one of three ways to end a loop.
CycleByte(mode) == IF mode \in 253..255 THEN mode ELSE Clamp(mode, 1, 250)

-----------------------------------------------------------------------------
(* The bits of StatusChangeFlags. *)

FlagBits ==
    [dpi |-> 1, report_rate |-> 2, profile |-> 4, dpi_settings |-> 8, light |-> 32,
     battery |-> 64]

Changed(flags) == {what \in DOMAIN FlagBits : (flags \div FlagBits[what]) % 2 = 1}
=============================================================================
