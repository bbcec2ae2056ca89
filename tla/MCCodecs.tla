----------------------------- MODULE MCCodecs -----------------------------
(* TLC instance of Codecs: every voltage, every DPI step and its neighbours, every kind of *)
(* key function, and macros and packets on both sides of their limits.                     *)
EXTENDS Codecs

Kind(kind, values) == {[kind |-> kind, v |-> v] : v \in values}

DpiValues == {n \in DPI_MIN..DPI_MAX : n % DPI_STEP \in {0, 1, 49}}

Keys ==
    {mouse_button(b) : b \in MouseButton} \cup {dpi_switch(m) : m \in DpiSwitchMode}
        \cup {scroll_wheel(d) : d \in ScrollDirection} \cup {fire_key(50, n) : n \in 0..3}
        \cup {shortcut_key(s) : s \in {0, 7}} \cup {macro_key(7, CycleByte(254))}
        \cup {report_rate_switch, DisabledKey}

MacroEvents(n) ==
    [i \in 1..n |-> [key_down |-> i % 2 = 1, key_type |-> IF i % 3 = 0 THEN 4 ELSE 1,
                     key_code |-> IF i % 3 = 0 THEN 16 ELSE 3 + i, delay_ms |-> 300 * i]]

\* A, a letter of two bytes, one of three, and two of four.
Letters == {<<65>>, <<195, 169>>, <<226, 130, 172>>, <<240, 159, 150, 177>>, <<244, 128, 129, 191>>}

\* A name that starts with n letters of one byte and goes on with a longer one.
NameWith(n, letter) == [i \in 1..n |-> 64 + i] \o letter \o letter

Macros ==
    {[name |-> [i \in 1..n |-> 64 + i], events |-> MacroEvents(m)]
        : n \in {0, 1, 30, 31}, m \in {0, 1, 70, 71}}
      \cup {[name |-> NameWith(n, letter), events |-> MacroEvents(2)]
              : n \in {0, 22, 24, 25, 26, 27, 28, 29, 30}, letter \in Letters}

Flash(cmd, address, length, data) ==
    [cmd |-> cmd, address |-> address, length |-> length, data |-> data]

Packets ==
    {Flash(CMD_WRITE_FLASH, a, MinOf(n, 10), [i \in 1..n |-> 255 - i])
        : a \in {OFFSET_DPI_COLORS, OFFSET_MACROS + 7 * MACRO_SLOT_SIZE}, n \in {1, 4, 10, 11}}
      \cup {Flash(CMD_WRITE_FLASH, OFFSET_SENSOR_MODE, 2, <<n, Complement(<<n>>)>>)
              : n \in {0, 85, 86}}
      \cup {Flash(CMD_READ_FLASH, OFFSET_MACROS + 3, n, << >>) : n \in {1, 10}}
      \cup {Flash(CMD_SET_LONG_RANGE, 0, 10, <<n>>) : n \in {0, 1}}
      \cup {Flash(cmd, 0, 1, <<1>>) : cmd \in {CMD_SET_CURRENT_CONFIG, CMD_CONFIG_FLAGS}}
      \cup {Flash(CMD_DEVICE_INFO, 0, 8, <<1, 2, 3, 4>>),
            Flash(CMD_DONGLE_ENTER_PAIR, 0, 2, <<0, 0>>)}
      \cup {Flash(cmd, 0, 0, << >>)
              : cmd \in {CMD_STATUS, CMD_BATTERY, CMD_GET_PAIR_STATE, CMD_CLEAR_SETTING,
                        CMD_GET_CURRENT_CONFIG, CMD_READ_VERSION, CMD_GET_LONG_RANGE,
                        CMD_DONGLE_VERSION}}

\* The codes of ShortcutKeyType: modifiers, keys, media keys.
ShortcutEvents ==
    {[key_down |-> down, key_type |-> t, key_code |-> c]
        : down \in BOOLEAN, t \in {0}, c \in ModifierKey}
      \cup {[key_down |-> TRUE, key_type |-> t, key_code |-> c] : t \in {1}, c \in HidKeyCode}
      \cup {[key_down |-> TRUE, key_type |-> t, key_code |-> c] : t \in {2}, c \in MediaKey}

OneMacroEvent ==
    {[key_down |-> down, key_type |-> 4, key_code |-> c, delay_ms |-> d]
        : down \in BOOLEAN, c \in MacroMouseButton, d \in {0, 255, 256, 65535}}

Ask(ask, values) == {[ask |-> ask, value |-> v] : v \in values}

Answered ==
    Ask("memory", {[i \in 1..n |-> 10 * i] : n \in {1, 4, 10}})
      \cup Ask("battery",
               {[voltage_mv |-> mv, percentage |-> voltage_to_percentage_table(mv),
                 charging |-> c, device_percentage |-> 42]
                  : mv \in {3009, 3700, 4197}, c \in BOOLEAN})
      \cup Ask("long distance", BOOLEAN) \cup Ask("online", BOOLEAN)
      \cup Ask("address", {<<1, 2, 3>>}) \cup Ask("profile", 0..3)
      \cup Ask("pairing", PairStatus \X {62})
      \cup Ask("handshake", [cid : {9}, mid : {8}, connection_type : ConnectionType])
      \cup Ask("mouse", {<<1, 35>>}) \cup Ask("receiver", {<<2, 34>>})

Stages(n)    == [i \in 1..n |-> [value |-> 50 * i, color |-> <<i, 255 - i, i>>]]
Switched(on) == [s \in Switches |-> on]

Configs ==
    {WithDefaults([polling_rate |-> rate, lift_off_distance |-> mm10,
                   sleep_timeout_seconds |-> 65535, dpi_stages |-> Stages(n),
                   current_dpi_index |-> n, motion_sync |-> TRUE, debounce_time |-> 30],
                  Switched(on))
        : rate \in PollingRate, mm10 \in LiftOffDistance, n \in {0, 8}, on \in BOOLEAN}

Messages ==
    {[ConfigToProto(config) EXCEPT !.sleep_timeout_seconds = 65546] : config \in Configs}

MCSubjects ==
    Kind("dpi", DpiValues) \cup Kind("color", {<<255, 85, 1>>}) \cup Kind("rate", PollingRate)
        \cup Kind("lift-off", LiftOffDistance) \cup Kind("sleep time", SleepTime)
        \cup Kind("next rate", PollingRate) \cup Kind("next lift-off", LiftOffDistance)
        \cup Kind("brightness", 0..12) \cup Kind("cycles", Byte) \cup Kind("key", Keys)
        \cup Kind("shortcut event", ShortcutEvents) \cup Kind("shortcut", {<< >>})
        \cup Kind("macro event", OneMacroEvent) \cup Kind("macro", Macros)
        \cup Kind("packet", Packets) \cup Kind("answer", Answered)
        \cup Kind("status", SUBSET DOMAIN FlagBits) \cup Kind("voltage", 2990..4220)
        \cup Kind("config", Configs) \cup Kind("profile", Messages)

MCKeyPresses ==
    {[type |-> 0, code |-> 2], [type |-> 2, code |-> 549]}

\* A bit that flips.
MCDamages == {2^k : k \in 0..7} \cup {256 - 2^k : k \in 0..7}
=============================================================================
