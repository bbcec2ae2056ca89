------------------------ MODULE MouseSettingsProofs ------------------------
(***************************************************************************)
(* Proofs about MouseSettings: whatever calls fail half-way, get_config    *)
(* can read the memory, what it reads can be applied again, a setting of   *)
(* one packet reads as before the call or as asked, and a call that        *)
(* reports success has done what it was asked and nothing else.            *)
(*                                                                         *)
(* For what holds at every moment a call is the set of its packets: which  *)
(* packets each setter sends (Packets), which of them leave the settings   *)
(* acceptable (Harmless), that every call sends only such packets          *)
(* (SafeScript), and what each of them does to each setting (Fits).        *)
(*                                                                         *)
(* For what a call has done in the end it is a path: the devices that its  *)
(* packets lead through (Leads), and what the last of them reads (Makes).  *)
(***************************************************************************)
EXTENDS MouseSettings, ConversionsProofs

-----------------------------------------------------------------------------
(* The packets of a script. *)

Packets(script)  == {script[i] : i \in DOMAIN script}
IsScript(script) == script \in Seq(Packets(script))

LEMMA NoPacket == IsScript(<< >>) /\ Packets(<< >>) = {}
  BY DEF IsScript, Packets

LEMMA OnePacket == ASSUME NEW p PROVE IsScript(<<p>>) /\ Packets(<<p>>) = {p}
  <1>1. DOMAIN <<p>> = {1} /\ <<p>>[1] = p  OBVIOUS
  <1>2. Packets(<<p>>) = {p}  BY <1>1 DEF Packets
  <1>3. <<p>> \in Seq({p})  OBVIOUS
  <1> QED  BY <1>2, <1>3 DEF IsScript

LEMMA Sequel ==
    ASSUME NEW s, NEW t, IsScript(s), IsScript(t)
    PROVE  IsScript(s \o t) /\ Packets(s \o t) = Packets(s) \cup Packets(t)
  <1> DEFINE S == Packets(s) \cup Packets(t)
  <1>1. s \in Seq(S) /\ t \in Seq(S)  BY DEF IsScript
  <1>2. /\ s \o t \in Seq(S)
        /\ DOMAIN (s \o t) = 1..(Len(s) + Len(t))
        /\ DOMAIN s = 1..Len(s) /\ DOMAIN t = 1..Len(t)
        /\ Len(s) \in Nat /\ Len(t) \in Nat
        /\ \A i \in DOMAIN (s \o t) :
             (s \o t)[i] = IF i <= Len(s) THEN s[i] ELSE t[i - Len(s)]
    <2> HIDE DEF S
    <2> QED  BY <1>1
  <1>3. Packets(s \o t) \subseteq S
    BY <1>2 DEF Packets
  <1>4. ASSUME NEW p \in Packets(s) PROVE p \in Packets(s \o t)
    <2>1. PICK i \in 1..Len(s) : p = s[i]  BY <1>2 DEF Packets
    <2>2. i \in DOMAIN (s \o t) /\ (s \o t)[i] = p  BY <1>2, <2>1
    <2> QED  BY <2>2 DEF Packets
  <1>5. ASSUME NEW p \in Packets(t) PROVE p \in Packets(s \o t)
    <2>1. PICK i \in 1..Len(t) : p = t[i]  BY <1>2 DEF Packets
    <2>2. i + Len(s) \in DOMAIN (s \o t) /\ (s \o t)[i + Len(s)] = p  BY <1>2, <2>1
    <2> QED  BY <2>2 DEF Packets
  <1>6. Packets(s \o t) = S  BY <1>3, <1>4, <1>5
  <1> QED  BY <1>2, <1>6 DEF IsScript

LEMMA Listed ==
    ASSUME NEW n \in Nat, NEW f, f = [k \in 1..n |-> f[k]]
    PROVE  IsScript(f) /\ Packets(f) = {f[k] : k \in 1..n}
  <1>1. DOMAIN f = 1..n  OBVIOUS
  <1>2. f \in [1..n -> Packets(f)]  BY <1>1 DEF Packets
  <1>3. f \in Seq(Packets(f))  BY <1>2
  <1> QED  BY <1>1, <1>3 DEF IsScript, Packets

LEMMA HeadAndTail ==
    ASSUME NEW script, IsScript(script), script # << >>
    PROVE  /\ Head(script) \in Packets(script)
           /\ IsScript(Tail(script)) /\ Packets(Tail(script)) \subseteq Packets(script)
  <1> DEFINE S == Packets(script)
  <1>1. script \in Seq(S)  BY DEF IsScript
  <1> HIDE DEF S
  <1>2. Head(script) \in S /\ Tail(script) \in Seq(S)  BY <1>1
  <1>3. DOMAIN Tail(script) = 1..Len(Tail(script)) /\ Len(Tail(script)) \in Nat  BY <1>2
  <1>4. Packets(Tail(script)) \subseteq S  BY <1>2, <1>3 DEF Packets
  <1>5. Tail(script) = [k \in 1..Len(Tail(script)) |-> Tail(script)[k]]
    <2> DEFINE t == Tail(script)
    <2>1. t \in Seq(S)  BY <1>2
    <2> HIDE DEF t
    <2>2. t \in [1..Len(t) -> S]  BY <2>1
    <2>3. t = [k \in 1..Len(t) |-> t[k]]  BY <2>2
    <2> QED  BY <2>3 DEF t
  <1>6. IsScript(Tail(script))  BY <1>3, <1>5, Listed
  <1> QED  BY <1>2, <1>4, <1>6 DEF S

ByteStep(offset, value)  == Step("store", "status", offset, <<value, calculate_data_checksum(value)>>)
FlashStep(address, data) == Step("store", "echo", address, data)
CommandStep(op, payload) == Step(op, "echo", 0, <<payload>>)
RejectStep               == Step("reject", "status", 0, << >>)

LEMMA PrimitivePackets ==
    /\ \A offset, value : /\ IsScript(write_memory(offset, value))
                          /\ Packets(write_memory(offset, value)) = {ByteStep(offset, value)}
    /\ \A offset, on : /\ IsScript(set_bool(offset, on))
                       /\ Packets(set_bool(offset, on)) = {ByteStep(offset, Flag(on))}
    /\ \A address, data : /\ IsScript(WriteFlash(address, data))
                          /\ Packets(WriteFlash(address, data)) = {FlashStep(address, data)}
                          /\ WriteFlash(address, data)[1] = FlashStep(address, data)
    /\ \A op, payload : /\ IsScript(SimpleCommand(op, payload))
                        /\ Packets(SimpleCommand(op, payload)) = {CommandStep(op, payload)}
    /\ IsScript(Reject) /\ Packets(Reject) = {RejectStep} /\ Reject[1] = RejectStep
  <1>1. \A offset, value : /\ IsScript(write_memory(offset, value))
                           /\ Packets(write_memory(offset, value)) = {ByteStep(offset, value)}
    BY OnePacket DEF write_memory, ByteStep
  <1>2. \A offset, on : /\ IsScript(set_bool(offset, on))
                        /\ Packets(set_bool(offset, on)) = {ByteStep(offset, Flag(on))}
    BY <1>1 DEF set_bool
  <1>3. \A address, data : /\ IsScript(WriteFlash(address, data))
                           /\ Packets(WriteFlash(address, data)) = {FlashStep(address, data)}
                           /\ WriteFlash(address, data)[1] = FlashStep(address, data)
    BY OnePacket DEF WriteFlash, FlashStep
  <1>4. \A op, payload : /\ IsScript(SimpleCommand(op, payload))
                         /\ Packets(SimpleCommand(op, payload)) = {CommandStep(op, payload)}
    BY OnePacket DEF SimpleCommand, CommandStep
  <1>5. IsScript(Reject) /\ Packets(Reject) = {RejectStep} /\ Reject[1] = RejectStep
    BY OnePacket DEF Reject, RejectStep
  <1> QED  BY <1>1, <1>2, <1>3, <1>4, <1>5

\* A setter that refuses its arguments sends nothing.
LEMMA UnlessPackets ==
    ASSUME NEW wrong, NEW script, IsScript(script)
    PROVE  /\ IsScript(Unless(wrong, script))
           /\ Packets(Unless(wrong, script)) \subseteq Packets(script) \cup {RejectStep}
           /\ ~wrong => Packets(Unless(wrong, script)) = Packets(script)
           /\ wrong => Packets(Unless(wrong, script)) = {RejectStep}
  BY PrimitivePackets DEF Unless

LEMMA ChunkPackets ==
    ASSUME NEW address \in Nat, NEW data, NEW size \in {32, 384}
    PROVE  /\ IsScript(WriteInChunks(address, data, size))
           /\ \A p \in Packets(WriteInChunks(address, data, size)) :
                p.op = "store" /\ p.address \in Nat /\ p.address >= address
  <1> DEFINE n == (size + 9) \div 10
             f == WriteInChunks(address, data, size)
  <1>1. n \in Nat  OBVIOUS
  <1>2. f = [k \in 1..n |-> f[k]]  BY DEF WriteInChunks
  <1>3. ASSUME NEW k \in 1..n
        PROVE  f[k].op = "store" /\ f[k].address \in Nat /\ f[k].address >= address
    BY <1>1 DEF WriteInChunks, Step
  <1> HIDE DEF n, f
  <1>4. IsScript(f) /\ Packets(f) = {f[k] : k \in 1..n}  BY <1>1, <1>2, Listed
  <1> QED  BY <1>3, <1>4 DEF f

DpiValueStep(stage, dpi) ==
    IF stage >= 8 \/ dpi \notin DPI_MIN..DPI_MAX THEN RejectStep
    ELSE FlashStep(12 + 4 * stage, encode_dpi(dpi))

DpiColorStep(stage, color) ==
    IF stage >= 8 THEN RejectStep ELSE FlashStep(44 + 4 * stage, encode_dpi_color(color))

LEMMA DpiPackets ==
    /\ \A stage, dpi : /\ IsScript(set_dpi_value(stage, dpi))
                       /\ Packets(set_dpi_value(stage, dpi)) = {DpiValueStep(stage, dpi)}
                       /\ set_dpi_value(stage, dpi)[1] = DpiValueStep(stage, dpi)
    /\ \A stage, color : /\ IsScript(set_dpi_color(stage, color))
                         /\ Packets(set_dpi_color(stage, color)) = {DpiColorStep(stage, color)}
                         /\ set_dpi_color(stage, color)[1] = DpiColorStep(stage, color)
  BY PrimitivePackets DEF set_dpi_value, set_dpi_color, DpiValueStep, DpiColorStep, Unless,
     OFFSET_DPI_VALUES, OFFSET_DPI_COLORS

LEMMA StagePackets ==
    ASSUME NEW stages, Len(stages) \in Nat
    PROVE  /\ IsScript(StageWrites(stages))
           /\ \A p \in Packets(StageWrites(stages)) :
                \E k \in 0..(Len(stages) - 1) : \/ p = DpiValueStep(k, stages[k + 1].value)
                                              \/ p = DpiColorStep(k, stages[k + 1].color)
  <1> DEFINE n == 2 * Len(stages)
             f == StageWrites(stages)
  <1>1. n \in Nat
    <2>1. \A m \in Nat : 2 * m \in Nat  OBVIOUS
    <2> QED  BY <2>1
  <1>2. f = [k \in 1..n |-> f[k]]  BY DEF StageWrites
  <1>3. ASSUME NEW k \in 1..n
        PROVE  \E j \in 0..(Len(stages) - 1) : \/ f[k] = DpiValueStep(j, stages[j + 1].value)
                                              \/ f[k] = DpiColorStep(j, stages[j + 1].color)
    <2> DEFINE j == (k - 1) \div 2
    <2>1. j \in 0..(Len(stages) - 1)
      <3>1. \A m \in Nat : \A i \in 1..(2 * m) : (i - 1) \div 2 \in 0..(m - 1)  OBVIOUS
      <3> QED  BY <3>1
    <2>2. f[k] = IF k % 2 = 1 THEN set_dpi_value(j, stages[j + 1].value)[1]
                 ELSE set_dpi_color(j, stages[j + 1].color)[1]
      BY DEF StageWrites
    <2> HIDE DEF f, j
    <2> QED  BY <2>1, <2>2, DpiPackets
  <1> HIDE DEF n, f
  <1>4. IsScript(f) /\ Packets(f) = {f[k] : k \in 1..n}  BY <1>1, <1>2, Listed
  <1>5. \A p \in Packets(f) :
          \E j \in 0..(Len(stages) - 1) : \/ p = DpiValueStep(j, stages[j + 1].value)
                                        \/ p = DpiColorStep(j, stages[j + 1].color)
    BY <1>3, <1>4
  <1> QED  BY <1>4, <1>5 DEF f

LEMMA SetterPackets ==
    /\ \A hz : /\ IsScript(set_polling_rate(hz))
               /\ Packets(set_polling_rate(hz)) = {ByteStep(0, PollingRateCode[hz])}
    /\ \A d : /\ IsScript(set_lift_off_distance(d))
              /\ Packets(set_lift_off_distance(d)) = {ByteStep(10, LiftOffCode[d])}
    /\ \A on : /\ IsScript(set_long_distance_mode(on))
               /\ Packets(set_long_distance_mode(on)) = {CommandStep("range", Flag(on))}
    /\ \A t : /\ IsScript(set_moving_off_light_time(t))
              /\ Packets(set_moving_off_light_time(t)) = {ByteStep(179, t)}
    /\ \A s : /\ IsScript(set_performance_time(s))
              /\ Packets(set_performance_time(s)) = {ByteStep(183, SleepTimeCode[s])}
    /\ \A mode : /\ IsScript(set_sensor_mode(mode))
                 /\ Packets(set_sensor_mode(mode)) = {ByteStep(185, mode)}
    /\ \A p : /\ IsScript(set_current_profile(p))
              /\ Packets(set_current_profile(p)) \subseteq {CommandStep("profile", p), RejectStep}
    /\ IsScript(factory_reset) /\ Packets(factory_reset) = {CommandStep("reset", 0)}
    /\ \A s : /\ IsScript(set_sleep_timeout(s))
              /\ Packets(set_sleep_timeout(s)) =
                   IF s > 2550 THEN {RejectStep}
                   ELSE {ByteStep(183, s \div 10), ByteStep(173, s \div 10)}
    /\ \A ms : /\ IsScript(set_debounce_time(ms))
               /\ Packets(set_debounce_time(ms)) =
                    IF ms > 30 THEN {RejectStep} ELSE {ByteStep(169, ms)}
    /\ \A n : /\ IsScript(set_dpi_count(n))
              /\ Packets(set_dpi_count(n)) =
                   IF n = 0 \/ n > 8 THEN {RejectStep} ELSE {ByteStep(2, n)}
    /\ \A n : /\ IsScript(set_current_dpi_index(n))
              /\ Packets(set_current_dpi_index(n)) =
                   IF n >= 8 THEN {RejectStep} ELSE {ByteStep(4, n)}
  <1>1. \A hz : /\ IsScript(set_polling_rate(hz))
                /\ Packets(set_polling_rate(hz)) = {ByteStep(0, PollingRateCode[hz])}
    BY PrimitivePackets DEF set_polling_rate, OFFSET_REPORT_RATE
  <1>2. \A d : /\ IsScript(set_lift_off_distance(d))
               /\ Packets(set_lift_off_distance(d)) = {ByteStep(10, LiftOffCode[d])}
    BY PrimitivePackets DEF set_lift_off_distance, OFFSET_LIFT_OFF_DISTANCE
  <1>3. \A on : /\ IsScript(set_long_distance_mode(on))
                /\ Packets(set_long_distance_mode(on)) = {CommandStep("range", Flag(on))}
    BY PrimitivePackets DEF set_long_distance_mode
  <1>4. \A t : /\ IsScript(set_moving_off_light_time(t))
               /\ Packets(set_moving_off_light_time(t)) = {ByteStep(179, t)}
    BY PrimitivePackets DEF set_moving_off_light_time, OFFSET_MOVING_OFF_LIGHT
  <1>5. \A s : /\ IsScript(set_performance_time(s))
               /\ Packets(set_performance_time(s)) = {ByteStep(183, SleepTimeCode[s])}
    BY PrimitivePackets DEF set_performance_time, OFFSET_PERFORMANCE_TIME
  <1>6. \A mode : /\ IsScript(set_sensor_mode(mode))
                  /\ Packets(set_sensor_mode(mode)) = {ByteStep(185, mode)}
    BY PrimitivePackets DEF set_sensor_mode, OFFSET_SENSOR_MODE
  <1>7. \A p : /\ IsScript(set_current_profile(p))
               /\ Packets(set_current_profile(p)) \subseteq {CommandStep("profile", p), RejectStep}
    BY PrimitivePackets DEF set_current_profile, Unless
  <1>8. IsScript(factory_reset) /\ Packets(factory_reset) = {CommandStep("reset", 0)}
    BY PrimitivePackets DEF factory_reset
  <1>9. ASSUME NEW s
        PROVE  /\ IsScript(set_sleep_timeout(s))
               /\ Packets(set_sleep_timeout(s)) =
                    IF s > 2550 THEN {RejectStep}
                    ELSE {ByteStep(183, s \div 10), ByteStep(173, s \div 10)}
    <2> DEFINE first  == write_memory(OFFSET_SLEEP_TIMEOUT_SECONDARY, s \div 10)
               second == write_memory(OFFSET_SLEEP_TIMEOUT, s \div 10)
    <2>1. /\ IsScript(first) /\ Packets(first) = {ByteStep(183, s \div 10)}
          /\ IsScript(second) /\ Packets(second) = {ByteStep(173, s \div 10)}
      BY PrimitivePackets
         DEF OFFSET_SLEEP_TIMEOUT_SECONDARY, OFFSET_PERFORMANCE_TIME, OFFSET_SLEEP_TIMEOUT
    <2>2. set_sleep_timeout(s) = Unless(s > 2550, first \o second)
      BY DEF set_sleep_timeout, MAX_SLEEP_TIMEOUT_SECONDS
    <2> HIDE DEF first, second
    <2>3. /\ IsScript(first \o second)
          /\ Packets(first \o second) = {ByteStep(183, s \div 10), ByteStep(173, s \div 10)}
      BY <2>1, Sequel
    <2>4. CASE s > 2550
      BY <2>2, <2>4, PrimitivePackets DEF Unless
    <2>5. CASE ~(s > 2550)
      BY <2>2, <2>3, <2>5 DEF Unless
    <2> QED  BY <2>4, <2>5
  <1>10. \A ms : /\ IsScript(set_debounce_time(ms))
                 /\ Packets(set_debounce_time(ms)) =
                      IF ms > 30 THEN {RejectStep} ELSE {ByteStep(169, ms)}
    BY PrimitivePackets DEF set_debounce_time, Unless, OFFSET_DEBOUNCE_TIME
  <1>11. \A n : /\ IsScript(set_dpi_count(n))
                /\ Packets(set_dpi_count(n)) =
                     IF n = 0 \/ n > 8 THEN {RejectStep} ELSE {ByteStep(2, n)}
    BY PrimitivePackets DEF set_dpi_count, Unless, OFFSET_MAX_DPI
  <1>12. \A n : /\ IsScript(set_current_dpi_index(n))
                /\ Packets(set_current_dpi_index(n)) =
                     IF n >= 8 THEN {RejectStep} ELSE {ByteStep(4, n)}
    BY PrimitivePackets DEF set_current_dpi_index, Unless, OFFSET_CURRENT_DPI
  <1> QED
    BY <1>1, <1>2, <1>3, <1>4, <1>5, <1>6, <1>7, <1>8, <1>9, <1>10, <1>11, <1>12

LEMMA GroupPackets ==
    /\ \A light : /\ IsScript(set_light_settings(light))
                  /\ Packets(set_light_settings(light)) =
                       {FlashStep(160, <<light.mode>> \o light.color
                                         \o <<light.speed, light.brightness, 0>>),
                        ByteStep(167, Flag(light.enabled))}
    /\ \A e : /\ IsScript(set_dpi_effect_settings(e))
              /\ Packets(set_dpi_effect_settings(e)) =
                   {ByteStep(76, e.mode), ByteStep(78, encode_brightness(e.brightness)),
                    ByteStep(80, Clamp(e.speed, 1, 10)), ByteStep(82, Flag(e.enabled))}
    /\ \A key, f : /\ IsScript(set_key_function(key, f))
                   /\ Packets(set_key_function(key, f)) =
                        IF key >= 8 THEN {RejectStep} ELSE {FlashStep(96 + 4 * key, EncodeKey(f))}
    /\ \A slot \in Nat : \A x :
         /\ IsScript(set_shortcut_key(slot, x)) /\ IsScript(set_macro(slot, x))
         /\ \A p \in Packets(set_shortcut_key(slot, x)) \cup Packets(set_macro(slot, x)) :
              \/ p = RejectStep
              \/ p.op = "store" /\ p.address \in Nat /\ p.address >= 256
  <1>1. ASSUME NEW light
        PROVE  /\ IsScript(set_light_settings(light))
               /\ Packets(set_light_settings(light)) =
                    {FlashStep(160, <<light.mode>> \o light.color
                                      \o <<light.speed, light.brightness, 0>>),
                     ByteStep(167, Flag(light.enabled))}
    BY PrimitivePackets, Sequel DEF set_light_settings, OFFSET_LIGHT_SETTINGS, OFFSET_LIGHT_STATE
  <1>2. ASSUME NEW e
        PROVE  /\ IsScript(set_dpi_effect_settings(e))
               /\ Packets(set_dpi_effect_settings(e)) =
                    {ByteStep(76, e.mode), ByteStep(78, encode_brightness(e.brightness)),
                     ByteStep(80, Clamp(e.speed, 1, 10)), ByteStep(82, Flag(e.enabled))}
    <2> DEFINE a == write_memory(76, e.mode)
               b == write_memory(78, encode_brightness(e.brightness))
               c == write_memory(80, Clamp(e.speed, 1, 10))
               d == set_bool(82, e.enabled)
    <2>1. /\ IsScript(a) /\ Packets(a) = {ByteStep(76, e.mode)}
          /\ IsScript(b) /\ Packets(b) = {ByteStep(78, encode_brightness(e.brightness))}
          /\ IsScript(c) /\ Packets(c) = {ByteStep(80, Clamp(e.speed, 1, 10))}
          /\ IsScript(d) /\ Packets(d) = {ByteStep(82, Flag(e.enabled))}
      BY PrimitivePackets
    <2>2. set_dpi_effect_settings(e) = a \o b \o c \o d
      BY DEF set_dpi_effect_settings, OFFSET_DPI_EFFECT_MODE, OFFSET_DPI_EFFECT_BRIGHTNESS,
         OFFSET_DPI_EFFECT_SPEED, OFFSET_DPI_EFFECT_STATE
    <2> HIDE DEF a, b, c, d
    <2>3. IsScript(a \o b) /\ Packets(a \o b) = Packets(a) \cup Packets(b)  BY <2>1, Sequel
    <2>4. IsScript(a \o b \o c) /\ Packets(a \o b \o c) = Packets(a \o b) \cup Packets(c)
      BY <2>1, <2>3, Sequel
    <2>5. IsScript(a \o b \o c \o d)
            /\ Packets(a \o b \o c \o d) = Packets(a \o b \o c) \cup Packets(d)
      BY <2>1, <2>4, Sequel
    <2> QED  BY <2>1, <2>2, <2>3, <2>4, <2>5
  <1>3. ASSUME NEW key, NEW f
        PROVE  /\ IsScript(set_key_function(key, f))
               /\ Packets(set_key_function(key, f)) =
                    IF key >= 8 THEN {RejectStep} ELSE {FlashStep(96 + 4 * key, EncodeKey(f))}
    BY PrimitivePackets DEF set_key_function, Unless, OFFSET_KEY_FUNCTIONS
  <1>4. ASSUME NEW slot \in Nat, NEW x
        PROVE  /\ IsScript(set_shortcut_key(slot, x))
               /\ \A p \in Packets(set_shortcut_key(slot, x)) :
                    \/ p = RejectStep
                    \/ p.op = "store" /\ p.address \in Nat /\ p.address >= 256
    <2> DEFINE address == ShortcutAddress(slot)
               script  == WriteInChunks(address, EncodeShortcut(x), 32)
    <2>1. address \in Nat /\ address >= 256
      BY DEF ShortcutAddress, OFFSET_SHORTCUT_KEYS, SHORTCUT_KEY_SLOT_SIZE
    <2>2. /\ IsScript(script)
          /\ \A p \in Packets(script) :
               p.op = "store" /\ p.address \in Nat /\ p.address >= address
      <3> HIDE DEF address
      <3> QED  BY <2>1, ChunkPackets
    <2>3. set_shortcut_key(slot, x) = Unless(slot >= 8, script)
      BY DEF set_shortcut_key, SHORTCUT_KEY_SLOT_SIZE
    <2> HIDE DEF address, script
    <2>4. \A p \in Packets(script) : p.op = "store" /\ p.address \in Nat /\ p.address >= 256
      BY <2>1, <2>2
    <2> QED  BY <2>2, <2>3, <2>4, PrimitivePackets DEF Unless
  <1>5. ASSUME NEW slot \in Nat, NEW x
        PROVE  /\ IsScript(set_macro(slot, x))
               /\ \A p \in Packets(set_macro(slot, x)) :
                    \/ p = RejectStep
                    \/ p.op = "store" /\ p.address \in Nat /\ p.address >= 256
    <2> DEFINE address == MacroAddress(slot)
               script  == WriteInChunks(address, EncodeMacro(x), 384)
    <2>1. address \in Nat /\ address >= 256
      BY DEF MacroAddress, OFFSET_MACROS, MACRO_SLOT_SIZE
    <2>2. /\ IsScript(script)
          /\ \A p \in Packets(script) :
               p.op = "store" /\ p.address \in Nat /\ p.address >= address
      <3> HIDE DEF address
      <3> QED  BY <2>1, ChunkPackets
    <2>3. set_macro(slot, x) = Unless(slot >= 8, script)
      BY DEF set_macro, MACRO_SLOT_SIZE
    <2> HIDE DEF address, script
    <2>4. \A p \in Packets(script) : p.op = "store" /\ p.address \in Nat /\ p.address >= 256
      BY <2>1, <2>2
    <2> QED  BY <2>2, <2>3, <2>4, PrimitivePackets DEF Unless
  <1> QED  BY <1>1, <1>2, <1>3, <1>4, <1>5

\* What set_config says about the stages.
LEMMA DpiWritesPackets ==
    ASSUME NEW config, Len(config.dpi_stages) \in Nat
    PROVE  /\ IsScript(DpiWrites(config))
           /\ config.dpi_stages = << >> => Packets(DpiWrites(config)) = {}
           /\ config.dpi_stages # << >> =>
                Packets(DpiWrites(config)) =
                  Packets(set_dpi_count(Len(config.dpi_stages) % 256))
                    \cup Packets(StageWrites(config.dpi_stages))
                    \cup Packets(set_current_dpi_index(config.current_dpi_index))
  <1> DEFINE n == Len(config.dpi_stages) % 256
             a == set_dpi_count(n)
             b == StageWrites(config.dpi_stages)
             c == set_current_dpi_index(config.current_dpi_index)
  <1>1. IsScript(a) /\ IsScript(b) /\ IsScript(c)
    <2>1. IsScript(a)
      <3> HIDE DEF n
      <3> QED  BY SetterPackets
    <2>2. IsScript(b)  BY StagePackets
    <2>3. IsScript(c)  BY SetterPackets
    <2> QED  BY <2>1, <2>2, <2>3
  <1>2. DpiWrites(config) = IF config.dpi_stages = << >> THEN << >> ELSE a \o b \o c
    BY DEF DpiWrites
  <1> HIDE DEF a, b, c
  <1>3. IsScript(a \o b) /\ Packets(a \o b) = Packets(a) \cup Packets(b)  BY <1>1, Sequel
  <1>4. IsScript(a \o b \o c) /\ Packets(a \o b \o c) = Packets(a \o b) \cup Packets(c)
    BY <1>1, <1>3, Sequel
  <1>5. CASE config.dpi_stages = << >>
    BY <1>2, <1>5, NoPacket
  <1>6. CASE config.dpi_stages # << >>
    <2>1. DpiWrites(config) = a \o b \o c  BY <1>2, <1>6
    <2>2. /\ IsScript(DpiWrites(config))
          /\ Packets(DpiWrites(config)) = Packets(a) \cup Packets(b) \cup Packets(c)
      BY <1>3, <1>4, <2>1
    <2> QED  BY <1>6, <2>2 DEF a, b, c
  <1> QED  BY <1>5, <1>6

LEMMA ConfigPackets ==
    ASSUME NEW config, Len(config.dpi_stages) \in Nat
    PROVE  /\ IsScript(set_config(config))
           /\ Packets(set_config(config)) =
                {ByteStep(0, PollingRateCode[config.polling_rate]),
                 ByteStep(10, LiftOffCode[config.lift_off_distance]),
                 ByteStep(175, Flag(config.angle_snapping)),
                 ByteStep(177, Flag(config.ripple_control)),
                 ByteStep(181, Flag(config.high_speed_mode)),
                 CommandStep("range", Flag(config.long_distance_mode)),
                 ByteStep(171, Flag(config.motion_sync)),
                 ByteStep(179, config.moving_off_light_time),
                 ByteStep(183, SleepTimeCode[config.performance_time]),
                 ByteStep(185, config.sensor_mode),
                 ByteStep(8, Flag(config.sensor_20k))}
                \cup Packets(set_sleep_timeout(config.sleep_timeout_seconds))
                \cup Packets(set_debounce_time(config.debounce_time))
                \cup Packets(DpiWrites(config))
  <1> DEFINE s1  == set_polling_rate(config.polling_rate)
             s2  == set_lift_off_distance(config.lift_off_distance)
             s3  == set_sleep_timeout(config.sleep_timeout_seconds)
             s4  == set_bool(175, config.angle_snapping)
             s5  == set_bool(177, config.ripple_control)
             s6  == set_bool(181, config.high_speed_mode)
             s7  == set_long_distance_mode(config.long_distance_mode)
             s8  == set_debounce_time(config.debounce_time)
             s9  == set_bool(171, config.motion_sync)
             s10 == set_moving_off_light_time(config.moving_off_light_time)
             s11 == set_performance_time(config.performance_time)
             s12 == set_sensor_mode(config.sensor_mode)
             s13 == set_bool(8, config.sensor_20k)
             s14 == DpiWrites(config)
             t2  == s1 \o s2
             t3  == t2 \o s3
             t4  == t3 \o s4
             t5  == t4 \o s5
             t6  == t5 \o s6
             t7  == t6 \o s7
             t8  == t7 \o s8
             t9  == t8 \o s9
             t10 == t9 \o s10
             t11 == t10 \o s11
             t12 == t11 \o s12
             t13 == t12 \o s13
             t14 == t13 \o s14
  <1>1. set_config(config) = t14
    BY DEF set_config, OFFSET_ANGLE_SNAPPING, OFFSET_RIPPLE_CONTROL, OFFSET_HIGH_SPEED_MODE,
       OFFSET_MOTION_SYNC, OFFSET_SENSOR_20K
  <1>2. /\ IsScript(s1) /\ Packets(s1) = {ByteStep(0, PollingRateCode[config.polling_rate])}
        /\ IsScript(s2) /\ Packets(s2) = {ByteStep(10, LiftOffCode[config.lift_off_distance])}
        /\ IsScript(s7) /\ Packets(s7) = {CommandStep("range", Flag(config.long_distance_mode))}
        /\ IsScript(s10) /\ Packets(s10) = {ByteStep(179, config.moving_off_light_time)}
        /\ IsScript(s11)
        /\ Packets(s11) = {ByteStep(183, SleepTimeCode[config.performance_time])}
        /\ IsScript(s12) /\ Packets(s12) = {ByteStep(185, config.sensor_mode)}
        /\ IsScript(s3) /\ IsScript(s8)
    BY SetterPackets
  <1>3. /\ IsScript(s4) /\ Packets(s4) = {ByteStep(175, Flag(config.angle_snapping))}
        /\ IsScript(s5) /\ Packets(s5) = {ByteStep(177, Flag(config.ripple_control))}
        /\ IsScript(s6) /\ Packets(s6) = {ByteStep(181, Flag(config.high_speed_mode))}
        /\ IsScript(s9) /\ Packets(s9) = {ByteStep(171, Flag(config.motion_sync))}
        /\ IsScript(s13) /\ Packets(s13) = {ByteStep(8, Flag(config.sensor_20k))}
    BY PrimitivePackets
  <1>4. IsScript(s14)  BY DpiWritesPackets
  <1> HIDE DEF s1, s2, s3, s4, s5, s6, s7, s8, s9, s10, s11, s12, s13, s14
  <1>5. IsScript(t2) /\ Packets(t2) = Packets(s1) \cup Packets(s2)  BY <1>2, Sequel
  <1> HIDE DEF t2
  <1>6. IsScript(t3) /\ Packets(t3) = Packets(t2) \cup Packets(s3)  BY <1>2, <1>5, Sequel
  <1> HIDE DEF t3
  <1>7. IsScript(t4) /\ Packets(t4) = Packets(t3) \cup Packets(s4)  BY <1>3, <1>6, Sequel
  <1> HIDE DEF t4
  <1>8. IsScript(t5) /\ Packets(t5) = Packets(t4) \cup Packets(s5)  BY <1>3, <1>7, Sequel
  <1> HIDE DEF t5
  <1>9. IsScript(t6) /\ Packets(t6) = Packets(t5) \cup Packets(s6)  BY <1>3, <1>8, Sequel
  <1> HIDE DEF t6
  <1>10. IsScript(t7) /\ Packets(t7) = Packets(t6) \cup Packets(s7)  BY <1>2, <1>9, Sequel
  <1> HIDE DEF t7
  <1>11. IsScript(t8) /\ Packets(t8) = Packets(t7) \cup Packets(s8)  BY <1>2, <1>10, Sequel
  <1> HIDE DEF t8
  <1>12. IsScript(t9) /\ Packets(t9) = Packets(t8) \cup Packets(s9)  BY <1>3, <1>11, Sequel
  <1> HIDE DEF t9
  <1>13. IsScript(t10) /\ Packets(t10) = Packets(t9) \cup Packets(s10)  BY <1>2, <1>12, Sequel
  <1> HIDE DEF t10
  <1>14. IsScript(t11) /\ Packets(t11) = Packets(t10) \cup Packets(s11)  BY <1>2, <1>13, Sequel
  <1> HIDE DEF t11
  <1>15. IsScript(t12) /\ Packets(t12) = Packets(t11) \cup Packets(s12)  BY <1>2, <1>14, Sequel
  <1> HIDE DEF t12
  <1>16. IsScript(t13) /\ Packets(t13) = Packets(t12) \cup Packets(s13)  BY <1>3, <1>15, Sequel
  <1> HIDE DEF t13
  <1>17. IsScript(t14) /\ Packets(t14) = Packets(t13) \cup Packets(s14)  BY <1>4, <1>16, Sequel
  <1> HIDE DEF t14
  <1>18. Packets(t14) =
           (Packets(s1) \cup Packets(s2) \cup Packets(s4) \cup Packets(s5) \cup Packets(s6)
             \cup Packets(s7) \cup Packets(s9) \cup Packets(s10) \cup Packets(s11)
             \cup Packets(s12) \cup Packets(s13))
            \cup Packets(s3) \cup Packets(s8) \cup Packets(s14)
    BY <1>5, <1>6, <1>7, <1>8, <1>9, <1>10, <1>11, <1>12, <1>13, <1>14, <1>15, <1>16, <1>17
  <1>19. set_config(config) = t14 /\ IsScript(t14)  BY <1>1, <1>17
  <1> QED  BY <1>2, <1>3, <1>18, <1>19 DEF s3, s8, s14

-----------------------------------------------------------------------------
(* The memory after a write. *)

LEMMA AtElsewhere ==
    ASSUME NEW mem, NEW address \in Nat, NEW data, Len(data) \in Nat, NEW a \in Nat,
           a < address \/ a >= address + Len(data)
    PROVE  At(Overlay(mem, address, data), a) = At(mem, a)
  BY DEF Overlay, At

LEMMA AtWritten ==
    ASSUME NEW mem, NEW address \in Nat, NEW data, Len(data) \in Nat, NEW a \in Nat,
           a >= address, a < address + Len(data)
    PROVE  At(Overlay(mem, address, data), a) = data[a - address + 1]
  BY DEF Overlay, At

LEMMA ReadElsewhere ==
    ASSUME NEW mem, NEW address \in Nat, NEW data, Len(data) \in Nat,
           NEW offset \in Nat, NEW n \in Nat,
           offset + n <= address \/ address + Len(data) <= offset
    PROVE  read_memory(Overlay(mem, address, data), offset, n) = read_memory(mem, offset, n)
  <1>1. ASSUME NEW i \in 1..n
        PROVE  At(Overlay(mem, address, data), offset + i - 1) = At(mem, offset + i - 1)
    <2>1. /\ offset + i - 1 \in Nat
          /\ offset + i - 1 < address \/ offset + i - 1 >= address + Len(data)
      OBVIOUS
    <2> QED  BY <2>1, AtElsewhere
  <1> QED  BY <1>1 DEF read_memory

\* The bytes of data are found from the address on.
Found(mem, address, data) == \A i \in 1..Len(data) : At(mem, address + i - 1) = data[i]

LEMMA WrittenIsFound ==
    ASSUME NEW mem, NEW address \in Nat, NEW data, Len(data) \in Nat
    PROVE  Found(Overlay(mem, address, data), address, data)
  <1>1. ASSUME NEW i \in 1..Len(data)
        PROVE  At(Overlay(mem, address, data), address + i - 1) = data[i]
    <2>1. /\ address + i - 1 \in Nat /\ (address + i - 1) - address + 1 = i
          /\ address + i - 1 >= address /\ address + i - 1 < address + Len(data)
      OBVIOUS
    <2>2. At(Overlay(mem, address, data), address + i - 1)
            = data[(address + i - 1) - address + 1]
      BY <2>1, AtWritten
    <2> QED  BY <2>1, <2>2
  <1> QED  BY <1>1 DEF Found

FirstThree(data) == [i \in 1..3 |-> data[i]]

RateCodes     == {PollingRateCode[hz] : hz \in PollingRate}
DistanceCodes == {LiftOffCode[d] : d \in LiftOffDistance}

\* A byte that the settings kept at its address may have.
LegalByte(offset, value) ==
    \/ offset = 0 /\ value \in RateCodes
    \/ offset = 2 /\ value \in 0..8
    \/ offset = 4 /\ value \in 0..7
    \/ offset = 10 /\ value \in DistanceCodes
    \/ offset = 169 /\ value \in 0..30
    \/ offset \in {173, 179} /\ value \in Byte
    \/ offset \in {8, 171, 175, 177, 181, 183, 185} \cup 76..167

LEMMA LegalValues ==
    /\ \A v : LegalByte(0, v) => v \in RateCodes
    /\ \A v : LegalByte(2, v) => v \in 0..8
    /\ \A v : LegalByte(4, v) => v \in 0..7
    /\ \A v : LegalByte(10, v) => v \in DistanceCodes
    /\ \A v : LegalByte(169, v) => v \in 0..30
    /\ \A v : LegalByte(173, v) => v \in Byte
    /\ \A v : LegalByte(179, v) => v \in Byte
  <1>1. \A n \in {0, 2, 4, 10, 169, 173, 179} :
          n \notin {8, 171, 175, 177, 181, 183, 185} \cup 76..167
    OBVIOUS
  <1> DEFINE Other == {8, 171, 175, 177, 181, 183, 185} \cup 76..167
  <1>2. \A n, v : LegalByte(n, v) <=>
          \/ n = 0 /\ v \in RateCodes
          \/ n = 2 /\ v \in 0..8
          \/ n = 4 /\ v \in 0..7
          \/ n = 10 /\ v \in DistanceCodes
          \/ n = 169 /\ v \in 0..30
          \/ n \in {173, 179} /\ v \in Byte
          \/ n \in Other
    BY DEF LegalByte
  <1>3. \A n \in {0, 2, 4, 10, 169, 173, 179} : n \notin Other  BY <1>1
  <1> HIDE DEF Other
  <1> QED  BY <1>2, <1>3

\* A write that leaves the settings acceptable.
Harmless(address, data) ==
    \/ address \in Nat /\ address >= 187
    \/ address = 160 /\ Len(data) = 7
    \/ Len(data) = 2 /\ LegalByte(address, data[1])
    \/ Len(data) = 4 /\ \E k \in 0..7 :
         \/ address = 12 + 4 * k /\ decode_dpi(data) \in DPI_MIN..DPI_MAX
         \/ address = 44 + 4 * k /\ FirstThree(data) \in Color
         \/ address = 96 + 4 * k

LEMMA AcceptableIs ==
    ASSUME NEW mem
    PROVE  AcceptableIn(mem) <=>
             /\ At(mem, 0) \in RateCodes
             /\ At(mem, 2) \in 0..8
             /\ At(mem, 4) \in 0..7
             /\ At(mem, 10) \in DistanceCodes
             /\ At(mem, 169) \in 0..30
             /\ At(mem, 173) \in Byte
             /\ At(mem, 179) \in Byte
             /\ \A k \in 0..7 : /\ decode_dpi(read_memory(mem, 12 + 4 * k, 4)) \in DPI_MIN..DPI_MAX
                               /\ read_memory(mem, 44 + 4 * k, 3) \in Color
  BY DEF AcceptableIn, ReadableIn, RateCodes, DistanceCodes, OFFSET_REPORT_RATE, OFFSET_MAX_DPI,
     OFFSET_CURRENT_DPI, OFFSET_LIFT_OFF_DISTANCE, OFFSET_DEBOUNCE_TIME, OFFSET_SLEEP_TIMEOUT,
     OFFSET_MOVING_OFF_LIGHT, OFFSET_DPI_VALUES, OFFSET_DPI_COLORS, get_dpi_value, get_dpi_color

\* Bytes first to last-1 are not among the n bytes at an address.
Clear(first, last, address, n) == last <= address \/ address + n <= first

\* Where the writes of at most seven bytes begin and end, and what is known of their data.
Shape(address, n, legal, dpi, color) ==
    \/ address = 160 /\ n = 7
    \/ /\ n = 2 /\ legal
       /\ address \in {0, 2, 4, 8, 10, 169, 171, 173, 175, 177, 179, 181, 183, 185} \cup 76..167
    \/ /\ n = 4
       /\ \E k \in 0..7 : \/ address = 12 + 4 * k /\ dpi
                          \/ address = 44 + 4 * k /\ color
                          \/ address = 96 + 4 * k

\* They touch no setting but the one they are for.
Sparing(address, n, legal, dpi, color) ==
    /\ \A k \in 0..7 :
         Clear(12 + 4 * k, 12 + 4 * k + 4, address, n) \/ (address = 12 + 4 * k /\ n = 4 /\ dpi)
    /\ \A k \in 0..7 :
         Clear(44 + 4 * k, 44 + 4 * k + 3, address, n) \/ (address = 44 + 4 * k /\ n = 4 /\ color)
    /\ \A a \in {0, 2, 4, 10, 169, 173, 179} :
         Clear(a, a + 1, address, n) \/ (address = a /\ n = 2 /\ legal)

LEMMA Apart ==
    ASSUME NEW address \in Nat, NEW n \in Nat, NEW legal \in BOOLEAN,
           NEW dpi \in BOOLEAN, NEW color \in BOOLEAN,
           Shape(address, n, legal, dpi, color)
    PROVE  Sparing(address, n, legal, dpi, color)
  <1>1. CASE address = 160 /\ n = 7  BY <1>1 DEF Clear, Sparing
  <1>2. CASE /\ n = 2 /\ legal
             /\ address \in {0, 2, 4, 8, 10, 169, 171, 173, 175, 177, 179, 181, 183, 185}
                             \cup 76..167
    BY <1>2 DEF Clear, Sparing
  <1>3. ASSUME n = 4, NEW k \in 0..7,
               \/ address = 12 + 4 * k /\ dpi
               \/ address = 44 + 4 * k /\ color
               \/ address = 96 + 4 * k
        PROVE  Sparing(address, n, legal, dpi, color)
    <2>1. address >= 12 /\ address + n <= 128  BY <1>3
    <2>2. \A a \in {0, 2, 4, 10, 169, 173, 179} : Clear(a, a + 1, address, n)
      BY <2>1 DEF Clear
    <2>3. ASSUME NEW j \in 0..7
          PROVE  Clear(12 + 4 * j, 12 + 4 * j + 4, address, n)
                   \/ (address = 12 + 4 * j /\ n = 4 /\ dpi)
      <3>1. CASE address = 12 + 4 * k /\ dpi
        <4>1. CASE j = k  BY <1>3, <3>1, <4>1
        <4>2. CASE j < k  BY <1>3, <3>1, <4>2 DEF Clear
        <4>3. CASE j > k  BY <1>3, <3>1, <4>3 DEF Clear
        <4> QED  BY <4>1, <4>2, <4>3
      <3>2. CASE address >= 44  BY <3>2 DEF Clear
      <3> QED  BY <1>3, <3>1, <3>2
    <2>4. ASSUME NEW j \in 0..7
          PROVE  Clear(44 + 4 * j, 44 + 4 * j + 3, address, n)
                   \/ (address = 44 + 4 * j /\ n = 4 /\ color)
      <3>1. CASE address = 44 + 4 * k /\ color
        <4>1. CASE j = k  BY <1>3, <3>1, <4>1
        <4>2. CASE j < k  BY <1>3, <3>1, <4>2 DEF Clear
        <4>3. CASE j > k  BY <1>3, <3>1, <4>3 DEF Clear
        <4> QED  BY <4>1, <4>2, <4>3
      <3>2. CASE address + n <= 44  BY <3>2 DEF Clear
      <3>3. CASE address >= 96  BY <3>3 DEF Clear
      <3> QED  BY <1>3, <3>1, <3>2, <3>3
    <2> QED  BY <1>3, <2>2, <2>3, <2>4 DEF Sparing
  <1>4. CASE n = 4
    <2>1. PICK k \in 0..7 : \/ address = 12 + 4 * k /\ dpi
                            \/ address = 44 + 4 * k /\ color
                            \/ address = 96 + 4 * k
      BY <1>4 DEF Shape
    <2> QED  BY <1>3, <1>4, <2>1
  <1> QED  BY <1>1, <1>2, <1>4 DEF Shape

\* A write of a few bytes touches no setting but the one it is for, and that one rightly.
Spares(address, data) ==
    /\ \A k \in 0..7 :
         Clear(12 + 4 * k, 12 + 4 * k + 4, address, Len(data))
           \/ (address = 12 + 4 * k /\ Len(data) = 4 /\ decode_dpi(data) \in DPI_MIN..DPI_MAX)
    /\ \A k \in 0..7 :
         Clear(44 + 4 * k, 44 + 4 * k + 3, address, Len(data))
           \/ (address = 44 + 4 * k /\ Len(data) = 4 /\ FirstThree(data) \in Color)
    /\ \A a \in {0, 2, 4, 10, 169, 173, 179} :
         Clear(a, a + 1, address, Len(data))
           \/ (address = a /\ Len(data) = 2 /\ LegalByte(address, data[1]))

LEMMA ShortWriteKeeps ==
    ASSUME NEW mem, NEW address \in Nat, NEW data, AcceptableIn(mem), Len(data) \in Nat,
           Spares(address, data)
    PROVE  AcceptableIn(Overlay(mem, address, data))
  <1> DEFINE after == Overlay(mem, address, data)
  <1>0. Found(after, address, data)  BY WrittenIsFound
  <1>1. ASSUME NEW k \in 0..7
        PROVE  decode_dpi(read_memory(after, 12 + 4 * k, 4)) \in DPI_MIN..DPI_MAX
    <2>1. decode_dpi(read_memory(mem, 12 + 4 * k, 4)) \in DPI_MIN..DPI_MAX  BY AcceptableIs
    <2>2. 12 + 4 * k \in Nat  OBVIOUS
    <2>3. CASE Clear(12 + 4 * k, 12 + 4 * k + 4, address, Len(data))
      BY <2>1, <2>2, <2>3, ReadElsewhere DEF Clear
    <2>4. CASE address = 12 + 4 * k /\ Len(data) = 4 /\ decode_dpi(data) \in DPI_MIN..DPI_MAX
      <3>1. \A i \in 1..4 : At(after, address + i - 1) = data[i]
        <4> HIDE DEF after
        <4> QED  BY <1>0, <2>4 DEF Found
      <3>2. decode_dpi(read_memory(after, address, 4)) = decode_dpi(data)
        <4> HIDE DEF after
        <4> QED  BY <3>1 DEF read_memory, decode_dpi
      <3> HIDE DEF after
      <3> QED  BY <2>4, <3>2
    <2>5. \/ Clear(12 + 4 * k, 12 + 4 * k + 4, address, Len(data))
          \/ address = 12 + 4 * k /\ Len(data) = 4 /\ decode_dpi(data) \in DPI_MIN..DPI_MAX
      BY DEF Spares
    <2> QED  BY <2>3, <2>4, <2>5
  <1>2. ASSUME NEW k \in 0..7
        PROVE  read_memory(after, 44 + 4 * k, 3) \in Color
    <2>1. read_memory(mem, 44 + 4 * k, 3) \in Color  BY AcceptableIs
    <2>2. 44 + 4 * k \in Nat  OBVIOUS
    <2>3. CASE Clear(44 + 4 * k, 44 + 4 * k + 3, address, Len(data))
      BY <2>1, <2>2, <2>3, ReadElsewhere DEF Clear
    <2>4. CASE address = 44 + 4 * k /\ Len(data) = 4 /\ FirstThree(data) \in Color
      <3>1. \A i \in 1..3 : At(after, address + i - 1) = data[i]
        <4> HIDE DEF after
        <4> QED  BY <1>0, <2>4 DEF Found
      <3>2. read_memory(after, address, 3) = FirstThree(data)
        <4> HIDE DEF after
        <4> QED  BY <3>1 DEF read_memory, FirstThree
      <3> HIDE DEF after
      <3> QED  BY <2>4, <3>2
    <2>5. \/ Clear(44 + 4 * k, 44 + 4 * k + 3, address, Len(data))
          \/ address = 44 + 4 * k /\ Len(data) = 4 /\ FirstThree(data) \in Color
      BY DEF Spares
    <2> QED  BY <2>3, <2>4, <2>5
  <1>3. ASSUME NEW a \in {0, 2, 4, 10, 169, 173, 179}
        PROVE  At(after, a) = At(mem, a) \/ LegalByte(a, At(after, a))
    <2>1. a \in Nat  OBVIOUS
    <2>2. CASE Clear(a, a + 1, address, Len(data))
      BY <2>1, <2>2, AtElsewhere DEF Clear
    <2>3. CASE address = a /\ Len(data) = 2 /\ LegalByte(address, data[1])
      <3>1. At(after, address + 1 - 1) = data[1] /\ address + 1 - 1 = a
        <4> HIDE DEF after
        <4> QED  BY <1>0, <2>3 DEF Found
      <3>2. At(after, a) = data[1] /\ LegalByte(a, data[1])
        <4> HIDE DEF after
        <4> QED  BY <2>3, <3>1
      <3> QED  BY <3>2
    <2>4. \/ Clear(a, a + 1, address, Len(data))
          \/ address = a /\ Len(data) = 2 /\ LegalByte(address, data[1])
      BY DEF Spares
    <2> QED  BY <2>2, <2>3, <2>4
  <1> HIDE DEF after
  <1>4. At(after, 0) \in RateCodes  BY <1>3, AcceptableIs, LegalValues
  <1>5. At(after, 2) \in 0..8  BY <1>3, AcceptableIs, LegalValues
  <1>6. At(after, 4) \in 0..7  BY <1>3, AcceptableIs, LegalValues
  <1>7. At(after, 10) \in DistanceCodes  BY <1>3, AcceptableIs, LegalValues
  <1>8. At(after, 169) \in 0..30  BY <1>3, AcceptableIs, LegalValues
  <1>9. At(after, 173) \in Byte  BY <1>3, AcceptableIs, LegalValues
  <1>11. At(after, 179) \in Byte
    BY <1>3, AcceptableIs, LegalValues
  <1>10. AcceptableIn(after)
    BY <1>1, <1>2, <1>4, <1>5, <1>6, <1>7, <1>8, <1>9, <1>11, AcceptableIs
  <1> QED  BY <1>10 DEF after

\* A harmless write keeps acceptable settings acceptable.
LEMMA HarmlessKeeps ==
    ASSUME NEW mem, NEW address, NEW data, AcceptableIn(mem), Harmless(address, data)
    PROVE  AcceptableIn(Overlay(mem, address, data))
  <1> DEFINE after == Overlay(mem, address, data)
  <1>1. CASE address \in Nat /\ address >= 187
    <2>1. \A a \in 0..186 : At(after, a) = At(mem, a)
      BY <1>1 DEF Overlay, At
    <2> HIDE DEF after
    <2>2. ASSUME NEW k \in 0..7
          PROVE  /\ read_memory(after, 12 + 4 * k, 4) = read_memory(mem, 12 + 4 * k, 4)
                 /\ read_memory(after, 44 + 4 * k, 3) = read_memory(mem, 44 + 4 * k, 3)
      <3>1. \A i \in 1..4 : 12 + 4 * k + i - 1 \in 0..186  OBVIOUS
      <3>2. \A i \in 1..3 : 44 + 4 * k + i - 1 \in 0..186  OBVIOUS
      <3> QED  BY <2>1, <3>1, <3>2 DEF read_memory
    <2>3. AcceptableIn(after)  BY <2>1, <2>2, AcceptableIs
    <2> QED  BY <2>3 DEF after
  <1>2. CASE ~(address \in Nat /\ address >= 187)
    <2> DEFINE legal == LegalByte(address, data[1])
               dpi   == decode_dpi(data) \in DPI_MIN..DPI_MAX
               color == FirstThree(data) \in Color
               n     == Len(data)
    <2>1. Shape(address, n, legal, dpi, color)
      <3>1. legal => address \in {0, 2, 4, 8, 10, 169, 171, 173, 175, 177, 179, 181, 183, 185}
                                   \cup 76..167
        BY DEF LegalByte
      <3>2. \/ address = 160 /\ n = 7
            \/ n = 2 /\ legal
            \/ n = 4 /\ \E k \in 0..7 : \/ address = 12 + 4 * k /\ dpi
                                        \/ address = 44 + 4 * k /\ color
                                        \/ address = 96 + 4 * k
        BY <1>2 DEF Harmless
      <3> HIDE DEF legal, dpi, color, n
      <3> QED  BY <3>1, <3>2 DEF Shape
    <2>2. legal \in BOOLEAN /\ dpi \in BOOLEAN /\ color \in BOOLEAN
      BY DEF LegalByte
    <2>3. n \in Nat /\ address \in Nat
      <3> HIDE DEF legal, dpi, color, n
      <3> QED  BY <2>1 DEF Shape
    <2>4. Sparing(address, n, legal, dpi, color)
      <3> HIDE DEF legal, dpi, color, n
      <3> QED  BY <2>1, <2>2, <2>3, Apart
    <2>5. Spares(address, data)  BY <2>4 DEF Sparing, Spares
    <2> QED  BY <2>3, <2>5, ShortWriteKeeps
  <1> QED  BY <1>1, <1>2

-----------------------------------------------------------------------------
(* What the encoders make, the decoders read. *)

LEMMA AppendedToThree ==
    ASSUME NEW a, NEW b, NEW c, NEW d
    PROVE  /\ Len(Append(<<a, b, c>>, d)) = 4
           /\ Append(<<a, b, c>>, d)[1] = a
           /\ Append(<<a, b, c>>, d)[2] = b
           /\ Append(<<a, b, c>>, d)[3] = c
           /\ Append(<<a, b, c>>, d)[4] = d
  OBVIOUS

LEMMA Fifties ==
    /\ \A n \in Nat : n \div 50 \in Nat /\ n % 50 \in 0..49 /\ n = 50 * (n \div 50) + (n % 50)
    /\ \A q \in Nat, r \in 0..49 :
         50 * q + r >= 50 /\ 50 * q + r <= 26000 => q >= 1 /\ q <= 520
    /\ \A q \in Nat : q >= 1 /\ q <= 520 => 50 * q >= 50 /\ 50 * q <= 26000
  <1>1. \A n \in Nat : n \div 50 \in Nat /\ n % 50 \in 0..49 /\ n = 50 * (n \div 50) + (n % 50)
    OBVIOUS
  <1>2. \A q \in Nat, r \in 0..49 :
          50 * q + r >= 50 /\ 50 * q + r <= 26000 => q >= 1 /\ q <= 520
    OBVIOUS
  <1>3. \A q \in Nat : q >= 1 /\ q <= 520 => 50 * q >= 50 /\ 50 * q <= 26000
    OBVIOUS
  <1> QED  BY <1>1, <1>2, <1>3

\* The values a stage may have, as bounds.
LEMMA Within ==
    ASSUME NEW low \in Nat, NEW high \in Nat, NEW n
    PROVE  n \in low..high <=> n \in Nat /\ low <= n /\ n <= high
  OBVIOUS

LEMMA DpiBounds == \A n : n \in DPI_MIN..DPI_MAX <=> n \in Nat /\ 50 <= n /\ n <= 26000
  <1> DEFINE low == DPI_MIN
             high == DPI_MAX
  <1>1. low = 50 /\ high = 26000  BY DEF DPI_MIN, DPI_MAX
  <1>2. low \in Nat /\ high \in Nat  BY <1>1
  <1> HIDE DEF low, high
  <1>3. \A n : n \in low..high <=> n \in Nat /\ low <= n /\ n <= high  BY <1>2, Within
  <1>4. ASSUME NEW n PROVE n \in low..high <=> n \in Nat /\ 50 <= n /\ n <= 26000
    <2>1. n \in low..high <=> n \in Nat /\ low <= n /\ n <= high  BY <1>3
    <2>2. (low <= n <=> 50 <= n) /\ (n <= high <=> n <= 26000)  BY <1>1
    <2> QED  BY <2>1, <2>2
  <1> QED  BY <1>4 DEF low, high

\* Values between DPI_MIN and DPI_MAX come back rounded down to a step.
LEMMA DpiRoundTrip ==
    ASSUME NEW dpi \in DPI_MIN..DPI_MAX
    PROVE  /\ Len(encode_dpi(dpi)) = 4
           /\ decode_dpi(encode_dpi(dpi)) = RoundedDpi(dpi)
           /\ RoundedDpi(dpi) \in DPI_MIN..DPI_MAX
  <1> DEFINE q    == dpi \div 50
             code  == q - 1
             high  == (code \div 256) % 4
             third == 4 * high + 64 * high
             bytes == <<code % 256, code % 256, third>>
  <1>1. dpi \in Nat /\ dpi >= 50 /\ dpi <= 26000  BY DpiBounds
  <1>2. q \in Nat /\ q >= 1 /\ q <= 520 /\ dpi = 50 * q + (dpi % 50) /\ dpi % 50 \in 0..49
    <2>2. q \in Nat /\ dpi % 50 \in 0..49 /\ dpi = 50 * q + (dpi % 50)  BY <1>1, Fifties
    <2> DEFINE r == dpi % 50
    <2>3. q \in Nat /\ r \in 0..49 /\ dpi = 50 * q + r  BY <2>2
    <2> HIDE DEF q, r
    <2>4. 50 * q + r >= 50 /\ 50 * q + r <= 26000  BY <1>1, <2>3
    <2>5. q >= 1 /\ q <= 520  BY <2>3, <2>4, Fifties
    <2> QED  BY <2>3, <2>5 DEF r
  <1>3. encode_dpi(dpi) = Append(bytes, Complement(bytes))
    BY <1>2 DEF encode_dpi, DPI_STEP
  <1>4. /\ Len(encode_dpi(dpi)) = 4
        /\ encode_dpi(dpi)[1] = code % 256 /\ encode_dpi(dpi)[3] = third
    BY <1>3
  <1> HIDE DEF q
  <1>5. code \in 0..519  BY <1>2
  <1>6. high = code \div 256 /\ high \in 0..2  BY <1>5
  <1>7. (third \div 4) % 4 = high
    <2>1. \A h \in 0..2 : ((4 * h + 64 * h) \div 4) % 4 = h  OBVIOUS
    <2> HIDE DEF code, high
    <2> QED  BY <1>6, <2>1
  <1>8. (code % 256) + 256 * high = code  BY <1>5, <1>6
  <1>9. decode_dpi(encode_dpi(dpi)) = ((code % 256) + 256 * high + 1) * 50
    BY <1>4, <1>7 DEF decode_dpi, DPI_STEP
  <1>10. decode_dpi(encode_dpi(dpi)) = 50 * q
    <2> HIDE DEF high, third
    <2> QED  BY <1>5, <1>8, <1>9
  <1>11. RoundedDpi(dpi) = 50 * q
    <2>1. RoundedDpi(dpi) = dpi - (dpi % 50)  BY DEF RoundedDpi, DPI_STEP
    <2> DEFINE r == dpi % 50
    <2>2. q \in Nat /\ r \in Nat /\ dpi = 50 * q + r  BY <1>2
    <2> HIDE DEF r
    <2>3. dpi - r = 50 * q  BY <2>2
    <2> QED  BY <2>1, <2>3 DEF r
  <1>12. 50 * q \in Nat /\ 50 * q >= 50 /\ 50 * q <= 26000
    <2>1. q \in Nat /\ q >= 1 /\ q <= 520  BY <1>2
    <2>2. 50 * q >= 50 /\ 50 * q <= 26000  BY <2>1, Fifties
    <2>3. 50 * q \in Nat  BY <2>1
    <2> QED  BY <2>2, <2>3
  <1>13. Len(encode_dpi(dpi)) = 4  BY <1>4
  <1>14. RoundedDpi(dpi) \in DPI_MIN..DPI_MAX
    <2> DEFINE m == 50 * q
    <2>1. RoundedDpi(dpi) = m /\ m \in Nat /\ 50 <= m /\ m <= 26000  BY <1>11, <1>12
    <2> HIDE DEF m
    <2> QED  BY <2>1, DpiBounds
  <1> QED  BY <1>10, <1>11, <1>13, <1>14

LEMMA ColorBytes ==
    ASSUME NEW color \in Color
    PROVE  /\ Len(color) = 3 /\ Len(encode_dpi_color(color)) = 4
           /\ FirstThree(encode_dpi_color(color)) = color
  <1>1. PICK r \in Byte, g \in Byte, b \in Byte : color = <<r, g, b>>  BY DEF Color
  <1> DEFINE c == Complement(color)
             e == encode_dpi_color(color)
  <1>2. e = Append(<<r, g, b>>, c)  BY <1>1 DEF encode_dpi_color
  <1> HIDE DEF c
  <1>3. Len(e) = 4 /\ e[1] = r /\ e[2] = g /\ e[3] = b
    BY <1>2, AppendedToThree
  <1> HIDE DEF e
  <1>4. FirstThree(e) = <<r, g, b>>  BY <1>3 DEF FirstThree
  <1>5. Len(color) = 3  BY <1>1
  <1> QED  BY <1>1, <1>3, <1>4, <1>5 DEF e

-----------------------------------------------------------------------------
(* Setters send safe packets. *)

\* A packet that leaves the settings acceptable, or is none.
SafeStep(step) ==
    /\ step.op \in {"store", "range", "profile", "reset", "reject"}
    /\ step.op = "store" => Harmless(step.address, step.data)

SafeScript(script) == IsScript(script) /\ \A p \in Packets(script) : SafeStep(p)

LEMMA UpTo == ASSUME NEW m \in Nat, NEW n \in Nat PROVE n \in 0..m <=> n <= m
  OBVIOUS

LEMMA Widths ==
    /\ \A n \in Nat : n \in Byte <=> n < 256
    /\ \A n \in Nat : n \in Word <=> n < 65536
    /\ Byte \subseteq Nat /\ Word \subseteq Nat
  <1>1. ASSUME NEW n \in Nat PROVE n \in Word <=> n < 65536
    <2> DEFINE m == 65535
    <2>1. m \in Nat /\ (n <= m <=> n < 65536)  OBVIOUS
    <2>2. Word = 0..m  BY DEF Word
    <2> HIDE DEF m
    <2>3. n \in 0..m <=> n <= m  BY <2>1, UpTo
    <2> QED  BY <2>1, <2>2, <2>3
  <1>2. ASSUME NEW n \in Nat PROVE n \in Byte <=> n < 256
    <2> DEFINE m == 255
    <2>1. m \in Nat /\ (n <= m <=> n < 256)  OBVIOUS
    <2>2. Byte = 0..m  BY DEF Byte
    <2> HIDE DEF m
    <2>3. n \in 0..m <=> n <= m  BY <2>1, UpTo
    <2> QED  BY <2>1, <2>2, <2>3
  <1>3. Byte \subseteq Nat /\ Word \subseteq Nat  BY DEF Byte, Word
  <1> QED  BY <1>1, <1>2, <1>3

LEMMA Narrow ==
    /\ \A n \in Nat : TryU8(n) # Invalid <=> n \in Byte
    /\ \A n \in Nat : TryU16(n) # Invalid <=> n \in Word
    /\ \A n \in Nat : AsU16(n) \in Word
    /\ \A n \in Word : AsU16(n) = n
  <1>1. \A n \in Nat : n # Invalid  BY InvalidAssumption
  <1>2. \A n \in Nat : TryU8(n) # Invalid <=> n \in Byte  BY <1>1, Widths DEF TryU8
  <1>3. \A n \in Nat : TryU16(n) # Invalid <=> n \in Word  BY <1>1, Widths DEF TryU16
  <1>4. ASSUME NEW n \in Nat PROVE AsU16(n) \in Word
    <2> DEFINE m == n % 65536
    <2>1. m \in Nat /\ m < 65536  OBVIOUS
    <2> HIDE DEF m
    <2>2. m \in Word  BY <2>1, Widths
    <2> QED  BY <2>2 DEF AsU16, m
  <1>5. ASSUME NEW n \in Word PROVE AsU16(n) = n
    <2>1. n \in Nat /\ n < 65536  BY Widths
    <2> QED  BY <2>1 DEF AsU16
  <1> QED  BY <1>2, <1>3, <1>4, <1>5

LEMMA SequenceType ==
    ASSUME NEW S, NEW s \in Seq(S)
    PROVE  /\ Len(s) \in Nat /\ DOMAIN s = 1..Len(s)
           /\ \A i \in 1..Len(s) : s[i] \in S
           /\ s = [i \in 1..Len(s) |-> s[i]]
  <1>1. Len(s) \in Nat /\ DOMAIN s = 1..Len(s)  OBVIOUS
  <1>2. \A i \in 1..Len(s) : s[i] \in S  OBVIOUS
  <1>3. s \in [1..Len(s) -> S]  OBVIOUS
  <1>4. s = [i \in 1..Len(s) |-> s[i]]  BY <1>3
  <1> QED  BY <1>1, <1>2, <1>4

LEMMA SequenceOf ==
    ASSUME NEW S, NEW n \in Nat, NEW s, s = [i \in 1..n |-> s[i]], \A i \in 1..n : s[i] \in S
    PROVE  s \in Seq(S)
  <1>1. s \in [1..n -> S]  OBVIOUS
  <1> QED  BY <1>1

LEMMA Joined ==
    ASSUME NEW S, NEW s \in Seq(S), NEW t \in Seq(S)
    PROVE  s \o t \in Seq(S) /\ Len(s \o t) = Len(s) + Len(t)
  OBVIOUS

LEMMA Seven ==
    ASSUME NEW a, NEW b, NEW c, NEW d, NEW e, NEW f
    PROVE  Len(<<a>> \o <<b, c, d>> \o <<e, f, 0>>) = 7
  <1> DEFINE x == <<a>>
             y == <<b, c, d>>
             z == <<e, f, 0>>
             S == {a, b, c, d, e, f, 0}
  <1>1. x \in Seq(S) /\ Len(x) = 1  OBVIOUS
  <1>2. y \in Seq(S) /\ Len(y) = 3  OBVIOUS
  <1>3. z \in Seq(S) /\ Len(z) = 3  OBVIOUS
  <1> HIDE DEF x, y, z, S
  <1>4. x \o y \in Seq(S)  BY <1>1, <1>2, Joined
  <1>5. Len(x \o y) = Len(x) + Len(y)  BY <1>1, <1>2, Joined
  <1>6. Len(x \o y \o z) = Len(x \o y) + Len(z)  BY <1>3, <1>4, Joined
  <1>7. Len(x \o y \o z) = 7  BY <1>1, <1>2, <1>3, <1>5, <1>6
  <1> QED  BY <1>7 DEF x, y, z
LEMMA ByteSafe ==
    ASSUME NEW offset, NEW value, LegalByte(offset, value)
    PROVE  SafeStep(ByteStep(offset, value))
  <1> DEFINE data == <<value, calculate_data_checksum(value)>>
  <1>1. Len(data) = 2 /\ data[1] = value  OBVIOUS
  <1>2. Harmless(offset, data)
    <2> HIDE DEF data
    <2> QED  BY <1>1 DEF Harmless
  <1> QED  BY <1>2 DEF SafeStep, ByteStep, Step

LEMMA OtherSafe ==
    /\ \A p : SafeStep(CommandStep("range", p)) /\ SafeStep(CommandStep("profile", p))
    /\ \A p : SafeStep(CommandStep("reset", p))
    /\ SafeStep(RejectStep)
    /\ \A step : step.op = "store" /\ step.address \in Nat /\ step.address >= 256 => SafeStep(step)
  BY DEF SafeStep, CommandStep, RejectStep, Step, Harmless

LEMMA DpiSafe ==
    ASSUME NEW stage \in Nat
    PROVE  /\ \A dpi : SafeStep(DpiValueStep(stage, dpi))
           /\ \A color \in Color : SafeStep(DpiColorStep(stage, color))
  <1>1. ASSUME NEW dpi \in DPI_MIN..DPI_MAX, stage < 8
        PROVE  SafeStep(FlashStep(12 + 4 * stage, encode_dpi(dpi)))
    <2> DEFINE data == encode_dpi(dpi)
    <2>1. Len(data) = 4 /\ decode_dpi(data) \in DPI_MIN..DPI_MAX  BY DpiRoundTrip
    <2> HIDE DEF data
    <2>2. stage \in 0..7  BY <1>1
    <2>3. Harmless(12 + 4 * stage, data)  BY <2>1, <2>2 DEF Harmless
    <2>4. SafeStep(FlashStep(12 + 4 * stage, data))  BY <2>3 DEF SafeStep, FlashStep, Step
    <2> QED  BY <2>4 DEF data
  <1>2. ASSUME NEW color \in Color, stage < 8
        PROVE  SafeStep(FlashStep(44 + 4 * stage, encode_dpi_color(color)))
    <2> DEFINE data == encode_dpi_color(color)
    <2>1. Len(data) = 4 /\ FirstThree(data) \in Color  BY ColorBytes
    <2> HIDE DEF data
    <2>2. stage \in 0..7  BY <1>2
    <2>3. Harmless(44 + 4 * stage, data)  BY <2>1, <2>2 DEF Harmless
    <2>4. SafeStep(FlashStep(44 + 4 * stage, data))  BY <2>3 DEF SafeStep, FlashStep, Step
    <2> QED  BY <2>4 DEF data
  <1>3. ~(stage >= 8) => stage < 8  OBVIOUS
  <1>4. \A dpi : SafeStep(DpiValueStep(stage, dpi))
    BY <1>1, <1>3, OtherSafe DEF DpiValueStep
  <1>5. \A color \in Color : SafeStep(DpiColorStep(stage, color))
    BY <1>2, <1>3, OtherSafe DEF DpiColorStep
  <1> QED  BY <1>4, <1>5

LEMMA SettersSafe ==
    /\ \A hz \in PollingRate : SafeScript(set_polling_rate(hz))
    /\ \A d \in LiftOffDistance : SafeScript(set_lift_off_distance(d))
    /\ \A on : SafeScript(set_long_distance_mode(on))
    /\ \A t \in Byte : SafeScript(set_moving_off_light_time(t))
    /\ \A s : SafeScript(set_performance_time(s))
    /\ \A mode : SafeScript(set_sensor_mode(mode))
    /\ \A p : SafeScript(set_current_profile(p))
    /\ SafeScript(factory_reset)
    /\ \A s \in Nat : SafeScript(set_sleep_timeout(s))
    /\ \A ms \in Nat : SafeScript(set_debounce_time(ms))
    /\ \A n \in Nat : SafeScript(set_dpi_count(n))
    /\ \A n \in Nat : SafeScript(set_current_dpi_index(n))
    /\ \A stage \in Nat : \A dpi : SafeScript(set_dpi_value(stage, dpi))
    /\ \A stage \in Nat : \A color \in Color : SafeScript(set_dpi_color(stage, color))
    /\ SafeScript(Reject)
  <1>1. ASSUME NEW hz \in PollingRate PROVE SafeScript(set_polling_rate(hz))
    <2>1. LegalByte(0, PollingRateCode[hz])  BY DEF LegalByte, RateCodes
    <2> QED  BY <2>1, ByteSafe, SetterPackets DEF SafeScript
  <1>2. ASSUME NEW d \in LiftOffDistance PROVE SafeScript(set_lift_off_distance(d))
    <2>1. LegalByte(10, LiftOffCode[d])  BY DEF LegalByte, DistanceCodes
    <2> QED  BY <2>1, ByteSafe, SetterPackets DEF SafeScript
  <1>3. \A on : SafeScript(set_long_distance_mode(on))
    BY OtherSafe, SetterPackets DEF SafeScript
  <1>4. ASSUME NEW t \in Byte PROVE SafeScript(set_moving_off_light_time(t))
    <2>1. LegalByte(179, t)  BY DEF LegalByte
    <2> QED  BY <2>1, ByteSafe, SetterPackets DEF SafeScript
  <1>5. ASSUME NEW s PROVE SafeScript(set_performance_time(s))
    <2>1. LegalByte(183, SleepTimeCode[s])  BY DEF LegalByte
    <2> QED  BY <2>1, ByteSafe, SetterPackets DEF SafeScript
  <1>6. ASSUME NEW mode PROVE SafeScript(set_sensor_mode(mode))
    <2>1. LegalByte(185, mode)  BY DEF LegalByte
    <2> QED  BY <2>1, ByteSafe, SetterPackets DEF SafeScript
  <1>7. \A p : SafeScript(set_current_profile(p))
    BY OtherSafe, SetterPackets DEF SafeScript
  <1>8. SafeScript(factory_reset)
    BY OtherSafe, SetterPackets DEF SafeScript
  <1>9. ASSUME NEW s \in Nat PROVE SafeScript(set_sleep_timeout(s))
    <2> DEFINE tens == s \div 10
    <2>1. CASE s > 2550
      BY <2>1, OtherSafe, SetterPackets DEF SafeScript
    <2>2. CASE ~(s > 2550)
      <3>1. tens \in Byte
        <4>1. \A n \in Nat : ~(n > 2550) => n \div 10 >= 0 /\ n \div 10 <= 255  OBVIOUS
        <4>2. \A n \in Nat : n \div 10 \in Nat  OBVIOUS
        <4> QED  BY <2>2, <4>1, <4>2 DEF Byte
      <3>2. Packets(set_sleep_timeout(s)) = {ByteStep(183, tens), ByteStep(173, tens)}
        BY <2>2, SetterPackets
      <3> HIDE DEF tens
      <3>3. LegalByte(183, tens) /\ LegalByte(173, tens)  BY <3>1 DEF LegalByte
      <3>4. SafeStep(ByteStep(183, tens)) /\ SafeStep(ByteStep(173, tens))  BY <3>3, ByteSafe
      <3> QED  BY <3>2, <3>4, SetterPackets DEF SafeScript
    <2> QED  BY <2>1, <2>2
  <1>10. ASSUME NEW ms \in Nat PROVE SafeScript(set_debounce_time(ms))
    <2>1. ~(ms > 30) => LegalByte(169, ms)  BY DEF LegalByte
    <2>2. ~(ms > 30) => SafeStep(ByteStep(169, ms))  BY <2>1, ByteSafe
    <2> QED  BY <2>2, OtherSafe, SetterPackets DEF SafeScript
  <1>11. ASSUME NEW n \in Nat PROVE SafeScript(set_dpi_count(n))
    <2>1. ~(n > 8) => LegalByte(2, n)  BY DEF LegalByte
    <2>2. ~(n > 8) => SafeStep(ByteStep(2, n))  BY <2>1, ByteSafe
    <2> QED  BY <2>2, OtherSafe, SetterPackets DEF SafeScript
  <1>12. ASSUME NEW n \in Nat PROVE SafeScript(set_current_dpi_index(n))
    <2>1. ~(n >= 8) => LegalByte(4, n)  BY DEF LegalByte
    <2>2. ~(n >= 8) => SafeStep(ByteStep(4, n))  BY <2>1, ByteSafe
    <2> QED  BY <2>2, OtherSafe, SetterPackets DEF SafeScript
  <1>13. \A stage \in Nat : \A dpi : SafeScript(set_dpi_value(stage, dpi))
    BY DpiSafe, DpiPackets DEF SafeScript
  <1>14. \A stage \in Nat : \A color \in Color : SafeScript(set_dpi_color(stage, color))
    BY DpiSafe, DpiPackets DEF SafeScript
  <1>15. SafeScript(Reject)
    BY OtherSafe, PrimitivePackets DEF SafeScript
  <1> QED
    BY <1>1, <1>2, <1>3, <1>4, <1>5, <1>6, <1>7, <1>8, <1>9, <1>10, <1>11, <1>12, <1>13, <1>14,
       <1>15

LEMMA SwitchesSafe ==
    ASSUME NEW offset \in {8, 167, 171, 175, 177, 181}, NEW value
    PROVE  SafeStep(ByteStep(offset, value)) /\ SafeScript(set_bool(offset, value))
  <1>1. \A v : LegalByte(offset, v)  BY DEF LegalByte
  <1>2. \A v : SafeStep(ByteStep(offset, v))  BY <1>1, ByteSafe
  <1> QED  BY <1>2, PrimitivePackets DEF SafeScript

LEMMA GroupsSafe ==
    /\ \A light : light.color \in Color => SafeScript(set_light_settings(light))
    /\ \A effect : SafeScript(set_dpi_effect_settings(effect))
    /\ \A key \in Nat : \A f : SafeScript(set_key_function(key, f))
    /\ \A slot \in Nat : \A x : SafeScript(set_shortcut_key(slot, x))
    /\ \A slot \in Nat : \A x : SafeScript(set_macro(slot, x))
  <1>1. ASSUME NEW light, light.color \in Color PROVE SafeScript(set_light_settings(light))
    <2> DEFINE data == <<light.mode>> \o light.color \o <<light.speed, light.brightness, 0>>
    <2>1. Len(data) = 7
      <3>1. PICK r \in Byte, g \in Byte, b \in Byte : light.color = <<r, g, b>>
        BY <1>1 DEF Color
      <3>2. Len(<<light.mode>> \o <<r, g, b>> \o <<light.speed, light.brightness, 0>>) = 7
        BY Seven
      <3> QED  BY <3>1, <3>2
    <2> HIDE DEF data
    <2>2. SafeStep(FlashStep(160, data))  BY <2>1 DEF SafeStep, FlashStep, Step, Harmless
    <2> QED  BY <2>2, SwitchesSafe, GroupPackets DEF SafeScript, data
  <1>2. ASSUME NEW e PROVE SafeScript(set_dpi_effect_settings(e))
    <2>1. \A n \in {76, 78, 80, 82} : \A v : LegalByte(n, v)  BY DEF LegalByte
    <2>2. \A n \in {76, 78, 80, 82} : \A v : SafeStep(ByteStep(n, v))  BY <2>1, ByteSafe
    <2> QED  BY <2>2, GroupPackets DEF SafeScript
  <1>3. ASSUME NEW key \in Nat, NEW f PROVE SafeScript(set_key_function(key, f))
    <2> DEFINE data == EncodeKey(f)
    <2>1. Len(data) = 4  BY AppendedToThree DEF EncodeKey
    <2> HIDE DEF data
    <2>2. CASE key >= 8
      BY <2>2, OtherSafe, GroupPackets DEF SafeScript
    <2>3. CASE ~(key >= 8)
      <3>1. key \in 0..7  BY <2>3
      <3>2. Harmless(96 + 4 * key, data)  BY <2>1, <3>1 DEF Harmless
      <3>3. SafeStep(FlashStep(96 + 4 * key, data))  BY <3>2 DEF SafeStep, FlashStep, Step
      <3> QED  BY <2>3, <3>3, GroupPackets DEF SafeScript, data
    <2> QED  BY <2>2, <2>3
  <1>4. ASSUME NEW slot \in Nat, NEW x PROVE SafeScript(set_shortcut_key(slot, x))
    BY OtherSafe, GroupPackets DEF SafeScript
  <1>5. ASSUME NEW slot \in Nat, NEW x PROVE SafeScript(set_macro(slot, x))
    BY OtherSafe, GroupPackets DEF SafeScript
  <1> QED  BY <1>1, <1>2, <1>3, <1>4, <1>5

-----------------------------------------------------------------------------
(* The configuration as a whole. *)

LEMMA StageType ==
    ASSUME NEW config \in MouseConfig
    PROVE  /\ config.dpi_stages \in Seq(DpiStage)
           /\ Len(config.dpi_stages) \in Nat
           /\ DOMAIN config.dpi_stages = 1..Len(config.dpi_stages)
           /\ \A i \in 1..Len(config.dpi_stages) :
                /\ config.dpi_stages[i].value \in Word
                /\ config.dpi_stages[i].color \in Color
  <1>1. config.dpi_stages \in Seq(DpiStage)  BY DEF MouseConfig
  <1>2. Len(config.dpi_stages) \in Nat /\ DOMAIN config.dpi_stages = 1..Len(config.dpi_stages)
    BY <1>1
  <1>3. \A i \in 1..Len(config.dpi_stages) : config.dpi_stages[i] \in DpiStage  BY <1>1
  <1> QED  BY <1>1, <1>2, <1>3 DEF DpiStage

LEMMA ConfigFields ==
    ASSUME NEW config \in MouseConfig
    PROVE  /\ config.polling_rate \in PollingRate
           /\ config.lift_off_distance \in LiftOffDistance
           /\ config.moving_off_light_time \in Byte
           /\ config.performance_time \in SleepTime
           /\ config.sensor_mode \in SensorMode
           /\ config.sleep_timeout_seconds \in Nat
           /\ config.debounce_time \in Nat
           /\ config.current_dpi_index \in Nat
           /\ {config.angle_snapping, config.ripple_control, config.high_speed_mode,
               config.long_distance_mode, config.motion_sync, config.sensor_20k} \subseteq BOOLEAN
  <1>1. /\ config.polling_rate \in PollingRate
        /\ config.lift_off_distance \in LiftOffDistance
        /\ config.moving_off_light_time \in Byte
        /\ config.performance_time \in SleepTime
        /\ config.sensor_mode \in SensorMode
        /\ config.sleep_timeout_seconds \in Word
        /\ config.debounce_time \in Byte
        /\ config.current_dpi_index \in Byte
    BY DEF MouseConfig
  <1>2. {config.angle_snapping, config.ripple_control, config.high_speed_mode,
         config.long_distance_mode, config.motion_sync, config.sensor_20k} \subseteq BOOLEAN
    BY DEF MouseConfig
  <1>3. Byte \subseteq Nat /\ Word \subseteq Nat  BY DEF Byte, Word
  <1> QED  BY <1>1, <1>2, <1>3

LEMMA DpiWritesSafe ==
    ASSUME NEW config \in MouseConfig
    PROVE  SafeScript(DpiWrites(config))
  <1> DEFINE stages == config.dpi_stages
             n == Len(stages) % 256
  <1>1. Len(stages) \in Nat  BY StageType
  <1>2. n \in Nat
    <2>1. \A m \in Nat : m % 256 \in Nat  OBVIOUS
    <2> HIDE DEF stages
    <2> QED  BY <1>1, <2>1
  <1>3. config.current_dpi_index \in Nat  BY ConfigFields
  <1>4. \A p \in Packets(set_dpi_count(n)) : SafeStep(p)
    <2> HIDE DEF n
    <2> QED  BY <1>2, SettersSafe DEF SafeScript
  <1>5. \A p \in Packets(set_current_dpi_index(config.current_dpi_index)) : SafeStep(p)
    BY <1>3, SettersSafe DEF SafeScript
  <1>6. ASSUME NEW p \in Packets(StageWrites(stages)) PROVE SafeStep(p)
    <2>1. PICK k \in 0..(Len(stages) - 1) : \/ p = DpiValueStep(k, stages[k + 1].value)
                                            \/ p = DpiColorStep(k, stages[k + 1].color)
      BY <1>1, StagePackets
    <2>2. k \in Nat /\ k + 1 \in 1..Len(stages)  BY <1>1
    <2>3. stages[k + 1].color \in Color  BY <2>2, StageType
    <2> QED  BY <2>1, <2>2, <2>3, DpiSafe
  <1> HIDE DEF n
  <1>7. IsScript(DpiWrites(config))  BY <1>1, DpiWritesPackets
  <1>8. CASE stages = << >>
    <2>1. Packets(DpiWrites(config)) = {}  BY <1>1, <1>8, DpiWritesPackets
    <2> QED  BY <1>7, <2>1 DEF SafeScript
  <1>9. CASE stages # << >>
    <2>1. Packets(DpiWrites(config)) =
            Packets(set_dpi_count(n)) \cup Packets(StageWrites(stages))
              \cup Packets(set_current_dpi_index(config.current_dpi_index))
      BY <1>1, <1>9, DpiWritesPackets DEF n
    <2> QED  BY <1>4, <1>5, <1>6, <1>7, <2>1 DEF SafeScript
  <1> QED  BY <1>8, <1>9

LEMMA ConfigSafe ==
    ASSUME NEW config \in MouseConfig
    PROVE  SafeScript(set_config(config))
  <1>1. /\ config.polling_rate \in PollingRate
        /\ config.lift_off_distance \in LiftOffDistance
        /\ config.moving_off_light_time \in Byte
        /\ config.sleep_timeout_seconds \in Nat
        /\ config.debounce_time \in Nat
    BY ConfigFields
  <1>2. /\ \A p \in Packets(set_sleep_timeout(config.sleep_timeout_seconds)) : SafeStep(p)
        /\ \A p \in Packets(set_debounce_time(config.debounce_time)) : SafeStep(p)
        /\ \A p \in Packets(DpiWrites(config)) : SafeStep(p)
    BY <1>1, SettersSafe, DpiWritesSafe DEF SafeScript
  <1>3. /\ SafeStep(ByteStep(175, Flag(config.angle_snapping)))
        /\ SafeStep(ByteStep(177, Flag(config.ripple_control)))
        /\ SafeStep(ByteStep(181, Flag(config.high_speed_mode)))
        /\ SafeStep(ByteStep(171, Flag(config.motion_sync)))
        /\ SafeStep(ByteStep(8, Flag(config.sensor_20k)))
    BY SwitchesSafe
  <1>4. /\ SafeStep(ByteStep(0, PollingRateCode[config.polling_rate]))
        /\ SafeStep(ByteStep(10, LiftOffCode[config.lift_off_distance]))
        /\ SafeStep(CommandStep("range", Flag(config.long_distance_mode)))
        /\ SafeStep(ByteStep(179, config.moving_off_light_time))
        /\ SafeStep(ByteStep(183, SleepTimeCode[config.performance_time]))
        /\ SafeStep(ByteStep(185, config.sensor_mode))
    <2>1. /\ LegalByte(0, PollingRateCode[config.polling_rate])
          /\ LegalByte(10, LiftOffCode[config.lift_off_distance])
          /\ LegalByte(179, config.moving_off_light_time)
          /\ LegalByte(183, SleepTimeCode[config.performance_time])
          /\ LegalByte(185, config.sensor_mode)
      BY <1>1 DEF LegalByte, RateCodes, DistanceCodes
    <2> QED  BY <2>1, ByteSafe, OtherSafe
  <1>5. Len(config.dpi_stages) \in Nat  BY StageType
  <1>6. ASSUME NEW p \in Packets(set_config(config)) PROVE SafeStep(p)
    <2>1. p \in {ByteStep(0, PollingRateCode[config.polling_rate]),
                 ByteStep(10, LiftOffCode[config.lift_off_distance]),
                 ByteStep(175, Flag(config.angle_snapping)),
                 ByteStep(177, Flag(config.ripple_control)),
                 ByteStep(181, Flag(config.high_speed_mode)),
                 CommandStep("range", Flag(config.long_distance_mode)),
                 ByteStep(171, Flag(config.motion_sync)),
                 ByteStep(179, config.moving_off_light_time),
                 ByteStep(183, SleepTimeCode[config.performance_time]),
                 ByteStep(185, config.sensor_mode),
                 ByteStep(8, Flag(config.sensor_20k))}
                \cup Packets(set_sleep_timeout(config.sleep_timeout_seconds))
                \cup Packets(set_debounce_time(config.debounce_time))
                \cup Packets(DpiWrites(config))
      BY <1>5, <1>6, ConfigPackets
    <2> QED  BY <1>2, <1>3, <1>4, <2>1
  <1>7. IsScript(set_config(config))  BY <1>5, ConfigPackets
  <1> QED  BY <1>6, <1>7 DEF SafeScript

LEMMA IsMouseConfig ==
    ASSUME NEW config, config = [s \in DOMAIN DefaultConfig |-> config[s]],
           config.polling_rate \in PollingRate, config.lift_off_distance \in LiftOffDistance,
           config.sleep_timeout_seconds \in Word, config.angle_snapping \in BOOLEAN,
           config.ripple_control \in BOOLEAN, config.high_speed_mode \in BOOLEAN,
           config.long_distance_mode \in BOOLEAN, config.debounce_time \in Byte,
           config.motion_sync \in BOOLEAN, config.moving_off_light_time \in Byte,
           config.performance_time \in SleepTime, config.sensor_mode \in SensorMode,
           config.sensor_20k \in BOOLEAN, config.dpi_stages \in Seq(DpiStage),
           config.current_dpi_index \in Byte
    PROVE  config \in MouseConfig
  <1>1. config =
          [polling_rate |-> config.polling_rate, lift_off_distance |-> config.lift_off_distance,
           sleep_timeout_seconds |-> config.sleep_timeout_seconds,
           angle_snapping |-> config.angle_snapping, ripple_control |-> config.ripple_control,
           high_speed_mode |-> config.high_speed_mode,
           long_distance_mode |-> config.long_distance_mode,
           debounce_time |-> config.debounce_time, motion_sync |-> config.motion_sync,
           moving_off_light_time |-> config.moving_off_light_time,
           performance_time |-> config.performance_time, sensor_mode |-> config.sensor_mode,
           sensor_20k |-> config.sensor_20k, dpi_stages |-> config.dpi_stages,
           current_dpi_index |-> config.current_dpi_index]
    BY DEF DefaultConfig
  <1> QED  BY <1>1 DEF MouseConfig

\* What the daemon makes of a message is a configuration.
LEMMA ConvertedIsConfig ==
    ASSUME NEW proto,
           RateFromProto(proto.polling_rate) # Invalid,
           LodFromProto(proto.lift_off_distance) # Invalid,
           StagesFromProto(proto.dpi_stages) # Invalid,
           TryU8(proto.current_dpi_index) # Invalid,
           proto.switches \in [Switches -> BOOLEAN],
           proto.dpi_stages \in Seq([value : Nat, color : Nat \X Nat \X Nat]),
           proto.current_dpi_index \in Nat, proto.sleep_timeout_seconds \in Nat
    PROVE  /\ ConfigFromProto(proto) \in MouseConfig
           /\ ConfigFromProto(proto) # Invalid
           /\ ConfigFromProto(proto).debounce_time = 0
           /\ ConfigFromProto(proto).sleep_timeout_seconds = AsU16(proto.sleep_timeout_seconds)
           /\ ConfigFromProto(proto).dpi_stages = proto.dpi_stages
           /\ ConfigFromProto(proto).current_dpi_index = proto.current_dpi_index
  <1> DEFINE config  == ConfigFromProto(proto)
             stages  == StagesFromProto(proto.dpi_stages)
             carried ==
               [polling_rate          |-> RateFromProto(proto.polling_rate),
                lift_off_distance     |-> LodFromProto(proto.lift_off_distance),
                sleep_timeout_seconds |-> AsU16(proto.sleep_timeout_seconds),
                dpi_stages            |-> stages,
                current_dpi_index     |-> proto.current_dpi_index]
  <1>1. /\ RateFromProto(proto.polling_rate) # Invalid
        /\ LodFromProto(proto.lift_off_distance) # Invalid
        /\ stages # Invalid
        /\ TryU8(proto.current_dpi_index) # Invalid
        /\ config = WithDefaults(carried, proto.switches)
    BY DEF ConfigFromProto
  <1>2. RateFromProto(proto.polling_rate) \in PollingRate
    <2>1. \A n : RateFromProto(n) # Invalid => RateFromProto(n) \in PollingRate
      <3>1. \A n \in 1..7 : RatesAscending[n] \in PollingRate
        BY DEF RatesAscending, PollingRate, PollingRateCode
      <3> QED  BY <3>1 DEF RateFromProto
    <2> QED  BY <1>1, <2>1
  <1>3. LodFromProto(proto.lift_off_distance) \in LiftOffDistance
    BY <1>1 DEF LodFromProto, LodAscending, LiftOffDistance, LiftOffCode
  <1>4. proto.current_dpi_index \in Byte  BY <1>1, Narrow
  <1>5. AsU16(proto.sleep_timeout_seconds) \in Word  BY Narrow
  <1>6. stages = proto.dpi_stages /\ stages \in Seq(DpiStage)
    <2> DEFINE given == proto.dpi_stages
    <2> DEFINE S == [value : Nat, color : Nat \X Nat \X Nat]
    <2>1. /\ DOMAIN given = 1..Len(given) /\ Len(given) \in Nat
          /\ \A i \in 1..Len(given) : given[i] \in S
          /\ given = [i \in 1..Len(given) |-> given[i]]
      <3>1. given \in Seq(S)  OBVIOUS
      <3> HIDE DEF given, S
      <3> QED  BY <3>1, SequenceType
    <2>2. /\ \A i \in DOMAIN given : StageFromProto(given[i]) # Invalid
          /\ stages = [i \in DOMAIN given |-> StageFromProto(given[i])]
      BY <1>1 DEF StagesFromProto
    <2>3. ASSUME NEW i \in DOMAIN given
          PROVE  StageFromProto(given[i]) = given[i] /\ given[i] \in DpiStage
      <3> DEFINE stage == given[i]
      <3>1. stage \in [value : Nat, color : Nat \X Nat \X Nat]  BY <2>1
      <3>2. /\ TryU16(stage.value) # Invalid
            /\ \A j \in 1..3 : TryU8(stage.color[j]) # Invalid
            /\ StageFromProto(stage) = stage
        BY <2>2 DEF StageFromProto
      <3> HIDE DEF stage
      <3>3. PICK r \in Nat, g \in Nat, b \in Nat : stage.color = <<r, g, b>>  BY <3>1
      <3>4. r \in Byte /\ g \in Byte /\ b \in Byte
        <4>1. stage.color[1] = r /\ stage.color[2] = g /\ stage.color[3] = b  BY <3>3
        <4>2. TryU8(r) # Invalid /\ TryU8(g) # Invalid /\ TryU8(b) # Invalid
          <5>1. /\ TryU8(stage.color[1]) # Invalid
                /\ TryU8(stage.color[2]) # Invalid
                /\ TryU8(stage.color[3]) # Invalid
            BY <3>2
          <5> QED  BY <4>1, <5>1
        <4> QED  BY <4>2, Narrow
      <3>5. stage.color \in Color  BY <3>3, <3>4 DEF Color
      <3>6. stage.value \in Word  BY <3>1, <3>2, Narrow
      <3>7. stage \in DpiStage  BY <3>1, <3>5, <3>6 DEF DpiStage
      <3> QED  BY <3>2, <3>7 DEF stage
    <2>4. stages = given  BY <2>1, <2>2, <2>3
    <2> HIDE DEF given, S
    <2>5. \A i \in 1..Len(given) : given[i] \in DpiStage  BY <2>1, <2>3
    <2>6. given \in Seq(DpiStage)  BY <2>1, <2>5, SequenceOf
    <2> QED  BY <2>4, <2>6 DEF given
  <1> HIDE DEF stages
  <1>7. /\ DOMAIN config = DOMAIN DefaultConfig
        /\ config = [s \in DOMAIN DefaultConfig |-> config[s]]
        /\ config.polling_rate = RateFromProto(proto.polling_rate)
        /\ config.lift_off_distance = LodFromProto(proto.lift_off_distance)
        /\ config.sleep_timeout_seconds = AsU16(proto.sleep_timeout_seconds)
        /\ config.dpi_stages = stages
        /\ config.current_dpi_index = proto.current_dpi_index
    BY <1>1 DEF WithDefaults, DefaultConfig
  <1>8. \A s \in Switches : config[s] = proto.switches[s] /\ config[s] \in BOOLEAN
    BY <1>1 DEF WithDefaults, DefaultConfig, Switches
  <1>9. /\ config.debounce_time = 0 /\ config.motion_sync = FALSE
        /\ config.moving_off_light_time = 0 /\ config.performance_time = 60
        /\ config.sensor_mode = 1 /\ config.sensor_20k = FALSE
    BY <1>1 DEF WithDefaults, DefaultConfig, Switches
  <1> HIDE DEF config
  <1>10. config \in MouseConfig
    <2>1. 0 \in Byte /\ 60 \in SleepTime /\ 1 \in SensorMode
      BY DEF Byte, SleepTime, SleepTimeCode, SensorMode
    <2>2. /\ config.angle_snapping \in BOOLEAN /\ config.ripple_control \in BOOLEAN
          /\ config.high_speed_mode \in BOOLEAN /\ config.long_distance_mode \in BOOLEAN
      BY <1>8 DEF Switches
    <2>3. config.motion_sync \in BOOLEAN /\ config.sensor_20k \in BOOLEAN  BY <1>9
    <2>4. config.dpi_stages \in Seq(DpiStage)  BY <1>6, <1>7
    <2> QED
      BY <1>2, <1>3, <1>4, <1>5, <1>7, <1>9, <2>1, <2>2, <2>3, <2>4, IsMouseConfig
  <1>11. config # Invalid  BY <1>10, InvalidAssumption
  <1> QED  BY <1>6, <1>7, <1>9, <1>10, <1>11 DEF config

-----------------------------------------------------------------------------
\* The inductive invariant: the settings can be read and applied again, and a running call
\* sends only safe packets.
Inv ==
    /\ DOMAIN device = {"memory", "long_distance", "profile"}
    /\ device.long_distance \in BOOLEAN
    /\ AcceptableIn(device.memory)
    /\ SafeScript(steps)

LEMMA TakenKeeps ==
    ASSUME Inv, NEW step, SafeStep(step), step.op # "reject"
    PROVE  /\ DOMAIN Taken(step) = {"memory", "long_distance", "profile"}
           /\ Taken(step).long_distance \in BOOLEAN
           /\ AcceptableIn(Taken(step).memory)
  <1>1. /\ DOMAIN device = {"memory", "long_distance", "profile"}
        /\ device.long_distance \in BOOLEAN
        /\ AcceptableIn(device.memory)
    BY DEF Inv
  <1>2. CASE step.op = "store"
    <2>1. AcceptableIn(Overlay(device.memory, step.address, step.data))
      BY <1>1, <1>2, HarmlessKeeps DEF SafeStep
    <2> QED  BY <1>1, <1>2, <2>1 DEF Taken
  <1>3. CASE step.op = "reset"
    BY <1>1, <1>3, FactoryAssumption DEF Taken
  <1>4. CASE step.op = "range"
    BY <1>1, <1>4 DEF Taken
  <1>5. CASE step.op = "profile"
    BY <1>1, <1>5 DEF Taken
  <1> QED  BY <1>2, <1>3, <1>4, <1>5 DEF SafeStep

LEMMA SafeHeadAndTail ==
    ASSUME NEW script, SafeScript(script), script # << >>
    PROVE  SafeStep(Head(script)) /\ SafeScript(Tail(script))
  BY HeadAndTail DEF SafeScript

LEMMA NothingSafe == SafeScript(<< >>)
  BY NoPacket DEF SafeScript

(* Calls. *)

LEMMA CallSafe ==
    ASSUME Inv, NEW script, NEW want, SafeScript(script), Call(script, want)
    PROVE  Inv'
  BY DEF Inv, Call

LEMMA RefusalSafe ==
    ASSUME NEW wrong, NEW script, ~wrong => SafeScript(script)
    PROVE  SafeScript(Unless(wrong, script))
  BY SettersSafe DEF Unless

\* Requests number stages, keys and slots.
LEMMA IndicesAre == Stages \cup {8} \subseteq Nat /\ Slots \cup {8} \subseteq Nat
  <1>1. Stages \subseteq 0..7 /\ Slots \subseteq 0..7  BY RequestsAssumption
  <1> QED  BY <1>1

\* The stage a request means: its own, or the current one.
LEMMA StageNatural ==
    ASSUME Inv, NEW option \in StageOptions
    PROVE  StageOf(option) \in Nat
  <1>1. CASE option = {}
    BY <1>1 DEF StageOf, Inv, AcceptableIn, ReadableIn, get_current_dpi_index
  <1>2. CASE option # {}
    <2>1. PICK n \in Stages \cup {8} : option = {n}  BY <1>2 DEF StageOptions
    <2>2. n \in Nat  BY <2>1, IndicesAre
    <2> QED  BY <1>2, <2>1, <2>2 DEF StageOf
  <1> QED  BY <1>1, <1>2

LEMMA DaemonCallSafe == ASSUME Inv, DaemonCall PROVE Inv'
  <1>1. ASSUME NEW proto \in Protos, SetConfig(proto) PROVE Inv'
    <2> DEFINE config == ConfigFromProto(proto)
    <2>1. CASE config = Invalid
      BY <1>1, <2>1, SettersSafe, CallSafe DEF SetConfig
    <2>2. CASE config # Invalid
      <3>1. /\ proto.switches \in [Switches -> BOOLEAN]
            /\ proto.dpi_stages \in Seq([value : Nat, color : Nat \X Nat \X Nat])
            /\ proto.current_dpi_index \in Nat /\ proto.sleep_timeout_seconds \in Nat
        BY RequestsAssumption
      <3>2. /\ RateFromProto(proto.polling_rate) # Invalid
            /\ LodFromProto(proto.lift_off_distance) # Invalid
            /\ StagesFromProto(proto.dpi_stages) # Invalid
            /\ TryU8(proto.current_dpi_index) # Invalid
        BY <2>2 DEF ConfigFromProto
      <3>3. config \in MouseConfig  BY <3>1, <3>2, ConvertedIsConfig
      <3>4. SafeScript(set_config(config))
        <4> HIDE DEF config
        <4> QED  BY <3>3, ConfigSafe
      <3> QED  BY <1>1, <2>2, <3>4, CallSafe DEF SetConfig
    <2> QED  BY <2>1, <2>2
  <1>2. ASSUME NEW n \in Numbers, SetPollingRate(n) PROVE Inv'
    <2>1. RateFromProto(n) # Invalid => RateFromProto(n) \in PollingRate
      BY DEF RateFromProto, RatesAscending, PollingRate, PollingRateCode
    <2>2. RateFromProto(n) # Invalid => SafeScript(set_polling_rate(RateFromProto(n)))
      BY <2>1, SettersSafe
    <2> QED  BY <1>2, <2>2, SettersSafe, CallSafe DEF SetPollingRate
  <1>3. ASSUME NEW n \in Numbers, SetLiftOffDistance(n) PROVE Inv'
    <2>1. LodFromProto(n) # Invalid => LodFromProto(n) \in LiftOffDistance
      BY DEF LodFromProto, LodAscending, LiftOffDistance, LiftOffCode
    <2>2. LodFromProto(n) # Invalid => SafeScript(set_lift_off_distance(LodFromProto(n)))
      BY <2>1, SettersSafe
    <2> QED  BY <1>3, <2>2, SettersSafe, CallSafe DEF SetLiftOffDistance
  <1>4. ASSUME NEW n \in Numbers, SetSleepTimeout(n) PROVE Inv'
    <2>1. AsU16(n) \in Nat
      <3>1. n \in Nat  BY RequestsAssumption
      <3>2. AsU16(n) \in Word  BY <3>1, Narrow
      <3>3. Word \subseteq Nat  BY Widths
      <3> QED  BY <3>2, <3>3
    <2>2. SafeScript(set_sleep_timeout(AsU16(n)))  BY <2>1, SettersSafe
    <2> QED  BY <1>4, <2>2, CallSafe DEF SetSleepTimeout
  <1>5. ASSUME NEW n \in Numbers, SetCurrentDpiIndex(n) PROVE Inv'
    <2>1. SafeScript(set_current_dpi_index(n))  BY RequestsAssumption, SettersSafe
    <2> QED  BY <1>5, <2>1, SettersSafe, CallSafe DEF SetCurrentDpiIndex, Unless
  <1>6. ASSUME NEW n \in Numbers, SetDpiCount(n) PROVE Inv'
    <2>1. SafeScript(set_dpi_count(n))  BY RequestsAssumption, SettersSafe
    <2> QED  BY <1>6, <2>1, SettersSafe, CallSafe DEF SetDpiCount, Unless
  <1>7. ASSUME NEW n \in Numbers, NEW option \in StageOptions, SetDpiValue(n, option)
        PROVE  Inv'
    <2>1. SafeScript(set_dpi_value(StageOf(option), n))  BY StageNatural, SettersSafe
    <2> QED  BY <1>7, <2>1, SettersSafe, CallSafe DEF SetDpiValue, Unless
  <1>8. ASSUME NEW color \in Colors, NEW option \in StageOptions, SetDpiColor(color, option)
        PROVE  Inv'
    <2> DEFINE script == set_dpi_color(StageOf(option), color)
               narrow == \A i \in 1..3 : TryU8(color[i]) # Invalid
    <2>1. narrow => color \in Color
      <3>1. PICK r \in Nat, g \in Nat, b \in Nat : color = <<r, g, b>>  BY RequestsAssumption
      <3>2. color[1] = r /\ color[2] = g /\ color[3] = b  BY <3>1
      <3>3. narrow => TryU8(r) # Invalid /\ TryU8(g) # Invalid /\ TryU8(b) # Invalid
        BY <3>2
      <3>4. narrow => r \in Byte /\ g \in Byte /\ b \in Byte  BY <3>3, Narrow
      <3> QED  BY <3>1, <3>4 DEF Color
    <2>2. narrow => SafeScript(script)  BY <2>1, StageNatural, SettersSafe
    <2>3. Invalid \notin {TryU8(StageOf(option))} \cup {TryU8(color[i]) : i \in 1..3} => narrow
      OBVIOUS
    <2> QED  BY <1>8, <2>2, <2>3, SettersSafe, CallSafe DEF SetDpiColor, Unless
  <1>9. ASSUME NEW on \in BOOLEAN,
               SetAngleSnapping(on) \/ SetRippleControl(on) \/ SetHighSpeedMode(on)
                 \/ SetLongDistanceMode(on)
        PROVE  Inv'
    BY <1>9, SwitchesSafe, SettersSafe, CallSafe
       DEF SetAngleSnapping, SetRippleControl, SetHighSpeedMode, SetLongDistanceMode,
           OFFSET_ANGLE_SNAPPING, OFFSET_RIPPLE_CONTROL, OFFSET_HIGH_SPEED_MODE
  <1> QED  BY <1>1, <1>2, <1>3, <1>4, <1>5, <1>6, <1>7, <1>8, <1>9 DEF DaemonCall

LEMMA LibraryCallSafe == ASSUME Inv, LibraryCall PROVE Inv'
  <1>1. ASSUME NEW config \in Configs, ApplyConfig(config) PROVE Inv'
    <2>1. config \in MouseConfig  BY RequestsAssumption
    <2> QED  BY <1>1, <2>1, ConfigSafe, CallSafe DEF ApplyConfig
  <1>2. ASSUME NEW on \in BOOLEAN, SetMotionSync(on) \/ SetSensor20kMode(on) PROVE Inv'
    BY <1>2, SwitchesSafe, CallSafe
       DEF SetMotionSync, SetSensor20kMode, OFFSET_MOTION_SYNC, OFFSET_SENSOR_20K
  <1>3. ASSUME NEW n \in Numbers \cap Byte,
               SetDebounceTime(n) \/ SetMovingOffLightTime(n) \/ SetCurrentProfile(n)
        PROVE  Inv'
    <2>1. n \in Nat /\ n \in Byte  BY RequestsAssumption
    <2> QED
      BY <1>3, <2>1, SettersSafe, CallSafe
         DEF SetDebounceTime, SetMovingOffLightTime, SetCurrentProfile
  <1>4. ASSUME NEW n, SetSensorMode(n) \/ SetPerformanceTime(n) PROVE Inv'
    BY <1>4, SettersSafe, CallSafe DEF SetSensorMode, SetPerformanceTime
  <1>5. ASSUME NEW light \in Lights, SetLightSettings(light) PROVE Inv'
    <2>1. light.color \in Color  BY ValuesAssumption
    <2> QED  BY <1>5, <2>1, GroupsSafe, CallSafe DEF SetLightSettings
  <1>6. ASSUME NEW effect, SetDpiEffect(effect) PROVE Inv'
    BY <1>6, GroupsSafe, CallSafe DEF SetDpiEffect
  <1>7. ASSUME NEW index \in Stages \cup {8}, NEW key, SetKeyFunction(index, key) PROVE Inv'
    <2>1. index \in Nat  BY IndicesAre
    <2> QED  BY <1>7, <2>1, GroupsSafe, CallSafe DEF SetKeyFunction
  <1>8. ASSUME NEW slot \in Slots \cup {8}, NEW x, SetShortcutKey(slot, x) \/ SetMacro(slot, x)
        PROVE  Inv'
    <2>1. slot \in Nat  BY IndicesAre
    <2> QED  BY <1>8, <2>1, GroupsSafe, CallSafe DEF SetShortcutKey, SetMacro
  <1>9. ASSUME FactoryReset PROVE Inv'
    BY <1>9, SettersSafe, CallSafe DEF FactoryReset
  <1> QED  BY <1>1, <1>2, <1>3, <1>4, <1>5, <1>6, <1>7, <1>8, <1>9 DEF LibraryCall

(* The invariant. *)

LEMMA InvInit == Init => Inv
  <1> SUFFICES ASSUME Init PROVE Inv  OBVIOUS
  <1>1. device = [memory |-> Factory, long_distance |-> FALSE, profile |-> 0]  BY DEF Init
  <1>2. /\ DOMAIN device = {"memory", "long_distance", "profile"}
        /\ device.long_distance \in BOOLEAN /\ device.memory = Factory
    BY <1>1
  <1> QED  BY <1>2, FactoryAssumption, NothingSafe DEF Init, Inv

LEMMA InvNext == Inv /\ [Next]_vars => Inv'
  <1> SUFFICES ASSUME Inv, [Next]_vars PROVE Inv'  OBVIOUS
  <1>1. CASE DaemonCall  BY <1>1, DaemonCallSafe
  <1>2. CASE LibraryCall  BY <1>2, LibraryCallSafe
  <1>3. CASE Accepted
    <2>1. SafeStep(Head(steps)) /\ SafeScript(Tail(steps))
      BY <1>3, SafeHeadAndTail DEF Accepted, Sending, Inv
    <2>2. Head(steps).op # "reject"  BY <1>3 DEF Accepted, Sending
    <2> QED  BY <1>3, <2>1, <2>2, TakenKeeps DEF Accepted, Inv
  <1>4. CASE Refused
    <2>1. SafeScript(Tail(steps))
      BY <1>4, SafeHeadAndTail DEF Refused, Sending, Inv
    <2> QED  BY <1>4, <2>1, NothingSafe DEF Refused, Fail, Inv
  <1>5. CASE Interrupted
    <2>1. SafeStep(Head(steps)) /\ Head(steps).op # "reject"
      BY <1>5, SafeHeadAndTail DEF Interrupted, Sending, Inv
    <2> QED  BY <1>5, <2>1, TakenKeeps, NothingSafe DEF Interrupted, Fail, Inv
  <1>6. CASE Rejected
    BY <1>6, NothingSafe DEF Rejected, Fail, Inv
  <1>7. CASE Finish
    BY <1>7 DEF Finish, Inv
  <1>8. CASE UNCHANGED vars
    BY <1>8 DEF vars, Inv
  <1> QED  BY <1>1, <1>2, <1>3, <1>4, <1>5, <1>6, <1>7, <1>8 DEF Next

\* However calls fail or are dropped half-way, the memory they leave has a known rate and
\* lift-off distance and at most eight stages: get_config (mouse.rs) can make sense of it.
THEOREM ReadableCorrect == Spec => []Readable
  <1>1. Inv => Readable  BY DEF Inv, AcceptableIn, Readable
  <1> QED  BY <1>1, InvInit, InvNext, PTL DEF Spec

-----------------------------------------------------------------------------
(* What was read can be applied. *)

\* The setters accept every value of the configuration.
Acceptable(config) ==
    /\ config \in MouseConfig
    /\ config.sleep_timeout_seconds <= 2550
    /\ config.debounce_time <= 30
    /\ config.current_dpi_index < 8
    /\ Len(config.dpi_stages) <= 8
    /\ \A i \in 1..Len(config.dpi_stages) : config.dpi_stages[i].value \in DPI_MIN..DPI_MAX

LEMMA NotRejected ==
    /\ \A offset, value : ByteStep(offset, value).op # "reject"
    /\ \A address, data : FlashStep(address, data).op # "reject"
    /\ \A payload : CommandStep("range", payload).op # "reject"
  BY DEF ByteStep, FlashStep, CommandStep, Step

LEMMA DpiWritesAccepted ==
    ASSUME NEW config, Acceptable(config)
    PROVE  \A p \in Packets(DpiWrites(config)) : p.op # "reject"
  <1> DEFINE stages == config.dpi_stages
             index  == config.current_dpi_index
             n      == Len(stages) % 256
  <1>1. /\ Len(stages) \in Nat /\ Len(stages) <= 8
        /\ index \in Nat /\ index < 8
        /\ \A i \in 1..Len(stages) : stages[i].value \in DPI_MIN..DPI_MAX
    BY StageType, ConfigFields DEF Acceptable
  <1>2. CASE stages = << >>
    <2>1. Packets(DpiWrites(config)) = {}  BY <1>1, <1>2, DpiWritesPackets
    <2> QED  BY <2>1
  <1>3. CASE stages # << >>
    <2>1. Len(stages) # 0
      <3>1. stages \in Seq(DpiStage)  BY StageType DEF Acceptable
      <3> HIDE DEF stages
      <3> QED  BY <1>3, <3>1
    <2>2. n \in Nat /\ ~(n = 0 \/ n > 8)
      <3>1. \A m \in Nat : m <= 8 => m % 256 = m  OBVIOUS
      <3> HIDE DEF stages
      <3> QED  BY <1>1, <2>1, <3>1
    <2>3. Packets(DpiWrites(config)) =
            Packets(set_dpi_count(n)) \cup Packets(StageWrites(stages))
              \cup Packets(set_current_dpi_index(index))
      BY <1>1, <1>3, DpiWritesPackets
    <2> HIDE DEF n
    <2>4. Packets(set_dpi_count(n)) = {ByteStep(2, n)}  BY <2>2, SetterPackets
    <2>5. Packets(set_current_dpi_index(index)) = {ByteStep(4, index)}
      <3>1. ~(index >= 8)  BY <1>1
      <3> QED  BY <3>1, SetterPackets
    <2>6. ASSUME NEW p \in Packets(StageWrites(stages)) PROVE p.op # "reject"
      <3>1. PICK k \in 0..(Len(stages) - 1) : \/ p = DpiValueStep(k, stages[k + 1].value)
                                              \/ p = DpiColorStep(k, stages[k + 1].color)
        BY <1>1, StagePackets
      <3>2. ~(k >= 8) /\ k + 1 \in 1..Len(stages)  BY <1>1
      <3>3. stages[k + 1].value \in DPI_MIN..DPI_MAX  BY <1>1, <3>2
      <3> HIDE DEF stages
      <3> QED  BY <3>1, <3>2, <3>3, NotRejected DEF DpiValueStep, DpiColorStep
    <2> QED  BY <2>3, <2>4, <2>5, <2>6, NotRejected
  <1> QED  BY <1>2, <1>3

LEMMA AcceptableIsApplicable ==
    ASSUME NEW config, Acceptable(config)
    PROVE  Applicable(config)
  <1>1. config # Invalid  BY InvalidAssumption DEF Acceptable
  <1>2. Len(config.dpi_stages) \in Nat  BY StageType DEF Acceptable
  <1>3. /\ ~(config.sleep_timeout_seconds > 2550)
        /\ ~(config.debounce_time > 30)
    BY ConfigFields DEF Acceptable
  <1>4. \A p \in Packets(set_sleep_timeout(config.sleep_timeout_seconds))
               \cup Packets(set_debounce_time(config.debounce_time)) : p.op # "reject"
    BY <1>3, SetterPackets, NotRejected
  <1>5. \A p \in Packets(set_config(config)) : p.op # "reject"
    BY <1>2, <1>4, ConfigPackets, DpiWritesAccepted, NotRejected
  <1> QED  BY <1>1, <1>5 DEF Applicable, Packets

\* What is read from an acceptable memory is acceptable.
LEMMA CodeFound ==
    ASSUME NEW code, NEW byte, \E v \in DOMAIN code : code[v] = byte
    PROVE  FromCode(code, byte) \in DOMAIN code
  BY DEF FromCode

LEMMA StagesRead ==
    ASSUME NEW mem, AcceptableIn(mem)
    PROVE  /\ get_dpi_stages(mem) \in Seq(DpiStage)
           /\ get_dpi_stages(mem) # Invalid
           /\ Len(get_dpi_stages(mem)) <= 8
           /\ \A i \in 1..Len(get_dpi_stages(mem)) :
                get_dpi_stages(mem)[i].value \in DPI_MIN..DPI_MAX
  <1> DEFINE n == At(mem, 2)
             stages == get_dpi_stages(mem)
  <1>1. n \in Nat /\ n <= 8  BY AcceptableIs
  <1>2. stages = [k \in 1..n |-> [value |-> get_dpi_value(mem, k - 1),
                                  color |-> get_dpi_color(mem, k - 1)]]
    BY <1>1 DEF get_dpi_stages, get_dpi_count, OFFSET_MAX_DPI
  <1> HIDE DEF n, stages
  <1>3. ASSUME NEW k \in 1..n
        PROVE  stages[k].value \in DPI_MIN..DPI_MAX /\ stages[k] \in DpiStage
    <2>1. k - 1 \in 0..7  BY <1>1
    <2>2. /\ get_dpi_value(mem, k - 1) \in DPI_MIN..DPI_MAX
          /\ get_dpi_color(mem, k - 1) \in Color
      BY <2>1 DEF AcceptableIn
    <2>3. \A v \in DPI_MIN..DPI_MAX : v \in Word
      <3>1. \A v \in DPI_MIN..DPI_MAX : v \in Nat /\ v < 65536  BY DpiBounds
      <3> QED  BY <3>1, Widths
    <2>4. stages[k] = [value |-> get_dpi_value(mem, k - 1), color |-> get_dpi_color(mem, k - 1)]
      BY <1>2
    <2>5. stages[k].value \in DPI_MIN..DPI_MAX  BY <2>2, <2>4
    <2>6. stages[k] \in DpiStage  BY <2>2, <2>3, <2>4 DEF DpiStage
    <2> QED  BY <2>5, <2>6
  <1>4. stages = [k \in 1..n |-> stages[k]]  BY <1>2
  <1>5. stages \in Seq(DpiStage)  BY <1>1, <1>3, <1>4, SequenceOf
  <1>6. Len(stages) = n  BY <1>1, <1>4, <1>5
  <1>7. stages # Invalid  BY <1>5, InvalidAssumption
  <1> QED  BY <1>1, <1>3, <1>5, <1>6, <1>7 DEF stages

\* What get_config reports, in terms of the memory.
LEMMA ConfigRead ==
    ASSUME NEW dev, AcceptableIn(dev.memory)
    PROVE  LET mem == dev.memory IN
           /\ get_polling_rate(mem) \in PollingRate
           /\ get_lift_off_distance(mem) \in LiftOffDistance
           /\ get_config(dev) =
                [polling_rate          |-> get_polling_rate(mem),
                 lift_off_distance     |-> get_lift_off_distance(mem),
                 sleep_timeout_seconds |-> get_sleep_timeout(mem),
                 angle_snapping        |-> get_bool(mem, OFFSET_ANGLE_SNAPPING),
                 ripple_control        |-> get_bool(mem, OFFSET_RIPPLE_CONTROL),
                 high_speed_mode       |-> get_bool(mem, OFFSET_HIGH_SPEED_MODE),
                 long_distance_mode    |-> dev.long_distance,
                 debounce_time         |-> get_debounce_time(mem),
                 motion_sync           |-> get_bool(mem, OFFSET_MOTION_SYNC),
                 moving_off_light_time |-> get_moving_off_light_time(mem),
                 performance_time      |-> get_performance_time(mem),
                 sensor_mode           |-> get_sensor_mode(mem),
                 sensor_20k            |-> get_bool(mem, OFFSET_SENSOR_20K),
                 dpi_stages            |-> get_dpi_stages(mem),
                 current_dpi_index     |-> get_current_dpi_index(mem)]
  <1> DEFINE mem == dev.memory
  <1>1. get_polling_rate(mem) \in PollingRate /\ get_lift_off_distance(mem) \in LiftOffDistance
    <2>1. At(mem, 0) \in RateCodes /\ At(mem, 10) \in DistanceCodes  BY AcceptableIs
    <2>2. get_polling_rate(mem) \in PollingRate
      BY <2>1, CodeFound DEF get_polling_rate, OFFSET_REPORT_RATE, RateCodes, PollingRate
    <2>3. get_lift_off_distance(mem) \in LiftOffDistance
      BY <2>1, CodeFound
         DEF get_lift_off_distance, OFFSET_LIFT_OFF_DISTANCE, DistanceCodes, LiftOffDistance
    <2> QED  BY <2>2, <2>3
  <1>2. get_polling_rate(mem) # Invalid /\ get_lift_off_distance(mem) # Invalid
    <2>1. PollingRate \subseteq Nat /\ LiftOffDistance \subseteq Nat
      BY DEF PollingRate, PollingRateCode, LiftOffDistance, LiftOffCode
    <2> QED  BY <1>1, <2>1, InvalidAssumption
  <1>3. get_dpi_stages(mem) # Invalid  BY StagesRead
  <1> QED  BY <1>1, <1>2, <1>3 DEF get_config

LEMMA ReadIsAcceptable ==
    ASSUME NEW dev, AcceptableIn(dev.memory), dev.long_distance \in BOOLEAN
    PROVE  Acceptable(get_config(dev))
  <1> DEFINE mem    == dev.memory
             config == get_config(dev)
  <1>1. get_polling_rate(mem) \in PollingRate  BY ConfigRead
  <1>2. get_lift_off_distance(mem) \in LiftOffDistance  BY ConfigRead
  <1>3. get_sleep_timeout(mem) \in Word /\ get_sleep_timeout(mem) <= 2550
    <2> DEFINE b == At(mem, 173)
    <2>1. b \in Byte  BY AcceptableIs
    <2>2. get_sleep_timeout(mem) = 10 * b  BY DEF get_sleep_timeout, OFFSET_SLEEP_TIMEOUT
    <2> HIDE DEF b
    <2>3. b \in Nat /\ b < 256  BY <2>1, Widths
    <2>4. 10 * b \in Nat /\ 10 * b <= 2550 /\ 10 * b < 65536  BY <2>3
    <2>5. 10 * b \in Word
      <3> DEFINE m == 10 * b
      <3>1. m \in Nat /\ m < 65536  BY <2>4
      <3> HIDE DEF m
      <3>2. m \in Word  BY <3>1, Widths
      <3> QED  BY <3>2 DEF m
    <2> QED  BY <2>2, <2>4, <2>5
  <1>4. get_debounce_time(mem) \in Byte /\ get_debounce_time(mem) <= 30
    <2>1. At(mem, 169) \in 0..30  BY AcceptableIs
    <2>2. At(mem, 169) \in Nat /\ At(mem, 169) < 256 /\ At(mem, 169) <= 30  BY <2>1
    <2> QED  BY <2>2, Widths DEF get_debounce_time, OFFSET_DEBOUNCE_TIME
  <1>5. get_moving_off_light_time(mem) \in Byte
    BY AcceptableIs DEF get_moving_off_light_time, OFFSET_MOVING_OFF_LIGHT
  <1>6. get_current_dpi_index(mem) \in Byte /\ get_current_dpi_index(mem) < 8
    <2>1. At(mem, 4) \in 0..7  BY AcceptableIs
    <2>2. At(mem, 4) \in Nat /\ At(mem, 4) < 256 /\ At(mem, 4) < 8  BY <2>1
    <2> QED  BY <2>2, Widths DEF get_current_dpi_index, OFFSET_CURRENT_DPI
  <1>7. get_performance_time(mem) \in SleepTime
    <2> DEFINE time == FromCode(SleepTimeCode, At(mem, OFFSET_PERFORMANCE_TIME))
    <2>1. time = Invalid \/ time \in SleepTime  BY DEF FromCode, SleepTime
    <2>2. 10 \in SleepTime  BY DEF SleepTime, SleepTimeCode
    <2>3. get_performance_time(mem) = IF time = Invalid THEN 10 ELSE time
      BY DEF get_performance_time, OrElse
    <2> HIDE DEF time
    <2> QED  BY <2>1, <2>2, <2>3
  <1>8. get_sensor_mode(mem) \in SensorMode
    BY DEF get_sensor_mode, SensorMode
  <1>9. \A offset : get_bool(mem, offset) \in BOOLEAN
    BY DEF get_bool
  <1>10. /\ get_dpi_stages(mem) \in Seq(DpiStage)
         /\ get_dpi_stages(mem) # Invalid
         /\ Len(get_dpi_stages(mem)) <= 8
         /\ \A i \in 1..Len(get_dpi_stages(mem)) :
              get_dpi_stages(mem)[i].value \in DPI_MIN..DPI_MAX
    BY StagesRead
  <1>11. config =
           [polling_rate          |-> get_polling_rate(mem),
            lift_off_distance     |-> get_lift_off_distance(mem),
            sleep_timeout_seconds |-> get_sleep_timeout(mem),
            angle_snapping        |-> get_bool(mem, OFFSET_ANGLE_SNAPPING),
            ripple_control        |-> get_bool(mem, OFFSET_RIPPLE_CONTROL),
            high_speed_mode       |-> get_bool(mem, OFFSET_HIGH_SPEED_MODE),
            long_distance_mode    |-> dev.long_distance,
            debounce_time         |-> get_debounce_time(mem),
            motion_sync           |-> get_bool(mem, OFFSET_MOTION_SYNC),
            moving_off_light_time |-> get_moving_off_light_time(mem),
            performance_time      |-> get_performance_time(mem),
            sensor_mode           |-> get_sensor_mode(mem),
            sensor_20k            |-> get_bool(mem, OFFSET_SENSOR_20K),
            dpi_stages            |-> get_dpi_stages(mem),
            current_dpi_index     |-> get_current_dpi_index(mem)]
    BY ConfigRead
  <1> HIDE DEF config, mem
  <1>12. config \in MouseConfig
    BY <1>1, <1>2, <1>3, <1>4, <1>5, <1>6, <1>7, <1>8, <1>9, <1>10, <1>11 DEF MouseConfig, mem
  <1>13. Acceptable(config)
    <2>1. /\ config.sleep_timeout_seconds = get_sleep_timeout(mem)
          /\ config.debounce_time = get_debounce_time(mem)
          /\ config.current_dpi_index = get_current_dpi_index(mem)
          /\ config.dpi_stages = get_dpi_stages(mem)
      BY <1>11
    <2> QED  BY <1>3, <1>4, <1>6, <1>10, <1>12, <2>1 DEF Acceptable
  <1> QED  BY <1>13 DEF config

-----------------------------------------------------------------------------
(* Through the daemon's messages and back. *)

LEMMA CodesRoundTrip ==
    /\ \A hz \in PollingRate : RateFromProto(RateToProto(hz)) = hz /\ hz # Invalid
    /\ \A d \in LiftOffDistance : LodFromProto(LodToProto(d)) = d /\ d # Invalid
  <1>1. \A hz \in PollingRate : \E n \in 1..7 : RatesAscending[n] = hz
    BY DEF PollingRate, PollingRateCode, RatesAscending
  <1>2. \A hz \in PollingRate : RateToProto(hz) \in 1..7 /\ RatesAscending[RateToProto(hz)] = hz
    BY <1>1 DEF RateToProto
  <1>3. \A d \in LiftOffDistance : \E n \in 1..3 : LodAscending[n] = d
    BY DEF LiftOffDistance, LiftOffCode, LodAscending
  <1>4. \A d \in LiftOffDistance : LodToProto(d) \in 1..3 /\ LodAscending[LodToProto(d)] = d
    BY <1>3 DEF LodToProto
  <1>5. PollingRate \subseteq Nat /\ LiftOffDistance \subseteq Nat
    BY DEF PollingRate, PollingRateCode, LiftOffDistance, LiftOffCode
  <1>6. \A n \in Nat : n # Invalid  BY InvalidAssumption
  <1> QED  BY <1>2, <1>4, <1>5, <1>6 DEF RateFromProto, LodFromProto

\* A stage fits into the message, and comes back.
LEMMA StageConverts ==
    ASSUME NEW stage \in DpiStage
    PROVE  /\ stage \in [value : Nat, color : Nat \X Nat \X Nat]
           /\ StageFromProto(stage) = stage /\ stage # Invalid
  <1>1. stage.value \in Word /\ stage.color \in Color
        /\ stage = [value |-> stage.value, color |-> stage.color]
    BY DEF DpiStage
  <1>2. PICK r \in Byte, g \in Byte, b \in Byte : stage.color = <<r, g, b>>  BY <1>1 DEF Color
  <1>3. stage.value \in Nat /\ r \in Nat /\ g \in Nat /\ b \in Nat  BY <1>1, Widths
  <1>4. stage.color \in Nat \X Nat \X Nat  BY <1>2, <1>3
  <1>5. TryU16(stage.value) # Invalid  BY <1>1, <1>3, Narrow
  <1>6. TryU8(r) # Invalid /\ TryU8(g) # Invalid /\ TryU8(b) # Invalid  BY <1>3, Narrow
  <1>7. stage.color[1] = r /\ stage.color[2] = g /\ stage.color[3] = b  BY <1>2
  <1>8. \A i \in 1..3 : TryU8(stage.color[i]) # Invalid
    <2> TAKE i \in 1..3
    <2>1. i = 1 \/ i = 2 \/ i = 3  OBVIOUS
    <2> QED  BY <1>6, <1>7, <2>1
  <1>9. StageFromProto(stage) = stage  BY <1>5, <1>8 DEF StageFromProto
  <1>10. stage # Invalid  BY InvalidAssumption
  <1>11. stage \in [value : Nat, color : Nat \X Nat \X Nat]  BY <1>1, <1>3, <1>4
  <1> QED  BY <1>9, <1>10, <1>11

LEMMA StagesConvert ==
    ASSUME NEW stages \in Seq(DpiStage)
    PROVE  /\ [i \in DOMAIN stages |-> StageToProto(stages[i])] = stages
           /\ stages \in Seq([value : Nat, color : Nat \X Nat \X Nat])
           /\ StagesFromProto(stages) = stages /\ stages # Invalid
  <1> DEFINE S == [value : Nat, color : Nat \X Nat \X Nat]
  <1>1. /\ Len(stages) \in Nat /\ DOMAIN stages = 1..Len(stages)
        /\ \A i \in 1..Len(stages) : stages[i] \in DpiStage
        /\ stages = [i \in 1..Len(stages) |-> stages[i]]
    BY SequenceType
  <1>2. \A i \in 1..Len(stages) : /\ stages[i] \in S
                                  /\ StageFromProto(stages[i]) = stages[i]
                                  /\ stages[i] # Invalid
    BY <1>1, StageConverts
  <1>3. [i \in DOMAIN stages |-> StageToProto(stages[i])] = stages  BY <1>1 DEF StageToProto
  <1> HIDE DEF S
  <1>4. stages \in Seq(S)  BY <1>1, <1>2, SequenceOf
  <1>5. StagesFromProto(stages) = stages  BY <1>1, <1>2 DEF StagesFromProto
  <1>6. stages # Invalid  BY InvalidAssumption
  <1> QED  BY <1>3, <1>4, <1>5, <1>6 DEF S

LEMMA ConvertedIsAcceptable ==
    ASSUME NEW config, Acceptable(config)
    PROVE  Acceptable(ConfigFromProto(ConfigToProto(config)))
  <1> DEFINE proto == ConfigToProto(config)
             back  == ConfigFromProto(proto)
  <1>1. /\ config \in MouseConfig
        /\ config.sleep_timeout_seconds <= 2550
        /\ config.current_dpi_index < 8
        /\ Len(config.dpi_stages) <= 8
        /\ \A i \in 1..Len(config.dpi_stages) : config.dpi_stages[i].value \in DPI_MIN..DPI_MAX
    BY DEF Acceptable
  <1>2. config.dpi_stages \in Seq(DpiStage)  BY <1>1, StageType
  <1>3. /\ proto.polling_rate = RateToProto(config.polling_rate)
        /\ proto.lift_off_distance = LodToProto(config.lift_off_distance)
        /\ proto.sleep_timeout_seconds = config.sleep_timeout_seconds
        /\ proto.switches = [s \in Switches |-> config[s]]
        /\ proto.dpi_stages = [i \in DOMAIN config.dpi_stages |->
                                  StageToProto(config.dpi_stages[i])]
        /\ proto.current_dpi_index = config.current_dpi_index
    BY DEF ConfigToProto
  <1>4. proto.dpi_stages = config.dpi_stages  BY <1>2, <1>3, StagesConvert
  <1>5. /\ proto.dpi_stages \in Seq([value : Nat, color : Nat \X Nat \X Nat])
        /\ StagesFromProto(proto.dpi_stages) # Invalid
    BY <1>2, <1>4, StagesConvert
  <1>6. /\ RateFromProto(proto.polling_rate) # Invalid
        /\ LodFromProto(proto.lift_off_distance) # Invalid
    BY <1>1, <1>3, ConfigFields, CodesRoundTrip
  <1>7. proto.switches \in [Switches -> BOOLEAN]
    <2>1. \A s \in Switches : config[s] \in BOOLEAN  BY <1>1, ConfigFields DEF Switches
    <2> QED  BY <1>3, <2>1
  <1>8. /\ proto.sleep_timeout_seconds \in Nat
        /\ proto.current_dpi_index \in Nat
        /\ config.sleep_timeout_seconds \in Word
        /\ TryU8(proto.current_dpi_index) # Invalid
    <2>1. config.sleep_timeout_seconds \in Word /\ config.current_dpi_index \in Byte
      BY <1>1 DEF MouseConfig
    <2>2. config.sleep_timeout_seconds \in Nat /\ config.current_dpi_index \in Nat
      BY <1>1, ConfigFields
    <2> QED  BY <1>3, <2>1, <2>2, Narrow
  <1> HIDE DEF proto
  <1>9. /\ back \in MouseConfig
        /\ back.debounce_time = 0
        /\ back.sleep_timeout_seconds = AsU16(proto.sleep_timeout_seconds)
        /\ back.dpi_stages = proto.dpi_stages
        /\ back.current_dpi_index = proto.current_dpi_index
    BY <1>5, <1>6, <1>7, <1>8, ConvertedIsConfig
  <1> HIDE DEF back
  <1>10. back.sleep_timeout_seconds = config.sleep_timeout_seconds
    BY <1>3, <1>8, <1>9, Narrow
  <1>11. back.debounce_time <= 30  BY <1>9
  <1>12. Acceptable(back)
    BY <1>1, <1>3, <1>4, <1>9, <1>10, <1>11 DEF Acceptable
  <1> QED  BY <1>12 DEF back, proto

\* Whatever was asked of the mouse, and wherever calls failed half-way: what get_config
\* (mouse.rs:523) returns is accepted by every setter of set_config (mouse.rs:1139), and so is
\* what the daemon's messages make of it.
THEOREM ReapplicableCorrect == Spec => []Reapplicable
  <1>1. Inv => Reapplicable
    <2> SUFFICES ASSUME Inv PROVE Reapplicable  OBVIOUS
    <2>1. Acceptable(get_config(device))  BY ReadIsAcceptable DEF Inv
    <2>2. Acceptable(ConfigFromProto(ConfigToProto(get_config(device))))
      BY <2>1, ConvertedIsAcceptable
    <2> QED  BY <2>1, <2>2, AcceptableIsApplicable DEF Reapplicable
  <1> QED  BY <1>1, InvInit, InvNext, PTL DEF Spec

-----------------------------------------------------------------------------
(* Settings that fit into one packet. *)

LongDistance == Single("long_distance_mode")
Profile      == Single("profile")

\* The settings of one byte, at their offsets.
Offsets ==
    [polling_rate |-> 0, dpi_count |-> 2, current_dpi_index |-> 4, sensor_20k |-> 8,
     lift_off_distance |-> 10, debounce_time |-> 169, motion_sync |-> 171,
     sleep_timeout_seconds |-> 173, angle_snapping |-> 175, ripple_control |-> 177,
     moving_off_light_time |-> 179, high_speed_mode |-> 181, sensor_mode |-> 185]
ByteSettings  == DOMAIN Offsets
FlagSettings  == {"sensor_20k", "motion_sync", "angle_snapping", "ripple_control",
                  "high_speed_mode"}
FourSettings  == {"dpi_value", "dpi_color", "key_function"}
Whole         == {s \in Setting : s[1] \notin Spread}

\* What a byte says of the setting it holds.
ByteValue(name, b) ==
    IF name = "polling_rate" THEN FromCode(PollingRateCode, b)
    ELSE IF name = "lift_off_distance" THEN FromCode(LiftOffCode, b)
    ELSE IF name = "sleep_timeout_seconds" THEN 10 * b
    ELSE IF name \in FlagSettings THEN b = 1
    ELSE IF name = "sensor_mode" THEN (IF b \in SensorMode THEN b ELSE 0)
    ELSE b

\* What four bytes say.
FourValue(name, bytes) ==
    IF name = "dpi_value" THEN decode_dpi(bytes)
    ELSE IF name = "dpi_color" THEN FirstThree(bytes)
    ELSE OrElse(DecodeKey(bytes), DisabledKey)

FourOffset(name, k) ==
    IF name = "dpi_value" THEN 12 + 4 * k ELSE IF name = "dpi_color" THEN 44 + 4 * k ELSE 96 + 4 * k

\* What the memory says of a setting.
MemoryValue(mem, s) ==
    IF s[1] \in ByteSettings THEN ByteValue(s[1], At(mem, Offsets[s[1]]))
    ELSE FourValue(s[1], read_memory(mem, FourOffset(s[1], s[2]), 4))

Value(dev, s) ==
    IF s = LongDistance THEN dev.long_distance
    ELSE IF s = Profile THEN dev.profile
    ELSE MemoryValue(dev.memory, s)

LEMMA WholeCases ==
    ASSUME NEW s \in Whole
    PROVE  \/ s = LongDistance \/ s = Profile
           \/ \E name \in ByteSettings : s = <<name, 0>>
           \/ \E name \in FourSettings, k \in 0..7 : s = <<name, k>>
  <1>1. CASE \E name \in PlainSettings \cup {"dpi_count", "current_dpi_index", "light",
                                             "dpi_effect", "profile"} : s = Single(name)
    <2>1. PICK name \in PlainSettings \cup {"dpi_count", "current_dpi_index", "light",
                                            "dpi_effect", "profile"} : s = <<name, 0>>
      BY <1>1 DEF Single
    <2>2. name \notin Spread  BY <2>1 DEF Whole
    <2>3. name \in ByteSettings \cup {"long_distance_mode", "profile"}
      BY <2>2 DEF PlainSettings, DefaultConfig, Spread, ByteSettings, Offsets
    <2> QED  BY <2>1, <2>3 DEF LongDistance, Profile, Single
  <1>2. CASE s \in FourSettings \X Stages
    <2>1. PICK name \in FourSettings, k \in Stages : s = <<name, k>>  BY <1>2
    <2>2. k \in 0..7  BY RequestsAssumption
    <2> QED  BY <2>1, <2>2
  <1>3. CASE s \in {"shortcut", "macro"} \X Slots
    BY <1>3 DEF Whole, Spread
  <1> QED  BY <1>1, <1>2, <1>3 DEF Whole, Setting, FourSettings

LEMMA NamesApart ==
    /\ "long_distance_mode" \notin ByteSettings /\ "profile" \notin ByteSettings
    /\ \A name \in FourSettings : name \notin ByteSettings
    /\ \A name \in FourSettings : name # "long_distance_mode" /\ name # "profile"
  BY DEF ByteSettings, Offsets, FourSettings

\* What the memory says of each kind of setting.
LEMMA MemoryValueIs ==
    ASSUME NEW mem
    PROVE  /\ \A name \in ByteSettings :
                MemoryValue(mem, <<name, 0>>) = ByteValue(name, At(mem, Offsets[name]))
           /\ \A name \in FourSettings, k \in 0..7 :
                MemoryValue(mem, <<name, k>>)
                  = FourValue(name, read_memory(mem, FourOffset(name, k), 4))
  <1>1. ASSUME NEW name \in ByteSettings
        PROVE  MemoryValue(mem, <<name, 0>>) = ByteValue(name, At(mem, Offsets[name]))
    BY DEF MemoryValue
  <1>2. ASSUME NEW name \in FourSettings, NEW k \in 0..7
        PROVE  MemoryValue(mem, <<name, k>>)
                 = FourValue(name, read_memory(mem, FourOffset(name, k), 4))
    <2>1. <<name, k>>[1] = name /\ <<name, k>>[2] = k  OBVIOUS
    <2> QED  BY <2>1, NamesApart DEF MemoryValue
  <1> QED  BY <1>1, <1>2

\* The value of each kind of setting.
LEMMA ValueIs ==
    ASSUME NEW dev
    PROVE  /\ Value(dev, LongDistance) = dev.long_distance
           /\ Value(dev, Profile) = dev.profile
           /\ \A name \in ByteSettings :
                Value(dev, <<name, 0>>) = ByteValue(name, At(dev.memory, Offsets[name]))
           /\ \A name \in FourSettings, k \in 0..7 :
                Value(dev, <<name, k>>)
                  = FourValue(name, read_memory(dev.memory, FourOffset(name, k), 4))
           /\ \A s : s # LongDistance /\ s # Profile => Value(dev, s) = MemoryValue(dev.memory, s)
  <1>1. LongDistance # Profile  BY DEF LongDistance, Profile, Single
  <1>2. \A name \in ByteSettings \cup FourSettings, k \in 0..7 :
          <<name, k>> # LongDistance /\ <<name, k>> # Profile
    BY NamesApart DEF LongDistance, Profile, Single
  <1>3. 0 \in 0..7  OBVIOUS
  <1> QED  BY <1>1, <1>2, <1>3, MemoryValueIs DEF Value
LEMMA GotIs ==
    ASSUME NEW dev, AcceptableIn(dev.memory), NEW s \in Whole
    PROVE  Got(dev, get_config(dev), s) = Value(dev, s)
  <1> DEFINE mem == dev.memory
             config == get_config(dev)
  <1>1. /\ config.sleep_timeout_seconds = get_sleep_timeout(mem)
        /\ config.angle_snapping = get_bool(mem, OFFSET_ANGLE_SNAPPING)
        /\ config.ripple_control = get_bool(mem, OFFSET_RIPPLE_CONTROL)
        /\ config.high_speed_mode = get_bool(mem, OFFSET_HIGH_SPEED_MODE)
        /\ config.long_distance_mode = dev.long_distance
        /\ config.debounce_time = get_debounce_time(mem)
        /\ config.motion_sync = get_bool(mem, OFFSET_MOTION_SYNC)
        /\ config.moving_off_light_time = get_moving_off_light_time(mem)
        /\ config.sensor_mode = get_sensor_mode(mem)
        /\ config.sensor_20k = get_bool(mem, OFFSET_SENSOR_20K)
        /\ config.current_dpi_index = get_current_dpi_index(mem)
    BY ConfigRead
  <1> HIDE DEF config
  <1>2. CASE s = LongDistance
    <2>1. s[1] = "long_distance_mode"  BY <1>2 DEF LongDistance, Single
    <2>2. Got(dev, config, s) = config["long_distance_mode"]  BY <2>1 DEF Got
    <2> QED  BY <1>1, <1>2, <2>2, ValueIs DEF config
  <1>3. CASE s = Profile
    <2>1. s[1] = "profile"  BY <1>3 DEF Profile, Single
    <2>2. Got(dev, config, s) = dev.profile  BY <2>1 DEF Got
    <2> QED  BY <1>3, <2>2, ValueIs DEF config
  <1>4. ASSUME NEW name \in ByteSettings, s = <<name, 0>>
        PROVE  Got(dev, config, s) = Value(dev, s)
    <2> DEFINE b == At(mem, Offsets[name])
    <2>1. s[1] = name  BY <1>4
    <2>2. Value(dev, s) = ByteValue(name, b)  BY <1>4, ValueIs
    <2>3. CASE name = "polling_rate"
      <3>1. Got(dev, config, s) = get_polling_rate(mem)  BY <2>1, <2>3 DEF Got
      <3> QED
        BY <2>2, <2>3, <3>1 DEF ByteValue, Offsets, get_polling_rate, OFFSET_REPORT_RATE
    <2>4. CASE name = "lift_off_distance"
      <3>1. Got(dev, config, s) = get_lift_off_distance(mem)  BY <2>1, <2>4 DEF Got
      <3> QED
        BY <2>2, <2>4, <3>1
           DEF ByteValue, Offsets, get_lift_off_distance, OFFSET_LIFT_OFF_DISTANCE
    <2>5. CASE name = "dpi_count"
      <3>1. Got(dev, config, s) = get_dpi_count(mem)  BY <2>1, <2>5 DEF Got
      <3> QED
        BY <2>2, <2>5, <3>1 DEF ByteValue, FlagSettings, Offsets, get_dpi_count, OFFSET_MAX_DPI
    <2>6. CASE name \in FlagSettings
      <3>1. Got(dev, config, s) = config[name]  BY <2>1, <2>6 DEF Got, FlagSettings
      <3>2. config[name] = (b = 1)
        BY <1>1, <2>6 DEF FlagSettings, Offsets, get_bool, OFFSET_ANGLE_SNAPPING,
           OFFSET_RIPPLE_CONTROL, OFFSET_HIGH_SPEED_MODE, OFFSET_MOTION_SYNC, OFFSET_SENSOR_20K
      <3>3. ByteValue(name, b) = (b = 1)  BY <2>6 DEF ByteValue, FlagSettings
      <3> QED  BY <2>2, <3>1, <3>2, <3>3
    <2>7. CASE name \in {"current_dpi_index", "debounce_time", "sleep_timeout_seconds",
                         "moving_off_light_time", "sensor_mode"}
      <3>1. Got(dev, config, s) = config[name]  BY <2>1, <2>7 DEF Got
      <3>2. CASE name = "sleep_timeout_seconds"
        BY <1>1, <2>2, <3>1, <3>2 DEF ByteValue, Offsets, get_sleep_timeout, OFFSET_SLEEP_TIMEOUT
      <3>3. CASE name = "sensor_mode"
        BY <1>1, <2>2, <3>1, <3>3
           DEF ByteValue, FlagSettings, Offsets, get_sensor_mode, OFFSET_SENSOR_MODE
      <3>4. CASE name \in {"current_dpi_index", "debounce_time", "moving_off_light_time"}
        BY <1>1, <2>2, <3>1, <3>4
           DEF ByteValue, FlagSettings, Offsets, get_current_dpi_index, OFFSET_CURRENT_DPI,
               get_debounce_time, OFFSET_DEBOUNCE_TIME, get_moving_off_light_time,
               OFFSET_MOVING_OFF_LIGHT
      <3> QED  BY <2>7, <3>2, <3>3, <3>4
    <2>8. name \in {"polling_rate", "lift_off_distance", "dpi_count"} \cup FlagSettings
                   \cup {"current_dpi_index", "debounce_time", "sleep_timeout_seconds",
                         "moving_off_light_time", "sensor_mode"}
      BY DEF ByteSettings, Offsets, FlagSettings
    <2> QED  BY <2>3, <2>4, <2>5, <2>6, <2>7, <2>8
  <1>5. ASSUME NEW name \in FourSettings, NEW k \in 0..7, s = <<name, k>>
        PROVE  Got(dev, config, s) = Value(dev, s)
    <2> DEFINE bytes == read_memory(mem, FourOffset(name, k), 4)
    <2>1. s[1] = name /\ s[2] = k  BY <1>5
    <2>2. Value(dev, s) = FourValue(name, bytes)  BY <1>5, ValueIs
    <2>3. CASE name = "dpi_value"
      <3>1. Got(dev, config, s) = get_dpi_value(mem, k)  BY <2>1, <2>3 DEF Got
      <3> QED
        BY <2>2, <2>3, <3>1 DEF FourValue, FourOffset, get_dpi_value, OFFSET_DPI_VALUES
    <2>4. CASE name = "dpi_color"
      <3>1. Got(dev, config, s) = read_memory(mem, 44 + 4 * k, 3)
        BY <2>1, <2>4 DEF Got, get_dpi_color, OFFSET_DPI_COLORS
      <3>2. FirstThree(read_memory(mem, 44 + 4 * k, 4)) = read_memory(mem, 44 + 4 * k, 3)
        BY DEF FirstThree, read_memory
      <3> QED  BY <2>2, <2>4, <3>1, <3>2 DEF FourValue, FourOffset
    <2>5. CASE name = "key_function"
      <3>1. Got(dev, config, s) = get_key_function(mem, k)  BY <2>1, <2>5 DEF Got
      <3> QED
        BY <2>2, <2>5, <3>1 DEF FourValue, FourOffset, get_key_function, OFFSET_KEY_FUNCTIONS
    <2> QED  BY <2>3, <2>4, <2>5 DEF FourSettings
  <1>6. CASE \E name \in ByteSettings : s = <<name, 0>>  BY <1>4, <1>6 DEF config
  <1>7. CASE \E name \in FourSettings, k \in 0..7 : s = <<name, k>>  BY <1>5, <1>7 DEF config
  <1> QED  BY <1>2, <1>3, <1>6, <1>7, WholeCases
(* What a packet makes of a setting. *)

\* The device after it has taken a packet, whatever it was before.
After(dev, step) ==
    CASE step.op = "store"   -> [dev EXCEPT !.memory = Overlay(@, step.address, step.data)]
      [] step.op = "range"   -> [dev EXCEPT !.long_distance = step.data[1] = 1]
      [] step.op = "profile" -> [dev EXCEPT !.profile = step.data[1]]
      [] step.op = "reset"   -> [dev EXCEPT !.memory = Factory]

\* A packet changes no setting to anything but what is wanted.
Fits(step, want) ==
    step.op # "reject" =>
      \A dev : DOMAIN dev = {"memory", "long_distance", "profile"} =>
        \A s \in Whole :
          \/ Value(After(dev, step), s) = Value(dev, s)
          \/ s \in DOMAIN want /\ Value(After(dev, step), s) = want[s]

\* A write is clear of a setting, or sets it to what is wanted.
Sets(address, data, want) ==
    /\ \A name \in ByteSettings :
         \/ Clear(Offsets[name], Offsets[name] + 1, address, Len(data))
         \/ /\ address = Offsets[name] /\ Len(data) = 2
            /\ <<name, 0>> \in DOMAIN want /\ want[<<name, 0>>] = ByteValue(name, data[1])
    /\ \A name \in FourSettings, k \in 0..7 :
         \/ Clear(FourOffset(name, k), FourOffset(name, k) + 4, address, Len(data))
         \/ /\ address = FourOffset(name, k) /\ Len(data) = 4
            /\ <<name, k>> \in DOMAIN want /\ want[<<name, k>>] = FourValue(name, data)

LEMMA Places ==
    /\ \A name \in ByteSettings :
         Offsets[name] \in {0, 2, 4, 8, 10, 169, 171, 173, 175, 177, 179, 181, 185}
    /\ \A name \in FourSettings, k \in 0..7 : FourOffset(name, k) \in Nat
    /\ \A name \in FourSettings, k \in 0..7 :
         FourOffset(name, k) >= 12 /\ FourOffset(name, k) + 4 <= 128
  <1>1. \A name \in ByteSettings :
          Offsets[name] \in {0, 2, 4, 8, 10, 169, 171, 173, 175, 177, 179, 181, 185}
    BY DEF ByteSettings, Offsets
  <1>2. ASSUME NEW name \in FourSettings, NEW k \in 0..7
        PROVE  /\ FourOffset(name, k) \in Nat
               /\ FourOffset(name, k) >= 12 /\ FourOffset(name, k) + 4 <= 128
    BY DEF FourOffset
  <1> QED  BY <1>1, <1>2

LEMMA MemoryFits ==
    ASSUME NEW mem, NEW address \in Nat, NEW data, NEW want, Len(data) \in Nat,
           Len(data) = 4 => data = [i \in 1..4 |-> data[i]],
           Sets(address, data, want), NEW s \in Whole, s # LongDistance, s # Profile
    PROVE  \/ MemoryValue(Overlay(mem, address, data), s) = MemoryValue(mem, s)
           \/ s \in DOMAIN want /\ MemoryValue(Overlay(mem, address, data), s) = want[s]
  <1> DEFINE after == Overlay(mem, address, data)
  <1>0. Found(after, address, data)  BY WrittenIsFound
  <1>1. ASSUME NEW name \in ByteSettings, s = <<name, 0>>
        PROVE  \/ MemoryValue(after, s) = MemoryValue(mem, s)
               \/ s \in DOMAIN want /\ MemoryValue(after, s) = want[s]
    <2>1. \A m : MemoryValue(m, s) = ByteValue(name, At(m, Offsets[name]))
      BY <1>1, MemoryValueIs
    <2>2. Offsets[name] \in Nat  BY Places
    <2>3. CASE Clear(Offsets[name], Offsets[name] + 1, address, Len(data))
      <3>1. At(after, Offsets[name]) = At(mem, Offsets[name])
        BY <2>2, <2>3, AtElsewhere DEF Clear
      <3> HIDE DEF after
      <3> QED  BY <2>1, <3>1
    <2>4. CASE /\ address = Offsets[name] /\ Len(data) = 2
               /\ <<name, 0>> \in DOMAIN want /\ want[<<name, 0>>] = ByteValue(name, data[1])
      <3>1. At(after, address + 1 - 1) = data[1] /\ address + 1 - 1 = Offsets[name]
        <4> HIDE DEF after
        <4> QED  BY <1>0, <2>4 DEF Found
      <3> HIDE DEF after
      <3> QED  BY <1>1, <2>1, <2>4, <3>1
    <2> QED  BY <2>3, <2>4 DEF Sets
  <1>2. ASSUME NEW name \in FourSettings, NEW k \in 0..7, s = <<name, k>>
        PROVE  \/ MemoryValue(after, s) = MemoryValue(mem, s)
               \/ s \in DOMAIN want /\ MemoryValue(after, s) = want[s]
    <2> DEFINE offset == FourOffset(name, k)
    <2>1. \A m : MemoryValue(m, s) = FourValue(name, read_memory(m, offset, 4))
      BY <1>2, MemoryValueIs
    <2>2. offset \in Nat  BY Places
    <2>3. CASE Clear(offset, offset + 4, address, Len(data))
      <3>1. offset + 4 <= address \/ address + Len(data) <= offset  BY <2>3 DEF Clear
      <3> HIDE DEF offset
      <3>2. read_memory(after, offset, 4) = read_memory(mem, offset, 4)
        BY <2>2, <3>1, ReadElsewhere
      <3> HIDE DEF after
      <3> QED  BY <2>1, <3>2
    <2>4. CASE /\ address = offset /\ Len(data) = 4
               /\ <<name, k>> \in DOMAIN want /\ want[<<name, k>>] = FourValue(name, data)
      <3>1. \A i \in 1..4 : At(after, address + i - 1) = data[i]
        <4> HIDE DEF after
        <4> QED  BY <1>0, <2>4 DEF Found
      <3>2. read_memory(after, address, 4) = data
        <4> HIDE DEF after
        <4> QED  BY <2>4, <3>1 DEF read_memory
      <3> HIDE DEF after
      <3> QED  BY <1>2, <2>1, <2>4, <3>2
    <2> QED  BY <2>3, <2>4 DEF Sets
  <1> HIDE DEF after
  <1>3. CASE \E name \in ByteSettings : s = <<name, 0>>  BY <1>1, <1>3 DEF after
  <1>4. CASE \E name \in FourSettings, k \in 0..7 : s = <<name, k>>  BY <1>2, <1>4 DEF after
  <1> QED  BY <1>3, <1>4, WholeCases

LEMMA StoreFits ==
    ASSUME NEW check, NEW address, NEW data, NEW want,
           \A mem : \A s \in Whole : s # LongDistance /\ s # Profile =>
             \/ MemoryValue(Overlay(mem, address, data), s) = MemoryValue(mem, s)
             \/ s \in DOMAIN want /\ MemoryValue(Overlay(mem, address, data), s) = want[s]
    PROVE  Fits(Step("store", check, address, data), want)
  <1> DEFINE step == Step("store", check, address, data)
  <1> SUFFICES ASSUME NEW dev, DOMAIN dev = {"memory", "long_distance", "profile"},
                      NEW s \in Whole
               PROVE  \/ Value(After(dev, step), s) = Value(dev, s)
                      \/ s \in DOMAIN want /\ Value(After(dev, step), s) = want[s]
    BY DEF Fits
  <1>1. /\ After(dev, step).memory = Overlay(dev.memory, address, data)
        /\ After(dev, step).long_distance = dev.long_distance
        /\ After(dev, step).profile = dev.profile
    BY DEF After, Step
  <1> HIDE DEF step
  <1>2. CASE s = LongDistance  BY <1>1, <1>2, ValueIs
  <1>3. CASE s = Profile  BY <1>1, <1>3, ValueIs
  <1>4. CASE s # LongDistance /\ s # Profile
    <2>1. Value(dev, s) = MemoryValue(dev.memory, s)  BY <1>4, ValueIs
    <2>2. Value(After(dev, step), s) = MemoryValue(After(dev, step).memory, s)
      BY <1>4, ValueIs
    <2> QED  BY <1>1, <1>4, <2>1, <2>2
  <1> QED  BY <1>2, <1>3, <1>4

LEMMA SetsFits ==
    ASSUME NEW check, NEW address \in Nat, NEW data, NEW want, Len(data) \in Nat,
           Len(data) = 4 => data = [i \in 1..4 |-> data[i]],
           Sets(address, data, want)
    PROVE  Fits(Step("store", check, address, data), want)
  <1>1. ASSUME NEW mem, NEW s \in Whole, s # LongDistance /\ s # Profile
        PROVE  \/ MemoryValue(Overlay(mem, address, data), s) = MemoryValue(mem, s)
               \/ s \in DOMAIN want /\ MemoryValue(Overlay(mem, address, data), s) = want[s]
    BY <1>1, MemoryFits
  <1> QED  BY <1>1, StoreFits

\* Beyond the settings nothing matters.
LEMMA FarFits ==
    ASSUME NEW check, NEW address \in Nat, NEW data, NEW want, address >= 187
    PROVE  Fits(Step("store", check, address, data), want)
  <1>1. ASSUME NEW mem, NEW s \in Whole, s # LongDistance /\ s # Profile
        PROVE  MemoryValue(Overlay(mem, address, data), s) = MemoryValue(mem, s)
    <2> DEFINE after == Overlay(mem, address, data)
      <2>1. \A a \in 0..186 : At(after, a) = At(mem, a)
      BY DEF Overlay, At
    <2> HIDE DEF after
    <2>2. ASSUME NEW name \in ByteSettings, s = <<name, 0>>
          PROVE  MemoryValue(after, s) = MemoryValue(mem, s)
      <3>1. Offsets[name] \in 0..186  BY Places
      <3>2. At(after, Offsets[name]) = At(mem, Offsets[name])  BY <2>1, <3>1
      <3> QED  BY <2>2, <3>2, MemoryValueIs
    <2>3. ASSUME NEW name \in FourSettings, NEW k \in 0..7, s = <<name, k>>
          PROVE  MemoryValue(after, s) = MemoryValue(mem, s)
      <3> DEFINE offset == FourOffset(name, k)
      <3>1. offset \in Nat /\ offset + 4 <= 128  BY Places
      <3>2. read_memory(after, offset, 4) = read_memory(mem, offset, 4)
        <4> HIDE DEF offset
        <4>1. \A i \in 1..4 : offset + i - 1 \in 0..186  BY <3>1
        <4> QED  BY <2>1, <4>1 DEF read_memory
      <3> QED  BY <2>3, <3>2, MemoryValueIs
    <2>4. CASE \E name \in ByteSettings : s = <<name, 0>>  BY <2>2, <2>4 DEF after
    <2>5. CASE \E name \in FourSettings, k \in 0..7 : s = <<name, k>>  BY <2>3, <2>5 DEF after
    <2> QED  BY <1>1, <2>4, <2>5, WholeCases
  <1> QED  BY <1>1, StoreFits
\* What a call wants of one setting.
Wants(want, name, k, value) == <<name, k>> \in DOMAIN want /\ want[<<name, k>>] = value

LEMMA TwoApart ==
    \A name, other \in ByteSettings :
      name # other => \/ Offsets[name] + 1 <= Offsets[other] - 1
                      \/ Offsets[other] + 1 <= Offsets[name] - 1
  BY DEF ByteSettings, Offsets

LEMMA ByteFits ==
    ASSUME NEW name \in ByteSettings, NEW value, NEW want,
           Wants(want, name, 0, ByteValue(name, value))
    PROVE  Fits(ByteStep(Offsets[name], value), want)
  <1> DEFINE data == <<value, calculate_data_checksum(value)>>
             address == Offsets[name]
  <1>1. Len(data) = 2 /\ data[1] = value  OBVIOUS
  <1> HIDE DEF data
  <1>2. address \in {0, 2, 4, 8, 10, 169, 171, 173, 175, 177, 179, 181, 185}  BY Places
  <1>3. ASSUME NEW other \in ByteSettings
        PROVE  \/ Clear(Offsets[other], Offsets[other] + 1, address, Len(data))
               \/ /\ address = Offsets[other] /\ Len(data) = 2
                  /\ <<other, 0>> \in DOMAIN want
                  /\ want[<<other, 0>>] = ByteValue(other, data[1])
    <2>1. CASE other = name  BY <1>1, <2>1 DEF Wants
    <2>2. CASE other # name
      <3> DEFINE place == Offsets[other]
      <3>1. place + 1 <= address - 1 \/ address + 1 <= place - 1  BY <2>2, TwoApart
      <3>2. place \in Nat /\ address \in Nat  BY <1>2, Places
      <3> HIDE DEF place, address
      <3>3. Clear(place, place + 1, address, 2)  BY <3>1, <3>2 DEF Clear
      <3> QED  BY <1>1, <3>3 DEF place
    <2> QED  BY <2>1, <2>2
  <1>4. ASSUME NEW other \in FourSettings, NEW k \in 0..7
        PROVE  Clear(FourOffset(other, k), FourOffset(other, k) + 4, address, Len(data))
    <2> DEFINE place == FourOffset(other, k)
    <2>1. place \in Nat /\ place >= 12 /\ place + 4 <= 128  BY Places
    <2> HIDE DEF place, address
    <2>2. address + 2 <= 12 \/ 128 <= address  BY <1>2
    <2>3. Clear(place, place + 4, address, 2)  BY <1>2, <2>1, <2>2 DEF Clear
    <2> QED  BY <1>1, <2>3 DEF place
  <1>5. Sets(address, data, want)  BY <1>3, <1>4 DEF Sets
  <1>6. Fits(Step("store", "status", address, data), want)
    <2>1. address \in Nat  BY <1>2
    <2> HIDE DEF address
    <2> QED  BY <1>1, <1>5, <2>1, SetsFits
  <1> QED  BY <1>6 DEF ByteStep, data

LEMMA OtherLengthFits ==
    ASSUME NEW check, NEW address \in Nat, NEW data, NEW want, Len(data) \in Nat, Len(data) # 4,
           Sets(address, data, want)
    PROVE  Fits(Step("store", check, address, data), want)
  <1>1. Len(data) = 4 => data = [i \in 1..4 |-> data[i]]  OBVIOUS
  <1> QED  BY <1>1, SetsFits

\* Writes to light, DPI effect and performance time are clear of the other settings.
LEMMA LooseFits ==
    ASSUME NEW want, NEW check, NEW address \in Nat, NEW data,
           \/ address \in {76, 78, 80, 82, 167, 183} /\ Len(data) = 2
           \/ address = 160 /\ Len(data) = 7
    PROVE  Fits(Step("store", check, address, data), want)
  <1> DEFINE n == Len(data)
  <1>0. \/ address \in {76, 78, 80, 82, 167, 183} /\ n = 2
        \/ address = 160 /\ n = 7
    OBVIOUS
  <1>1. ASSUME NEW other \in ByteSettings
        PROVE  Clear(Offsets[other], Offsets[other] + 1, address, n)
    <2> DEFINE place == Offsets[other]
    <2>1. place \in {0, 2, 4, 8, 10, 169, 171, 173, 175, 177, 179, 181, 185}  BY Places
    <2> HIDE DEF place, n
    <2>2. Clear(place, place + 1, address, n)  BY <1>0, <2>1 DEF Clear
    <2> QED  BY <2>2 DEF place
  <1>2. ASSUME NEW other \in FourSettings, NEW k \in 0..7
        PROVE  Clear(FourOffset(other, k), FourOffset(other, k) + 4, address, n)
    <2>1. CASE address >= 128
      <3> DEFINE place == FourOffset(other, k)
      <3>1. place \in Nat /\ place + 4 <= 128  BY Places
      <3> HIDE DEF place
      <3>2. Clear(place, place + 4, address, n)  BY <2>1, <3>1 DEF Clear
      <3> QED  BY <3>2 DEF place
    <2>2. CASE address \in {76, 78, 80, 82}
      <3>1. n = 2  BY <1>0, <2>2
      <3> HIDE DEF n
      <3> QED  BY <2>2, <3>1 DEF Clear, FourOffset, FourSettings
    <2> QED  BY <1>0, <2>1, <2>2
  <1>3. Sets(address, data, want)  BY <1>1, <1>2 DEF Sets
  <1>4. n \in Nat /\ n # 4
    <2> HIDE DEF n
    <2> QED  BY <1>0
  <1> QED  BY <1>3, <1>4, OtherLengthFits

LEMMA FoursApart ==
    ASSUME NEW name \in FourSettings, NEW k \in 0..7, NEW other \in FourSettings, NEW j \in 0..7,
           name # other \/ j # k
    PROVE  \/ FourOffset(name, k) + 4 <= FourOffset(other, j)
           \/ FourOffset(other, j) + 4 <= FourOffset(name, k)
  <1>1. CASE name = other
    BY <1>1 DEF FourOffset
  <1>2. CASE name # other
    BY <1>2 DEF FourOffset, FourSettings
  <1> QED  BY <1>1, <1>2

LEMMA FlashFits ==
    ASSUME NEW name \in FourSettings, NEW k \in 0..7, NEW data, NEW want, Len(data) = 4,
           data = [i \in 1..4 |-> data[i]], Wants(want, name, k, FourValue(name, data))
    PROVE  Fits(FlashStep(FourOffset(name, k), data), want)
  <1> DEFINE address == FourOffset(name, k)
  <1>1. address \in Nat /\ address >= 12 /\ address + 4 <= 128  BY Places
  <1>2. ASSUME NEW other \in ByteSettings
        PROVE  Clear(Offsets[other], Offsets[other] + 1, address, Len(data))
    <2> DEFINE place == Offsets[other]
    <2>1. place \in {0, 2, 4, 8, 10, 169, 171, 173, 175, 177, 179, 181, 185}  BY Places
    <2> HIDE DEF place, address
    <2>2. Clear(place, place + 1, address, 4)  BY <1>1, <2>1 DEF Clear
    <2> QED  BY <2>2 DEF place
  <1>3. ASSUME NEW other \in FourSettings, NEW j \in 0..7
        PROVE  \/ Clear(FourOffset(other, j), FourOffset(other, j) + 4, address, Len(data))
               \/ /\ address = FourOffset(other, j) /\ Len(data) = 4
                  /\ <<other, j>> \in DOMAIN want /\ want[<<other, j>>] = FourValue(other, data)
    <2>1. CASE other = name /\ j = k  BY <2>1 DEF Wants
    <2>2. CASE name # other \/ j # k
      <3>1. \/ address + 4 <= FourOffset(other, j)
            \/ FourOffset(other, j) + 4 <= address
        BY <2>2, FoursApart
      <3> HIDE DEF address
      <3> QED  BY <3>1 DEF Clear
    <2> QED  BY <2>1, <2>2
  <1>4. Sets(address, data, want)  BY <1>2, <1>3 DEF Sets
  <1>5. Fits(Step("store", "echo", address, data), want)
    <2> HIDE DEF address
    <2> QED  BY <1>1, <1>4, SetsFits
  <1> QED  BY <1>5 DEF FlashStep

\* The two settings beside the memory, and a reset.
LEMMA CommandFits ==
    /\ \A want : \A on \in BOOLEAN :
         Wants(want, "long_distance_mode", 0, on) => Fits(CommandStep("range", Flag(on)), want)
    /\ \A want, p : Wants(want, "profile", 0, p) => Fits(CommandStep("profile", p), want)
    /\ \A want : Fits(RejectStep, want)
  <1>0. LongDistance # Profile  BY DEF LongDistance, Profile, Single
  <1>1. ASSUME NEW want, NEW on \in BOOLEAN, Wants(want, "long_distance_mode", 0, on)
        PROVE  Fits(CommandStep("range", Flag(on)), want)
    <2> DEFINE step == CommandStep("range", Flag(on))
    <2> SUFFICES ASSUME NEW dev, DOMAIN dev = {"memory", "long_distance", "profile"},
                        NEW s \in Whole
                 PROVE  \/ Value(After(dev, step), s) = Value(dev, s)
                        \/ s \in DOMAIN want /\ Value(After(dev, step), s) = want[s]
      BY DEF Fits
    <2>1. /\ After(dev, step).memory = dev.memory
          /\ After(dev, step).long_distance = on
          /\ After(dev, step).profile = dev.profile
      BY DEF After, CommandStep, Step, Flag
    <2> HIDE DEF step
    <2>2. CASE s = LongDistance
      <3>1. s \in DOMAIN want /\ want[s] = on
        BY <1>1, <2>2 DEF LongDistance, Single, Wants
      <3> QED  BY <2>1, <2>2, <3>1, ValueIs
    <2>3. CASE s = Profile  BY <2>1, <2>3, ValueIs
    <2>4. CASE s # LongDistance /\ s # Profile
      BY <2>1, <2>4, ValueIs
    <2> QED  BY <2>2, <2>3, <2>4
  <1>2. ASSUME NEW want, NEW p, Wants(want, "profile", 0, p)
        PROVE  Fits(CommandStep("profile", p), want)
    <2> DEFINE step == CommandStep("profile", p)
    <2> SUFFICES ASSUME NEW dev, DOMAIN dev = {"memory", "long_distance", "profile"},
                        NEW s \in Whole
                 PROVE  \/ Value(After(dev, step), s) = Value(dev, s)
                        \/ s \in DOMAIN want /\ Value(After(dev, step), s) = want[s]
      BY DEF Fits
    <2>1. /\ After(dev, step).memory = dev.memory
          /\ After(dev, step).long_distance = dev.long_distance
          /\ After(dev, step).profile = p
      BY DEF After, CommandStep, Step
    <2> HIDE DEF step
    <2>2. CASE s = Profile
      <3>1. s \in DOMAIN want /\ want[s] = p
        BY <1>2, <2>2 DEF Profile, Single, Wants
      <3> QED  BY <2>1, <2>2, <3>1, ValueIs
    <2>3. CASE s = LongDistance  BY <2>1, <2>3, ValueIs
    <2>4. CASE s # LongDistance /\ s # Profile
      BY <2>1, <2>4, ValueIs
    <2> QED  BY <2>2, <2>3, <2>4
  <1>3. \A want : Fits(RejectStep, want)
    BY DEF Fits, RejectStep, Step
  <1> QED  BY <1>1, <1>2, <1>3

LEMMA ResetFits ==
    ASSUME NEW want,
           \A s \in Whole : s # LongDistance /\ s # Profile =>
             s \in DOMAIN want /\ want[s] = MemoryValue(Factory, s)
    PROVE  Fits(CommandStep("reset", 0), want)
  <1> DEFINE step == CommandStep("reset", 0)
  <1> SUFFICES ASSUME NEW dev, DOMAIN dev = {"memory", "long_distance", "profile"},
                      NEW s \in Whole
               PROVE  \/ Value(After(dev, step), s) = Value(dev, s)
                      \/ s \in DOMAIN want /\ Value(After(dev, step), s) = want[s]
    BY DEF Fits
  <1>1. /\ After(dev, step).memory = Factory
        /\ After(dev, step).long_distance = dev.long_distance
        /\ After(dev, step).profile = dev.profile
    BY DEF After, CommandStep, Step
  <1> HIDE DEF step
  <1>2. CASE s = Profile  BY <1>1, <1>2, ValueIs
  <1>3. CASE s = LongDistance  BY <1>1, <1>3, ValueIs
  <1>4. CASE s # LongDistance /\ s # Profile
    BY <1>1, <1>4, ValueIs
  <1> QED  BY <1>2, <1>3, <1>4
(* What setters send fits what is asked of them. *)

FitScript(script, want) == \A p \in Packets(script) : Fits(p, want)

LEMMA Flags ==
    /\ \A on \in BOOLEAN : (Flag(on) = 1) = on
    /\ \A name \in FlagSettings : name \in ByteSettings
    /\ \A name \in FlagSettings, on \in BOOLEAN : ByteValue(name, Flag(on)) = on
  <1>1. \A on \in BOOLEAN : (Flag(on) = 1) = on  BY DEF Flag
  <1>2. \A name \in FlagSettings : name \in ByteSettings
    BY DEF FlagSettings, ByteSettings, Offsets
  <1>3. \A name \in FlagSettings : \A b : ByteValue(name, b) = (b = 1)
    BY DEF FlagSettings, ByteValue
  <1> QED  BY <1>1, <1>2, <1>3

LEMMA CodesRead ==
    /\ \A hz \in PollingRate : ByteValue("polling_rate", PollingRateCode[hz]) = hz
    /\ \A d \in LiftOffDistance : ByteValue("lift_off_distance", LiftOffCode[d]) = d
    /\ \A m \in SensorMode : ByteValue("sensor_mode", m) = m
    /\ \A s \in Nat : ByteValue("sleep_timeout_seconds", s \div 10) = TensOf(s)
    /\ \A name \in {"dpi_count", "current_dpi_index", "debounce_time", "moving_off_light_time"} :
         \A b : ByteValue(name, b) = b
    /\ {"polling_rate", "lift_off_distance", "sensor_mode", "sleep_timeout_seconds", "dpi_count",
        "current_dpi_index", "debounce_time", "moving_off_light_time"} \subseteq ByteSettings
  <1>1. ASSUME NEW hz \in PollingRate PROVE FromCode(PollingRateCode, PollingRateCode[hz]) = hz
    <2>1. \A a, b \in PollingRate : PollingRateCode[a] = PollingRateCode[b] => a = b
      BY DEF PollingRate, PollingRateCode
    <2>2. DOMAIN PollingRateCode = PollingRate  BY DEF PollingRate
    <2> QED  BY <2>1, <2>2 DEF FromCode
  <1>2. ASSUME NEW d \in LiftOffDistance PROVE FromCode(LiftOffCode, LiftOffCode[d]) = d
    <2>1. \A a, b \in LiftOffDistance : LiftOffCode[a] = LiftOffCode[b] => a = b
      BY DEF LiftOffDistance, LiftOffCode
    <2>2. DOMAIN LiftOffCode = LiftOffDistance  BY DEF LiftOffDistance
    <2> QED  BY <2>1, <2>2 DEF FromCode
  <1>3. \A m \in SensorMode : ByteValue("sensor_mode", m) = m
    BY DEF ByteValue, FlagSettings
  <1>4. ASSUME NEW s \in Nat PROVE ByteValue("sleep_timeout_seconds", s \div 10) = TensOf(s)
    <2>1. 10 * (s \div 10) = s - (s % 10)  OBVIOUS
    <2> QED  BY <2>1 DEF ByteValue, TensOf
  <1>5. \A name \in {"dpi_count", "current_dpi_index", "debounce_time", "moving_off_light_time"} :
          \A b : ByteValue(name, b) = b
    BY DEF ByteValue, FlagSettings
  <1>6. {"polling_rate", "lift_off_distance", "sensor_mode", "sleep_timeout_seconds", "dpi_count",
         "current_dpi_index", "debounce_time", "moving_off_light_time"} \subseteq ByteSettings
    BY DEF ByteSettings, Offsets
  <1>7. \A b : ByteValue("polling_rate", b) = FromCode(PollingRateCode, b)  BY DEF ByteValue
  <1>8. \A b : ByteValue("lift_off_distance", b) = FromCode(LiftOffCode, b)  BY DEF ByteValue
  <1> QED  BY <1>1, <1>2, <1>3, <1>4, <1>5, <1>6, <1>7, <1>8

\* A setting of one byte is written where it is read.
LEMMA OffsetsAre ==
    /\ Offsets["polling_rate"] = 0 /\ Offsets["dpi_count"] = 2
    /\ Offsets["current_dpi_index"] = 4 /\ Offsets["sensor_20k"] = 8
    /\ Offsets["lift_off_distance"] = 10 /\ Offsets["debounce_time"] = 169
    /\ Offsets["motion_sync"] = 171 /\ Offsets["sleep_timeout_seconds"] = 173
    /\ Offsets["angle_snapping"] = 175 /\ Offsets["ripple_control"] = 177
    /\ Offsets["moving_off_light_time"] = 179 /\ Offsets["high_speed_mode"] = 181
    /\ Offsets["sensor_mode"] = 185
  BY DEF Offsets

LEMMA ByteStepsFit ==
    ASSUME NEW want
    PROVE  /\ \A hz \in PollingRate : Wants(want, "polling_rate", 0, hz)
                                        => Fits(ByteStep(0, PollingRateCode[hz]), want)
           /\ \A d \in LiftOffDistance : Wants(want, "lift_off_distance", 0, d)
                                           => Fits(ByteStep(10, LiftOffCode[d]), want)
           /\ \A t : Wants(want, "moving_off_light_time", 0, t) => Fits(ByteStep(179, t), want)
           /\ \A m \in SensorMode : Wants(want, "sensor_mode", 0, m) => Fits(ByteStep(185, m), want)
           /\ \A s \in Nat : Wants(want, "sleep_timeout_seconds", 0, TensOf(s))
                               => Fits(ByteStep(173, s \div 10), want)
           /\ \A ms : Wants(want, "debounce_time", 0, ms) => Fits(ByteStep(169, ms), want)
           /\ \A n : Wants(want, "dpi_count", 0, n) => Fits(ByteStep(2, n), want)
           /\ \A n : Wants(want, "current_dpi_index", 0, n) => Fits(ByteStep(4, n), want)
           /\ \A name \in FlagSettings, on \in BOOLEAN :
                Wants(want, name, 0, on) => Fits(ByteStep(Offsets[name], Flag(on)), want)
           /\ \A v : Fits(ByteStep(183, v), want)
  <1>1. ASSUME NEW hz \in PollingRate, Wants(want, "polling_rate", 0, hz)
        PROVE  Fits(ByteStep(0, PollingRateCode[hz]), want)
    <2> DEFINE name == "polling_rate"
               v == PollingRateCode[hz]
    <2>1. name \in ByteSettings /\ Offsets[name] = 0 /\ Wants(want, name, 0, ByteValue(name, v))
      BY <1>1, CodesRead, OffsetsAre
    <2> HIDE DEF name, v
    <2>2. Fits(ByteStep(Offsets[name], v), want)  BY <2>1, ByteFits
    <2> QED  BY <2>1, <2>2 DEF v
  <1>2. ASSUME NEW d \in LiftOffDistance, Wants(want, "lift_off_distance", 0, d)
        PROVE  Fits(ByteStep(10, LiftOffCode[d]), want)
    <2> DEFINE name == "lift_off_distance"
               v == LiftOffCode[d]
    <2>1. name \in ByteSettings /\ Offsets[name] = 10 /\ Wants(want, name, 0, ByteValue(name, v))
      BY <1>2, CodesRead, OffsetsAre
    <2> HIDE DEF name, v
    <2>2. Fits(ByteStep(Offsets[name], v), want)  BY <2>1, ByteFits
    <2> QED  BY <2>1, <2>2 DEF v
  <1>3. ASSUME NEW name \in {"dpi_count", "current_dpi_index", "debounce_time",
                             "moving_off_light_time"},
               NEW v, Wants(want, name, 0, v)
        PROVE  Fits(ByteStep(Offsets[name], v), want)
    <2>1. name \in ByteSettings /\ Wants(want, name, 0, ByteValue(name, v))  BY <1>3, CodesRead
    <2> QED  BY <2>1, ByteFits
  <1>4. ASSUME NEW m \in SensorMode, Wants(want, "sensor_mode", 0, m)
        PROVE  Fits(ByteStep(185, m), want)
    <2> DEFINE name == "sensor_mode"
    <2>1. name \in ByteSettings /\ Offsets[name] = 185 /\ Wants(want, name, 0, ByteValue(name, m))
      BY <1>4, CodesRead, OffsetsAre
    <2> HIDE DEF name
    <2>2. Fits(ByteStep(Offsets[name], m), want)  BY <2>1, ByteFits
    <2> QED  BY <2>1, <2>2
  <1>5. ASSUME NEW s \in Nat, Wants(want, "sleep_timeout_seconds", 0, TensOf(s))
        PROVE  Fits(ByteStep(173, s \div 10), want)
    <2> DEFINE name == "sleep_timeout_seconds"
               v == s \div 10
    <2>1. name \in ByteSettings /\ Offsets[name] = 173 /\ Wants(want, name, 0, ByteValue(name, v))
      BY <1>5, CodesRead, OffsetsAre
    <2> HIDE DEF name, v
    <2>2. Fits(ByteStep(Offsets[name], v), want)  BY <2>1, ByteFits
    <2> QED  BY <2>1, <2>2 DEF v
  <1>6. ASSUME NEW name \in FlagSettings, NEW on \in BOOLEAN, Wants(want, name, 0, on)
        PROVE  Fits(ByteStep(Offsets[name], Flag(on)), want)
    <2>1. name \in ByteSettings /\ Wants(want, name, 0, ByteValue(name, Flag(on)))
      BY <1>6, Flags
    <2> QED  BY <2>1, ByteFits
  <1>7. ASSUME NEW v PROVE Fits(ByteStep(183, v), want)
    <2> DEFINE data == <<v, calculate_data_checksum(v)>>
    <2>1. Len(data) = 2  OBVIOUS
    <2> HIDE DEF data
    <2>2. Fits(Step("store", "status", 183, data), want)  BY <2>1, LooseFits
    <2> QED  BY <2>2 DEF ByteStep, data
  <1> QED  BY <1>1, <1>2, <1>3, <1>4, <1>5, <1>6, <1>7, OffsetsAre

LEMMA EncodedIsFour ==
    ASSUME NEW a, NEW b, NEW c, NEW d, NEW data, data = Append(<<a, b, c>>, d)
    PROVE  Len(data) = 4 /\ data = [i \in 1..4 |-> data[i]]
  OBVIOUS

LEMMA ThreeOf ==
    ASSUME NEW a, NEW b, NEW c, NEW d
    PROVE  SubSeq(Append(<<a, b, c>>, d), 1, 3) = <<a, b, c>>
  <1> DEFINE S == {a, b, c, d}
             s == Append(<<a, b, c>>, d)
             t == SubSeq(s, 1, 3)
  <1>1. s \in Seq(S) /\ Len(s) = 4 /\ s[1] = a /\ s[2] = b /\ s[3] = c  OBVIOUS
  <1> HIDE DEF s, S
  <1>2. t \in Seq(S) /\ Len(t) = 3  BY <1>1
  <1>3. t[1] = a /\ t[2] = b /\ t[3] = c  BY <1>1
  <1> HIDE DEF t
  <1>4. t = <<a, b, c>>  BY <1>2, <1>3
  <1> QED  BY <1>4 DEF t, s

\* A packet that writes one value of four bytes, or a refusal.
FourStep(step, name, k, value) ==
    \/ step = RejectStep
    \/ \E data : /\ step = FlashStep(FourOffset(name, k), data)
                 /\ Len(data) = 4 /\ data = [i \in 1..4 |-> data[i]]
                 /\ FourValue(name, data) = value

LEMMA FourStepFits ==
    ASSUME NEW name \in FourSettings, NEW k \in 0..7, NEW value, NEW step,
           FourStep(step, name, k, value), NEW want, Wants(want, name, k, value)
    PROVE  Fits(step, want)
  <1>1. CASE step = RejectStep  BY <1>1, CommandFits
  <1>2. ASSUME NEW data, step = FlashStep(FourOffset(name, k), data),
               Len(data) = 4, data = [i \in 1..4 |-> data[i]], FourValue(name, data) = value
        PROVE  Fits(step, want)
    BY <1>2, FlashFits
  <1> QED  BY <1>1, <1>2 DEF FourStep

LEMMA DpiValueStepIs ==
    ASSUME NEW stage \in Nat, NEW dpi
    PROVE  FourStep(DpiValueStep(stage, dpi), "dpi_value", stage, RoundedDpi(dpi))
  <1>1. CASE stage >= 8 \/ dpi \notin DPI_MIN..DPI_MAX
    BY <1>1 DEF DpiValueStep, FourStep
  <1>2. CASE ~(stage >= 8) /\ dpi \in DPI_MIN..DPI_MAX
    <2> DEFINE data == encode_dpi(dpi)
               name == "dpi_value"
    <2>1. Len(data) = 4 /\ data = [i \in 1..4 |-> data[i]]
      <3> DEFINE units == dpi \div DPI_STEP
                 code  == IF units = 0 THEN 0 ELSE units - 1
                 high  == (code \div 256) % 4
                 first == code % 256
                 third == 4 * high + 64 * high
                 last  == Complement(<<first, first, third>>)
      <3>1. data = Append(<<first, first, third>>, last)  BY DEF encode_dpi
      <3> HIDE DEF data, first, third, last
      <3> QED  BY <3>1, EncodedIsFour
    <2>2. decode_dpi(data) = RoundedDpi(dpi)  BY <1>2, DpiRoundTrip
    <2>3. DpiValueStep(stage, dpi) = FlashStep(12 + 4 * stage, data)  BY <1>2 DEF DpiValueStep
    <2> HIDE DEF data
    <2>4. FourValue(name, data) = decode_dpi(data) /\ FourOffset(name, stage) = 12 + 4 * stage
      BY DEF FourValue, FourOffset
    <2> HIDE DEF name
    <2>5. FourStep(DpiValueStep(stage, dpi), name, stage, RoundedDpi(dpi))
      BY <2>1, <2>2, <2>3, <2>4 DEF FourStep
    <2> QED  BY <2>5 DEF name
  <1> QED  BY <1>1, <1>2

LEMMA DpiColorStepIs ==
    ASSUME NEW stage \in Nat, NEW color \in Color
    PROVE  FourStep(DpiColorStep(stage, color), "dpi_color", stage, color)
  <1>1. CASE stage >= 8
    BY <1>1 DEF DpiColorStep, FourStep
  <1>2. CASE ~(stage >= 8)
    <2> DEFINE data == encode_dpi_color(color)
               name == "dpi_color"
    <2>1. Len(data) = 4 /\ data = [i \in 1..4 |-> data[i]]
      <3>1. PICK r \in Byte, g \in Byte, b \in Byte : color = <<r, g, b>>  BY DEF Color
      <3>2. data = Append(<<r, g, b>>, Complement(color))  BY <3>1 DEF encode_dpi_color
      <3> HIDE DEF data
      <3> QED  BY <3>2, EncodedIsFour
    <2>2. FirstThree(data) = color  BY ColorBytes
    <2>3. DpiColorStep(stage, color) = FlashStep(44 + 4 * stage, data)  BY <1>2 DEF DpiColorStep
    <2> HIDE DEF data
    <2>4. FourValue(name, data) = FirstThree(data) /\ FourOffset(name, stage) = 44 + 4 * stage
      BY DEF FourValue, FourOffset
    <2> HIDE DEF name
    <2>5. FourStep(DpiColorStep(stage, color), name, stage, color)
      BY <2>1, <2>2, <2>3, <2>4 DEF FourStep
    <2> QED  BY <2>5 DEF name
  <1> QED  BY <1>1, <1>2

LEMMA KeyRoundTrip ==
    ASSUME NEW f \in KeyFunction
    PROVE  /\ Len(EncodeKey(f)) = 4 /\ EncodeKey(f) = [i \in 1..4 |-> EncodeKey(f)[i]]
           /\ OrElse(DecodeKey(EncodeKey(f)), DisabledKey) = f
  <1> DEFINE t == f.function_type
             p == f.parameter
             high == p \div 256
             low == p % 256
             bytes == <<t, high, low>>
             c == Complement(bytes)
             data == EncodeKey(f)
  <1>1. t \in KeyFunctionType /\ p \in Word
        /\ f = [function_type |-> t, parameter |-> p]
    BY DEF KeyFunction
  <1>2. data = Append(<<t, high, low>>, c)  BY DEF EncodeKey
  <1>3. Halves(high, low) = p
    <2>1. p \in Nat  BY <1>1, Widths
    <2> HIDE DEF p
    <2>2. 256 * (p \div 256) + (p % 256) = p  BY <2>1
    <2> QED  BY <2>2 DEF Halves
  <1> HIDE DEF high, low, c, data
  <1>4. Len(data) = 4 /\ data = [i \in 1..4 |-> data[i]]  BY <1>2, EncodedIsFour
  <1>5. data[1] = t /\ data[2] = high /\ data[3] = low /\ data[4] = c  BY <1>2, AppendedToThree
  <1>7. SubSeq(data, 1, 3) = bytes  BY <1>2, ThreeOf
  <1>8. DecodeKey(data) = f
    <2>1. data[4] = Complement(SubSeq(data, 1, 3))  BY <1>5, <1>7 DEF c
    <2>2. data[1] \in KeyFunctionType  BY <1>1, <1>5
    <2>3. DecodeKey(data) = KeyFor(data[1], Halves(data[2], data[3]))
      BY <2>1, <2>2 DEF DecodeKey
    <2> QED  BY <1>1, <1>3, <1>5, <2>3 DEF KeyFor
  <1>9. f # Invalid  BY InvalidAssumption
  <1> QED  BY <1>4, <1>8, <1>9 DEF OrElse, data

LEMMA KeyStepIs ==
    ASSUME NEW key \in Nat, NEW f \in KeyFunction
    PROVE  FourStep(FlashStep(96 + 4 * key, EncodeKey(f)), "key_function", key, f)
  <1> DEFINE data == EncodeKey(f)
             name == "key_function"
  <1>1. Len(data) = 4 /\ data = [i \in 1..4 |-> data[i]]  BY KeyRoundTrip
  <1>2. OrElse(DecodeKey(data), DisabledKey) = f  BY KeyRoundTrip
  <1> HIDE DEF data
  <1>3. FourValue(name, data) = f /\ FourOffset(name, key) = 96 + 4 * key
    BY <1>2 DEF FourValue, FourOffset
  <1> HIDE DEF name
  <1>4. FourStep(FlashStep(96 + 4 * key, data), name, key, f)  BY <1>1, <1>3 DEF FourStep
  <1> QED  BY <1>4 DEF name, data

LEMMA DpiValueFits ==
    ASSUME NEW want, NEW stage \in Nat, NEW dpi,
           Wants(want, "dpi_value", stage, RoundedDpi(dpi))
    PROVE  Fits(DpiValueStep(stage, dpi), want)
  <1>1. CASE stage >= 8  BY <1>1, CommandFits DEF DpiValueStep
  <1>2. CASE ~(stage >= 8)
    <2> DEFINE name == "dpi_value"
    <2>1. name \in FourSettings /\ stage \in 0..7  BY <1>2 DEF FourSettings
    <2>2. FourStep(DpiValueStep(stage, dpi), name, stage, RoundedDpi(dpi))  BY DpiValueStepIs
    <2>3. Wants(want, name, stage, RoundedDpi(dpi))  OBVIOUS
    <2> HIDE DEF name
    <2> QED  BY <2>1, <2>2, <2>3, FourStepFits
  <1> QED  BY <1>1, <1>2

LEMMA DpiColorFits ==
    ASSUME NEW want, NEW stage \in Nat, NEW color \in Color, Wants(want, "dpi_color", stage, color)
    PROVE  Fits(DpiColorStep(stage, color), want)
  <1>1. CASE stage >= 8  BY <1>1, CommandFits DEF DpiColorStep
  <1>2. CASE ~(stage >= 8)
    <2> DEFINE name == "dpi_color"
    <2>1. name \in FourSettings /\ stage \in 0..7  BY <1>2 DEF FourSettings
    <2>2. FourStep(DpiColorStep(stage, color), name, stage, color)  BY DpiColorStepIs
    <2>3. Wants(want, name, stage, color)  OBVIOUS
    <2> HIDE DEF name
    <2> QED  BY <2>1, <2>2, <2>3, FourStepFits
  <1> QED  BY <1>1, <1>2

LEMMA KeyFits ==
    ASSUME NEW want, NEW key \in 0..7, NEW f \in KeyFunction, Wants(want, "key_function", key, f)
    PROVE  Fits(FlashStep(96 + 4 * key, EncodeKey(f)), want)
  <1> DEFINE name == "key_function"
             step == FlashStep(96 + 4 * key, EncodeKey(f))
  <1>1. name \in FourSettings  BY DEF FourSettings
  <1>2. FourStep(step, name, key, f)  BY KeyStepIs
  <1>3. Wants(want, name, key, f)  OBVIOUS
  <1> HIDE DEF name, step
  <1>4. Fits(step, want)  BY <1>1, <1>2, <1>3, FourStepFits
  <1> QED  BY <1>4 DEF step
LEMMA Asked ==
    /\ \A name, k, v : Wants(Asking(name, k, v), name, k, v)
    /\ \A s : Wants(AskingTimeout(s), "sleep_timeout_seconds", 0, TensOf(s))
  <1>1. \A name, k, v : Wants(Asking(name, k, v), name, k, v)
    BY DEF Asking, Wants
  <1>2. ASSUME NEW f, NEW g, NEW name, NEW k, NEW v, Wants(f, name, k, v)
        PROVE  Wants(Both(f, g), name, k, v)
    BY <1>2 DEF Wants, Both
  <1> QED  BY <1>1, <1>2 DEF AskingTimeout

LEMMA SettersFit ==
    ASSUME NEW want
    PROVE  /\ \A hz \in PollingRate : Wants(want, "polling_rate", 0, hz)
                                        => FitScript(set_polling_rate(hz), want)
           /\ \A d \in LiftOffDistance : Wants(want, "lift_off_distance", 0, d)
                                           => FitScript(set_lift_off_distance(d), want)
           /\ \A on \in BOOLEAN : Wants(want, "long_distance_mode", 0, on)
                                    => FitScript(set_long_distance_mode(on), want)
           /\ \A t : Wants(want, "moving_off_light_time", 0, t)
                       => FitScript(set_moving_off_light_time(t), want)
           /\ \A s : FitScript(set_performance_time(s), want)
           /\ \A m \in SensorMode : Wants(want, "sensor_mode", 0, m)
                                      => FitScript(set_sensor_mode(m), want)
           /\ \A p : Wants(want, "profile", 0, p) => FitScript(set_current_profile(p), want)
           /\ \A s \in Nat : Wants(want, "sleep_timeout_seconds", 0, TensOf(s))
                               => FitScript(set_sleep_timeout(s), want)
           /\ \A ms : Wants(want, "debounce_time", 0, ms) => FitScript(set_debounce_time(ms), want)
           /\ \A n : Wants(want, "dpi_count", 0, n) => FitScript(set_dpi_count(n), want)
           /\ \A n : Wants(want, "current_dpi_index", 0, n)
                       => FitScript(set_current_dpi_index(n), want)
           /\ \A stage \in Nat : \A dpi : Wants(want, "dpi_value", stage, RoundedDpi(dpi))
                                            => FitScript(set_dpi_value(stage, dpi), want)
           /\ \A stage \in Nat : \A color \in Color :
                Wants(want, "dpi_color", stage, color) => FitScript(set_dpi_color(stage, color), want)
           /\ \A key \in Nat : \A f \in KeyFunction :
                Wants(want, "key_function", key, f) => FitScript(set_key_function(key, f), want)
           /\ \A name \in FlagSettings, on \in BOOLEAN :
                Wants(want, name, 0, on) => FitScript(set_bool(Offsets[name], on), want)
           /\ FitScript(Reject, want)
  <1>1. \A hz \in PollingRate : Wants(want, "polling_rate", 0, hz)
                                  => FitScript(set_polling_rate(hz), want)
    BY ByteStepsFit, SetterPackets DEF FitScript
  <1>2. \A d \in LiftOffDistance : Wants(want, "lift_off_distance", 0, d)
                                     => FitScript(set_lift_off_distance(d), want)
    BY ByteStepsFit, SetterPackets DEF FitScript
  <1>3. \A on \in BOOLEAN : Wants(want, "long_distance_mode", 0, on)
                              => FitScript(set_long_distance_mode(on), want)
    BY CommandFits, SetterPackets DEF FitScript
  <1>4. ASSUME NEW t, Wants(want, "moving_off_light_time", 0, t)
        PROVE  FitScript(set_moving_off_light_time(t), want)
    <2>1. Fits(ByteStep(179, t), want)
      <3>1. \A x : Wants(want, "moving_off_light_time", 0, x) => Fits(ByteStep(179, x), want)
        BY ByteStepsFit
      <3> QED  BY <1>4, <3>1
    <2>2. Packets(set_moving_off_light_time(t)) = {ByteStep(179, t)}  BY SetterPackets
    <2> QED  BY <2>1, <2>2 DEF FitScript
  <1>5. ASSUME NEW s PROVE FitScript(set_performance_time(s), want)
    <2>1. Fits(ByteStep(183, SleepTimeCode[s]), want)  BY ByteStepsFit
    <2>2. Packets(set_performance_time(s)) = {ByteStep(183, SleepTimeCode[s])}  BY SetterPackets
    <2> QED  BY <2>1, <2>2 DEF FitScript
  <1>6. \A m \in SensorMode : Wants(want, "sensor_mode", 0, m)
                                => FitScript(set_sensor_mode(m), want)
    BY ByteStepsFit, SetterPackets DEF FitScript
  <1>7. \A p : Wants(want, "profile", 0, p) => FitScript(set_current_profile(p), want)
    BY CommandFits, SetterPackets DEF FitScript
  <1>8. ASSUME NEW s \in Nat, Wants(want, "sleep_timeout_seconds", 0, TensOf(s))
        PROVE  FitScript(set_sleep_timeout(s), want)
    <2> DEFINE tens == s \div 10
    <2>1. Fits(ByteStep(173, tens), want) /\ Fits(ByteStep(183, tens), want)
            /\ Fits(RejectStep, want)
      BY <1>8, ByteStepsFit, CommandFits
    <2>2. Packets(set_sleep_timeout(s)) =
            IF s > 2550 THEN {RejectStep} ELSE {ByteStep(183, tens), ByteStep(173, tens)}
      BY SetterPackets
    <2> HIDE DEF tens
    <2> QED  BY <2>1, <2>2 DEF FitScript
  <1>9. ASSUME NEW ms, Wants(want, "debounce_time", 0, ms)
        PROVE  FitScript(set_debounce_time(ms), want)
    <2>1. Fits(ByteStep(169, ms), want)
      <3>1. \A x : Wants(want, "debounce_time", 0, x) => Fits(ByteStep(169, x), want)
        BY ByteStepsFit
      <3> QED  BY <1>9, <3>1
    <2>2. Fits(RejectStep, want)  BY CommandFits
    <2>3. Packets(set_debounce_time(ms)) = IF ms > 30 THEN {RejectStep} ELSE {ByteStep(169, ms)}
      BY SetterPackets
    <2> QED  BY <2>1, <2>2, <2>3 DEF FitScript
  <1>10. ASSUME NEW n, Wants(want, "dpi_count", 0, n)
        PROVE  FitScript(set_dpi_count(n), want)
    <2>1. Fits(ByteStep(2, n), want)
      <3>1. \A x : Wants(want, "dpi_count", 0, x) => Fits(ByteStep(2, x), want)
        BY ByteStepsFit
      <3> QED  BY <1>10, <3>1
    <2>2. Fits(RejectStep, want)  BY CommandFits
    <2>3. Packets(set_dpi_count(n)) = IF n = 0 \/ n > 8 THEN {RejectStep} ELSE {ByteStep(2, n)}
      BY SetterPackets
    <2> QED  BY <2>1, <2>2, <2>3 DEF FitScript
  <1>11. ASSUME NEW n, Wants(want, "current_dpi_index", 0, n)
        PROVE  FitScript(set_current_dpi_index(n), want)
    <2>1. Fits(ByteStep(4, n), want)
      <3>1. \A x : Wants(want, "current_dpi_index", 0, x) => Fits(ByteStep(4, x), want)
        BY ByteStepsFit
      <3> QED  BY <1>11, <3>1
    <2>2. Fits(RejectStep, want)  BY CommandFits
    <2>3. Packets(set_current_dpi_index(n)) = IF n >= 8 THEN {RejectStep} ELSE {ByteStep(4, n)}
      BY SetterPackets
    <2> QED  BY <2>1, <2>2, <2>3 DEF FitScript
  <1>12. \A stage \in Nat : \A dpi : Wants(want, "dpi_value", stage, RoundedDpi(dpi))
                                       => FitScript(set_dpi_value(stage, dpi), want)
    BY DpiValueFits, DpiPackets DEF FitScript
  <1>13. \A stage \in Nat : \A color \in Color :
           Wants(want, "dpi_color", stage, color) => FitScript(set_dpi_color(stage, color), want)
    BY DpiColorFits, DpiPackets DEF FitScript
  <1>14. ASSUME NEW key \in Nat, NEW f \in KeyFunction, Wants(want, "key_function", key, f)
         PROVE  FitScript(set_key_function(key, f), want)
    <2>1. CASE key >= 8
      BY <2>1, CommandFits, GroupPackets DEF FitScript
    <2>2. CASE ~(key >= 8)
      <3>1. key \in 0..7  BY <2>2
      <3>2. Fits(FlashStep(96 + 4 * key, EncodeKey(f)), want)  BY <1>14, <3>1, KeyFits
      <3> QED  BY <2>2, <3>2, GroupPackets DEF FitScript
    <2> QED  BY <2>1, <2>2
  <1>15. \A name \in FlagSettings, on \in BOOLEAN :
           Wants(want, name, 0, on) => FitScript(set_bool(Offsets[name], on), want)
    BY ByteStepsFit, PrimitivePackets DEF FitScript
  <1>16. FitScript(Reject, want)
    BY CommandFits, PrimitivePackets DEF FitScript
  <1> QED
    BY <1>1, <1>2, <1>3, <1>4, <1>5, <1>6, <1>7, <1>8, <1>9, <1>10, <1>11, <1>12, <1>13, <1>14,
       <1>15, <1>16

\* Settings of several packets are clear of the others, so nothing need be asked of them.
LEMMA GroupsFit ==
    ASSUME NEW want
    PROVE  /\ \A light : light.color \in Color => FitScript(set_light_settings(light), want)
           /\ \A effect : FitScript(set_dpi_effect_settings(effect), want)
           /\ \A slot \in Nat : \A x : FitScript(set_shortcut_key(slot, x), want)
           /\ \A slot \in Nat : \A x : FitScript(set_macro(slot, x), want)
  <1>1. ASSUME NEW address \in {76, 78, 80, 82, 167}, NEW v
        PROVE  Fits(ByteStep(address, v), want)
    <2> DEFINE data == <<v, calculate_data_checksum(v)>>
    <2>1. Len(data) = 2  OBVIOUS
    <2> HIDE DEF data
    <2>2. Fits(Step("store", "status", address, data), want)
      <3>1. address \in Nat /\ address \in {76, 78, 80, 82, 167, 183}  OBVIOUS
      <3> QED  BY <2>1, <3>1, LooseFits
    <2> QED  BY <2>2 DEF ByteStep, data
  <1>2. ASSUME NEW light, light.color \in Color PROVE FitScript(set_light_settings(light), want)
    <2> DEFINE data == <<light.mode>> \o light.color \o <<light.speed, light.brightness, 0>>
    <2>1. Len(data) = 7
      <3>1. PICK r \in Byte, g \in Byte, b \in Byte : light.color = <<r, g, b>>
        BY <1>2 DEF Color
      <3>2. Len(<<light.mode>> \o <<r, g, b>> \o <<light.speed, light.brightness, 0>>) = 7
        BY Seven
      <3> QED  BY <3>1, <3>2
    <2> HIDE DEF data
    <2>2. Fits(FlashStep(160, data), want)  BY <2>1, LooseFits DEF FlashStep
    <2> QED  BY <1>1, <2>2, GroupPackets DEF FitScript, data
  <1>3. ASSUME NEW e PROVE FitScript(set_dpi_effect_settings(e), want)
    BY <1>1, GroupPackets DEF FitScript
  <1>4. ASSUME NEW step, step.op = "store", step.address \in Nat, step.address >= 256
        PROVE  Fits(step, want)
    <2> DEFINE plain == Step("store", "none", step.address, step.data)
    <2>1. Fits(plain, want)  BY <1>4, FarFits
    <2>2. plain.op = "store" /\ plain.address = step.address /\ plain.data = step.data  BY DEF Step
    <2> HIDE DEF plain
    <2>3. \A dev : After(dev, step) = After(dev, plain)  BY <1>4, <2>2 DEF After
    <2> QED  BY <1>4, <2>1, <2>2, <2>3 DEF Fits
  <1>5. Fits(RejectStep, want)  BY CommandFits
  <1>6. ASSUME NEW slot \in Nat, NEW x
        PROVE  FitScript(set_shortcut_key(slot, x), want) /\ FitScript(set_macro(slot, x), want)
    BY <1>4, <1>5, GroupPackets DEF FitScript
  <1> QED  BY <1>2, <1>3, <1>6

-----------------------------------------------------------------------------
(* What the configuration as a whole asks for. *)

PlainAsked(config) ==
    [s \in {Single(name) : name \in PlainSettings} |->
       IF s[1] = "sleep_timeout_seconds" THEN TensOf(config[s[1]]) ELSE config[s[1]]]

LEMMA PlainAskedIs ==
    ASSUME NEW config
    PROVE  /\ DOMAIN PlainAsked(config) = {Single(name) : name \in PlainSettings}
           /\ Wants(PlainAsked(config), "sleep_timeout_seconds", 0,
                    TensOf(config.sleep_timeout_seconds))
           /\ \A name \in PlainSettings \ {"sleep_timeout_seconds"} :
                Wants(PlainAsked(config), name, 0, config[name])
  <1>1. \A name \in PlainSettings :
          <<name, 0>> \in {Single(other) : other \in PlainSettings} /\ <<name, 0>>[1] = name
    BY DEF Single
  <1>2. "sleep_timeout_seconds" \in PlainSettings  BY DEF PlainSettings, DefaultConfig
  <1> QED  BY <1>1, <1>2 DEF PlainAsked, Wants

LEMMA DpiAskedIs ==
    ASSUME NEW config, Len(config.dpi_stages) \in Nat
    PROVE  /\ Wants(AskingDpi(config), "dpi_count", 0, Len(config.dpi_stages))
           /\ Wants(AskingDpi(config), "current_dpi_index", 0, config.current_dpi_index)
           /\ \A k \in 0..(Len(config.dpi_stages) - 1) :
                /\ Wants(AskingDpi(config), "dpi_value", k,
                         RoundedDpi(config.dpi_stages[k + 1].value))
                /\ Wants(AskingDpi(config), "dpi_color", k, config.dpi_stages[k + 1].color)
           /\ \A s \in DOMAIN AskingDpi(config) :
                s[1] \in {"dpi_count", "current_dpi_index", "dpi_value", "dpi_color"}
  <1> DEFINE want == AskingDpi(config)
             last == Len(config.dpi_stages) - 1
             D    == {<<"dpi_count", 0>>, <<"current_dpi_index", 0>>}
                       \cup ({"dpi_value", "dpi_color"} \X (0..last))
  <1>1. DOMAIN want = D  BY DEF AskingDpi, Single
  <1>2. \A s \in D :
          want[s] = CASE s[1] = "dpi_count"         -> last + 1
                      [] s[1] = "current_dpi_index" -> config.current_dpi_index
                      [] s[1] = "dpi_value"  -> RoundedDpi(config.dpi_stages[s[2] + 1].value)
                      [] s[1] = "dpi_color"  -> config.dpi_stages[s[2] + 1].color
    BY DEF AskingDpi, Single
  <1>3. last + 1 = Len(config.dpi_stages)  OBVIOUS
  <1> HIDE DEF want
  <1>4. Wants(want, "dpi_count", 0, last + 1)
    BY <1>1, <1>2 DEF Wants
  <1>5. Wants(want, "current_dpi_index", 0, config.current_dpi_index)
    BY <1>1, <1>2 DEF Wants
  <1>6. ASSUME NEW k \in 0..last
        PROVE  /\ Wants(want, "dpi_value", k, RoundedDpi(config.dpi_stages[k + 1].value))
               /\ Wants(want, "dpi_color", k, config.dpi_stages[k + 1].color)
    BY <1>1, <1>2 DEF Wants
  <1>7. \A s \in D : s[1] \in {"dpi_count", "current_dpi_index", "dpi_value", "dpi_color"}
    OBVIOUS
  <1> QED  BY <1>1, <1>3, <1>4, <1>5, <1>6, <1>7 DEF want

LEMMA BothWants ==
    ASSUME NEW f, NEW g, NEW name, NEW k, NEW v
    PROVE  /\ Wants(f, name, k, v) => Wants(Both(f, g), name, k, v)
           /\ Wants(g, name, k, v) /\ <<name, k>> \notin DOMAIN f => Wants(Both(f, g), name, k, v)
  BY DEF Wants, Both

LEMMA AskingConfigIs ==
    ASSUME NEW config, Len(config.dpi_stages) \in Nat
    PROVE  LET want == AskingConfig(config) IN
           /\ Wants(want, "sleep_timeout_seconds", 0, TensOf(config.sleep_timeout_seconds))
           /\ \A name \in PlainSettings \ {"sleep_timeout_seconds"} :
                Wants(want, name, 0, config[name])
           /\ config.dpi_stages # << >> =>
                /\ Wants(want, "dpi_count", 0, Len(config.dpi_stages))
                /\ Wants(want, "current_dpi_index", 0, config.current_dpi_index)
                /\ \A k \in 0..(Len(config.dpi_stages) - 1) :
                     /\ Wants(want, "dpi_value", k, RoundedDpi(config.dpi_stages[k + 1].value))
                     /\ Wants(want, "dpi_color", k, config.dpi_stages[k + 1].color)
  <1>1. AskingConfig(config) =
          IF config.dpi_stages = << >> THEN PlainAsked(config)
          ELSE Both(PlainAsked(config), AskingDpi(config))
    BY DEF AskingConfig, PlainAsked
  <1>2. CASE config.dpi_stages = << >>
    BY <1>1, <1>2, PlainAskedIs
  <1>3. CASE config.dpi_stages # << >>
    <2> DEFINE plain == PlainAsked(config)
               dpi   == AskingDpi(config)
    <2>1. AskingConfig(config) = Both(plain, dpi)  BY <1>1, <1>3
    <2>2. \A k : /\ <<"dpi_count", k>> \notin DOMAIN plain
                 /\ <<"current_dpi_index", k>> \notin DOMAIN plain
                 /\ <<"dpi_value", k>> \notin DOMAIN plain
                 /\ <<"dpi_color", k>> \notin DOMAIN plain
      <3> DEFINE Dpi == {"dpi_count", "current_dpi_index", "dpi_value", "dpi_color"}
      <3>1. \A name \in Dpi : name \notin PlainSettings  BY DEF PlainSettings, DefaultConfig
      <3>2. ASSUME NEW name, NEW k, <<name, k>> \in DOMAIN plain PROVE name \in PlainSettings
        <4>1. PICK other \in PlainSettings : <<name, k>> = <<other, 0>>
          BY <3>2, PlainAskedIs DEF Single
        <4> QED  BY <4>1
      <3> HIDE DEF plain
      <3> QED  BY <3>1, <3>2
    <2>3. /\ Wants(plain, "sleep_timeout_seconds", 0, TensOf(config.sleep_timeout_seconds))
          /\ \A name \in PlainSettings \ {"sleep_timeout_seconds"} :
               Wants(plain, name, 0, config[name])
      BY PlainAskedIs
    <2>4. /\ Wants(dpi, "dpi_count", 0, Len(config.dpi_stages))
          /\ Wants(dpi, "current_dpi_index", 0, config.current_dpi_index)
          /\ \A k \in 0..(Len(config.dpi_stages) - 1) :
               /\ Wants(dpi, "dpi_value", k, RoundedDpi(config.dpi_stages[k + 1].value))
               /\ Wants(dpi, "dpi_color", k, config.dpi_stages[k + 1].color)
      BY DpiAskedIs
    <2> HIDE DEF plain, dpi
    <2>5. /\ Wants(Both(plain, dpi), "sleep_timeout_seconds", 0,
                   TensOf(config.sleep_timeout_seconds))
          /\ \A name \in PlainSettings \ {"sleep_timeout_seconds"} :
               Wants(Both(plain, dpi), name, 0, config[name])
      BY <2>3, BothWants
    <2>6. /\ Wants(Both(plain, dpi), "dpi_count", 0, Len(config.dpi_stages))
          /\ Wants(Both(plain, dpi), "current_dpi_index", 0, config.current_dpi_index)
      BY <2>2, <2>4, BothWants
    <2>7. ASSUME NEW k \in 0..(Len(config.dpi_stages) - 1)
          PROVE  /\ Wants(Both(plain, dpi), "dpi_value", k,
                          RoundedDpi(config.dpi_stages[k + 1].value))
                 /\ Wants(Both(plain, dpi), "dpi_color", k, config.dpi_stages[k + 1].color)
      BY <2>2, <2>4, BothWants
    <2> QED  BY <2>1, <2>5, <2>6, <2>7
  <1> QED  BY <1>2, <1>3

LEMMA DpiWritesFit ==
    ASSUME NEW config \in MouseConfig, Len(config.dpi_stages) <= 256, NEW want,
           config.dpi_stages # << >> =>
             /\ Wants(want, "dpi_count", 0, Len(config.dpi_stages))
             /\ Wants(want, "current_dpi_index", 0, config.current_dpi_index)
             /\ \A k \in 0..(Len(config.dpi_stages) - 1) :
                  /\ Wants(want, "dpi_value", k, RoundedDpi(config.dpi_stages[k + 1].value))
                  /\ Wants(want, "dpi_color", k, config.dpi_stages[k + 1].color)
    PROVE  FitScript(DpiWrites(config), want)
  <1> DEFINE stages == config.dpi_stages
             n == Len(stages) % 256
             index == config.current_dpi_index
  <1>1. Len(stages) \in Nat  BY StageType
  <1>2. n = Len(stages) \/ n = 0
    <2>1. \A m \in Nat : m <= 256 => m % 256 = m \/ m % 256 = 0  OBVIOUS
    <2> HIDE DEF stages
    <2> QED  BY <1>1, <2>1 DEF stages
  <1> HIDE DEF n
  <1>3. CASE stages = << >>
    <2>1. Packets(DpiWrites(config)) = {}  BY <1>1, <1>3, DpiWritesPackets
    <2> QED  BY <2>1 DEF FitScript
  <1>4. CASE stages # << >>
    <2>1. FitScript(set_dpi_count(n), want)
      <3>1. CASE n = Len(stages)  BY <1>4, <3>1, SettersFit
      <3>2. CASE n = 0
        <4>1. Packets(set_dpi_count(0)) = {RejectStep}  BY SetterPackets
        <4>2. Fits(RejectStep, want)  BY CommandFits
        <4> QED  BY <3>2, <4>1, <4>2 DEF FitScript
      <3> QED  BY <1>2, <3>1, <3>2
    <2>2. FitScript(set_current_dpi_index(index), want)
      <3>1. Wants(want, "current_dpi_index", 0, index)  BY <1>4
      <3> HIDE DEF index
      <3> QED  BY <3>1, SettersFit
    <2>3. ASSUME NEW p \in Packets(StageWrites(stages)) PROVE Fits(p, want)
      <3>1. PICK k \in 0..(Len(stages) - 1) : \/ p = DpiValueStep(k, stages[k + 1].value)
                                              \/ p = DpiColorStep(k, stages[k + 1].color)
        BY <1>1, <2>3, StagePackets
      <3>2. k \in Nat /\ k + 1 \in 1..Len(stages)  BY <1>1
      <3>3. stages[k + 1].color \in Color  BY <3>2, StageType
      <3>4. /\ Wants(want, "dpi_value", k, RoundedDpi(stages[k + 1].value))
            /\ Wants(want, "dpi_color", k, stages[k + 1].color)
        BY <1>4
      <3> HIDE DEF stages
      <3>5. Fits(DpiValueStep(k, stages[k + 1].value), want)  BY <3>2, <3>4, DpiValueFits
      <3>6. Fits(DpiColorStep(k, stages[k + 1].color), want)
        BY <3>2, <3>3, <3>4, DpiColorFits
      <3> QED  BY <3>1, <3>5, <3>6
    <2>4. Packets(DpiWrites(config)) =
            Packets(set_dpi_count(n)) \cup Packets(StageWrites(stages))
              \cup Packets(set_current_dpi_index(index))
      BY <1>1, <1>4, DpiWritesPackets DEF n
    <2> HIDE DEF stages, index
    <2> QED  BY <2>1, <2>2, <2>3, <2>4 DEF FitScript
  <1> QED  BY <1>3, <1>4

LEMMA ConfigFits ==
    ASSUME NEW config \in MouseConfig, Len(config.dpi_stages) <= 256
    PROVE  FitScript(set_config(config), AskingConfig(config))
  <1> DEFINE want == AskingConfig(config)
  <1>1. Len(config.dpi_stages) \in Nat  BY StageType
  <1>2. /\ Wants(want, "sleep_timeout_seconds", 0, TensOf(config.sleep_timeout_seconds))
        /\ \A name \in PlainSettings \ {"sleep_timeout_seconds"} :
             Wants(want, name, 0, config[name])
        /\ config.dpi_stages # << >> =>
             /\ Wants(want, "dpi_count", 0, Len(config.dpi_stages))
             /\ Wants(want, "current_dpi_index", 0, config.current_dpi_index)
             /\ \A k \in 0..(Len(config.dpi_stages) - 1) :
                  /\ Wants(want, "dpi_value", k, RoundedDpi(config.dpi_stages[k + 1].value))
                  /\ Wants(want, "dpi_color", k, config.dpi_stages[k + 1].color)
    BY <1>1, AskingConfigIs
  <1> HIDE DEF want
  <1>3. FitScript(DpiWrites(config), want)  BY <1>2, DpiWritesFit
  <1>4. /\ Wants(want, "polling_rate", 0, config.polling_rate)
        /\ Wants(want, "lift_off_distance", 0, config.lift_off_distance)
        /\ Wants(want, "angle_snapping", 0, config.angle_snapping)
        /\ Wants(want, "ripple_control", 0, config.ripple_control)
        /\ Wants(want, "high_speed_mode", 0, config.high_speed_mode)
        /\ Wants(want, "long_distance_mode", 0, config.long_distance_mode)
        /\ Wants(want, "debounce_time", 0, config.debounce_time)
        /\ Wants(want, "motion_sync", 0, config.motion_sync)
        /\ Wants(want, "moving_off_light_time", 0, config.moving_off_light_time)
        /\ Wants(want, "sensor_mode", 0, config.sensor_mode)
        /\ Wants(want, "sensor_20k", 0, config.sensor_20k)
    <2>1. {"polling_rate", "lift_off_distance", "angle_snapping", "ripple_control",
           "high_speed_mode", "long_distance_mode", "debounce_time", "motion_sync",
           "moving_off_light_time", "sensor_mode", "sensor_20k"}
            \subseteq PlainSettings \ {"sleep_timeout_seconds"}
      BY DEF PlainSettings, DefaultConfig
    <2> QED  BY <1>2, <2>1
  <1>5. /\ config.polling_rate \in PollingRate
        /\ config.lift_off_distance \in LiftOffDistance
        /\ config.sensor_mode \in SensorMode
        /\ config.sleep_timeout_seconds \in Nat
        /\ {config.angle_snapping, config.ripple_control, config.high_speed_mode,
            config.long_distance_mode, config.motion_sync, config.sensor_20k} \subseteq BOOLEAN
    BY ConfigFields
  <1>6. /\ FitScript(set_sleep_timeout(config.sleep_timeout_seconds), want)
        /\ FitScript(set_debounce_time(config.debounce_time), want)
    BY <1>2, <1>4, <1>5, SettersFit
  <1>7. /\ Fits(ByteStep(0, PollingRateCode[config.polling_rate]), want)
        /\ Fits(ByteStep(10, LiftOffCode[config.lift_off_distance]), want)
        /\ Fits(ByteStep(179, config.moving_off_light_time), want)
        /\ Fits(ByteStep(183, SleepTimeCode[config.performance_time]), want)
        /\ Fits(ByteStep(185, config.sensor_mode), want)
    <2>1. Fits(ByteStep(0, PollingRateCode[config.polling_rate]), want)
      BY <1>4, <1>5, ByteStepsFit
    <2>2. Fits(ByteStep(10, LiftOffCode[config.lift_off_distance]), want)
      BY <1>4, <1>5, ByteStepsFit
    <2>3. Fits(ByteStep(179, config.moving_off_light_time), want)
      <3>1. \A t : Wants(want, "moving_off_light_time", 0, t) => Fits(ByteStep(179, t), want)
        BY ByteStepsFit
      <3> QED  BY <1>4, <3>1
    <2>4. Fits(ByteStep(183, SleepTimeCode[config.performance_time]), want)
      <3>1. \A v : Fits(ByteStep(183, v), want)  BY ByteStepsFit
      <3> QED  BY <3>1
    <2>5. Fits(ByteStep(185, config.sensor_mode), want)
      BY <1>4, <1>5, ByteStepsFit
    <2> QED  BY <2>1, <2>2, <2>3, <2>4, <2>5
  <1>8. /\ Fits(ByteStep(175, Flag(config.angle_snapping)), want)
        /\ Fits(ByteStep(177, Flag(config.ripple_control)), want)
        /\ Fits(ByteStep(181, Flag(config.high_speed_mode)), want)
        /\ Fits(ByteStep(171, Flag(config.motion_sync)), want)
        /\ Fits(ByteStep(8, Flag(config.sensor_20k)), want)
    <2>1. \A name \in FlagSettings, on \in BOOLEAN :
            Wants(want, name, 0, on) => Fits(ByteStep(Offsets[name], Flag(on)), want)
      BY ByteStepsFit
    <2>2. FlagSettings = {"sensor_20k", "motion_sync", "angle_snapping", "ripple_control",
                          "high_speed_mode"}
      BY DEF FlagSettings
    <2> QED  BY <1>4, <1>5, <2>1, <2>2, OffsetsAre
  <1>9. Fits(CommandStep("range", Flag(config.long_distance_mode)), want)
    BY <1>4, <1>5, CommandFits
  <1>10. ASSUME NEW p \in Packets(set_config(config)) PROVE Fits(p, want)
    <2>1. p \in {ByteStep(0, PollingRateCode[config.polling_rate]),
                 ByteStep(10, LiftOffCode[config.lift_off_distance]),
                 ByteStep(175, Flag(config.angle_snapping)),
                 ByteStep(177, Flag(config.ripple_control)),
                 ByteStep(181, Flag(config.high_speed_mode)),
                 CommandStep("range", Flag(config.long_distance_mode)),
                 ByteStep(171, Flag(config.motion_sync)),
                 ByteStep(179, config.moving_off_light_time),
                 ByteStep(183, SleepTimeCode[config.performance_time]),
                 ByteStep(185, config.sensor_mode),
                 ByteStep(8, Flag(config.sensor_20k))}
                \cup Packets(set_sleep_timeout(config.sleep_timeout_seconds))
                \cup Packets(set_debounce_time(config.debounce_time))
                \cup Packets(DpiWrites(config))
      BY <1>1, <1>10, ConfigPackets
    <2> QED  BY <1>3, <1>6, <1>7, <1>8, <1>9, <2>1 DEF FitScript
  <1> QED  BY <1>10 DEF FitScript, want

-----------------------------------------------------------------------------
(* Old or new. *)

\* The settings that fit into one packet are as before the call or as asked, and what the
\* call has still to send keeps them so.
Between ==
    /\ AcceptableIn(start.memory)
    /\ FitScript(steps, asked)
    /\ \A s \in Whole : \/ Value(device, s) = Value(start, s)
                        \/ s \in DOMAIN asked /\ Value(device, s) = asked[s]

\* No configuration with more stages than a byte counts: set_config counts them modulo 256.
FewStages ==
    /\ \A proto \in Protos : Len(proto.dpi_stages) <= 256
    /\ \A config \in Configs : Len(config.dpi_stages) <= 256

LEMMA CallFits ==
    ASSUME Inv, NEW script, NEW want, FitScript(script, want), Call(script, want)
    PROVE  Between'
  BY DEF Inv, Call, Between

LEMMA RefusalFits ==
    ASSUME NEW wrong, NEW script, NEW want, ~wrong => FitScript(script, want)
    PROVE  FitScript(Unless(wrong, script), want)
  <1>1. FitScript(Reject, want)  BY SettersFit
  <1> QED  BY <1>1 DEF Unless

LEMMA TakenFits ==
    ASSUME Inv, Between, NEW step, Fits(step, asked), step.op # "reject", NEW s \in Whole
    PROVE  \/ Value(Taken(step), s) = Value(start, s)
           \/ s \in DOMAIN asked /\ Value(Taken(step), s) = asked[s]
  <1>1. Taken(step) = After(device, step)  BY DEF Taken, After
  <1>2. \/ Value(After(device, step), s) = Value(device, s)
        \/ s \in DOMAIN asked /\ Value(After(device, step), s) = asked[s]
    BY DEF Inv, Fits
  <1> QED  BY <1>1, <1>2 DEF Between

LEMMA FittingHeadAndTail ==
    ASSUME NEW script, IsScript(script), script # << >>, NEW want, FitScript(script, want)
    PROVE  Fits(Head(script), want) /\ FitScript(Tail(script), want)
  BY HeadAndTail DEF FitScript

LEMMA NothingFits == \A want : FitScript(<< >>, want)
  BY NoPacket DEF FitScript

LEMMA DaemonCallFits == ASSUME FewStages, Inv, DaemonCall PROVE Between'
  <1>0. \A want : FitScript(Reject, want)  BY SettersFit
  <1>1. ASSUME NEW proto \in Protos, SetConfig(proto) PROVE Between'
    <2> DEFINE config == ConfigFromProto(proto)
    <2>1. CASE config = Invalid
      BY <1>0, <1>1, <2>1, CallFits DEF SetConfig
    <2>2. CASE config # Invalid
      <3>1. /\ proto.switches \in [Switches -> BOOLEAN]
            /\ proto.dpi_stages \in Seq([value : Nat, color : Nat \X Nat \X Nat])
            /\ proto.current_dpi_index \in Nat /\ proto.sleep_timeout_seconds \in Nat
        BY RequestsAssumption
      <3>2. /\ RateFromProto(proto.polling_rate) # Invalid
            /\ LodFromProto(proto.lift_off_distance) # Invalid
            /\ StagesFromProto(proto.dpi_stages) # Invalid
            /\ TryU8(proto.current_dpi_index) # Invalid
        BY <2>2 DEF ConfigFromProto
      <3>3. config \in MouseConfig /\ config.dpi_stages = proto.dpi_stages
        BY <3>1, <3>2, ConvertedIsConfig
      <3>4. Len(config.dpi_stages) <= 256  BY <3>3 DEF FewStages
      <3>5. FitScript(set_config(config), AskingConfig(config))
        <4> HIDE DEF config
        <4> QED  BY <3>3, <3>4, ConfigFits
      <3> QED  BY <1>1, <2>2, <3>5, CallFits DEF SetConfig
    <2> QED  BY <2>1, <2>2
  <1>2. ASSUME NEW n \in Numbers, SetPollingRate(n) PROVE Between'
    <2> DEFINE rate == RateFromProto(n)
               want == Asking("polling_rate", 0, rate)
    <2>1. rate # Invalid => rate \in PollingRate
      BY DEF RateFromProto, RatesAscending, PollingRate, PollingRateCode
    <2>2. Wants(want, "polling_rate", 0, rate)  BY Asked
    <2>3. Call(IF rate = Invalid THEN Reject ELSE set_polling_rate(rate), want)
      BY <1>2 DEF SetPollingRate
    <2> HIDE DEF rate, want
    <2>4. rate # Invalid => FitScript(set_polling_rate(rate), want)
      BY <2>1, <2>2, SettersFit
    <2> QED  BY <1>0, <2>3, <2>4, CallFits
  <1>3. ASSUME NEW n \in Numbers, SetLiftOffDistance(n) PROVE Between'
    <2> DEFINE lod  == LodFromProto(n)
               want == Asking("lift_off_distance", 0, lod)
    <2>1. lod # Invalid => lod \in LiftOffDistance
      BY DEF LodFromProto, LodAscending, LiftOffDistance, LiftOffCode
    <2>2. Wants(want, "lift_off_distance", 0, lod)  BY Asked
    <2>3. Call(IF lod = Invalid THEN Reject ELSE set_lift_off_distance(lod), want)
      BY <1>3 DEF SetLiftOffDistance
    <2> HIDE DEF lod, want
    <2>4. lod # Invalid => FitScript(set_lift_off_distance(lod), want)
      BY <2>1, <2>2, SettersFit
    <2> QED  BY <1>0, <2>3, <2>4, CallFits
  <1>4. ASSUME NEW n \in Numbers, SetSleepTimeout(n) PROVE Between'
    <2> DEFINE s == AsU16(n)
    <2>1. s \in Nat
      <3>1. n \in Nat  BY RequestsAssumption
      <3>2. AsU16(n) \in Word  BY <3>1, Narrow
      <3>3. Word \subseteq Nat  BY Widths
      <3> QED  BY <3>2, <3>3
    <2>2. Call(set_sleep_timeout(s), AskingTimeout(s))  BY <1>4 DEF SetSleepTimeout
    <2> HIDE DEF s
    <2>3. Wants(AskingTimeout(s), "sleep_timeout_seconds", 0, TensOf(s))  BY Asked
    <2>4. FitScript(set_sleep_timeout(s), AskingTimeout(s))  BY <2>1, <2>3, SettersFit
    <2> QED  BY <2>2, <2>4, CallFits
  <1>5. ASSUME NEW n \in Numbers, SetCurrentDpiIndex(n) PROVE Between'
    <2> DEFINE want == Asking("current_dpi_index", 0, n)
    <2>1. Wants(want, "current_dpi_index", 0, n)  BY Asked
    <2>2. Call(Unless(TryU8(n) = Invalid, set_current_dpi_index(n)), want)
      BY <1>5 DEF SetCurrentDpiIndex
    <2> HIDE DEF want
    <2>3. FitScript(set_current_dpi_index(n), want)  BY <2>1, SettersFit
    <2> QED  BY <2>2, <2>3, RefusalFits, CallFits
  <1>6. ASSUME NEW n \in Numbers, SetDpiCount(n) PROVE Between'
    <2> DEFINE want == Asking("dpi_count", 0, n)
    <2>1. Wants(want, "dpi_count", 0, n)  BY Asked
    <2>2. Call(Unless(TryU8(n) = Invalid, set_dpi_count(n)), want)  BY <1>6 DEF SetDpiCount
    <2> HIDE DEF want
    <2>3. FitScript(set_dpi_count(n), want)  BY <2>1, SettersFit
    <2> QED  BY <2>2, <2>3, RefusalFits, CallFits
  <1>7. ASSUME NEW n \in Numbers, NEW option \in StageOptions, SetDpiValue(n, option)
        PROVE  Between'
    <2> DEFINE stage == StageOf(option)
               want  == Asking("dpi_value", stage, RoundedDpi(n))
    <2>1. stage \in Nat  BY StageNatural
    <2>2. Wants(want, "dpi_value", stage, RoundedDpi(n))  BY Asked
    <2>3. Call(Unless(Invalid \in {TryU16(n), TryU8(stage)}, set_dpi_value(stage, n)), want)
      BY <1>7 DEF SetDpiValue
    <2> HIDE DEF stage, want
    <2>4. FitScript(set_dpi_value(stage, n), want)  BY <2>1, <2>2, SettersFit
    <2> QED  BY <2>3, <2>4, RefusalFits, CallFits
  <1>8. ASSUME NEW color \in Colors, NEW option \in StageOptions, SetDpiColor(color, option)
        PROVE  Between'
    <2> DEFINE stage == StageOf(option)
               want  == Asking("dpi_color", stage, color)
               wrong == Invalid \in {TryU8(stage)} \cup {TryU8(color[i]) : i \in 1..3}
    <2>1. ~wrong => color \in Color
      <3>1. PICK r \in Nat, g \in Nat, b \in Nat : color = <<r, g, b>>  BY RequestsAssumption
      <3>2. color[1] = r /\ color[2] = g /\ color[3] = b  BY <3>1
      <3>3. ~wrong => \A i \in 1..3 : TryU8(color[i]) # Invalid  OBVIOUS
      <3>4. ~wrong => TryU8(r) # Invalid /\ TryU8(g) # Invalid /\ TryU8(b) # Invalid
        BY <3>2, <3>3
      <3>5. ~wrong => r \in Byte /\ g \in Byte /\ b \in Byte  BY <3>4, Narrow
      <3> QED  BY <3>1, <3>5 DEF Color
    <2>2. stage \in Nat  BY StageNatural
    <2>3. Wants(want, "dpi_color", stage, color)  BY Asked
    <2>4. Call(Unless(wrong, set_dpi_color(stage, color)), want)  BY <1>8 DEF SetDpiColor
    <2> HIDE DEF stage, want, wrong
    <2>5. ~wrong => FitScript(set_dpi_color(stage, color), want)
      BY <2>1, <2>2, <2>3, SettersFit
    <2> QED  BY <2>4, <2>5, RefusalFits, CallFits
  <1>9. ASSUME NEW on \in BOOLEAN,
               SetAngleSnapping(on) \/ SetRippleControl(on) \/ SetHighSpeedMode(on)
        PROVE  Between'
    <2>1. PICK name \in {"angle_snapping", "ripple_control", "high_speed_mode"} :
            Call(set_bool(Offsets[name], on), Asking(name, 0, on))
      BY <1>9, OffsetsAre DEF SetAngleSnapping, SetRippleControl, SetHighSpeedMode,
         OFFSET_ANGLE_SNAPPING, OFFSET_RIPPLE_CONTROL, OFFSET_HIGH_SPEED_MODE
    <2>2. name \in FlagSettings  BY DEF FlagSettings
    <2>3. Wants(Asking(name, 0, on), name, 0, on)  BY Asked
    <2>4. FitScript(set_bool(Offsets[name], on), Asking(name, 0, on))
      BY <2>2, <2>3, SettersFit
    <2> QED  BY <2>1, <2>4, CallFits
  <1>10. ASSUME NEW on \in BOOLEAN, SetLongDistanceMode(on) PROVE Between'
    <2> DEFINE want == Asking("long_distance_mode", 0, on)
    <2>1. Wants(want, "long_distance_mode", 0, on)  BY Asked
    <2>2. Call(set_long_distance_mode(on), want)  BY <1>10 DEF SetLongDistanceMode
    <2> HIDE DEF want
    <2>3. FitScript(set_long_distance_mode(on), want)  BY <2>1, SettersFit
    <2> QED  BY <2>2, <2>3, CallFits
  <1> QED  BY <1>1, <1>2, <1>3, <1>4, <1>5, <1>6, <1>7, <1>8, <1>9, <1>10 DEF DaemonCall
\* A reset asks for what the memory of the factory says.
LEMMA FactoryFits ==
    ASSUME Inv
    PROVE  FitScript(factory_reset,
                     Readings([device EXCEPT !.memory = Factory],
                              Setting \ {Single("long_distance_mode"), Single("profile")}))
  <1> DEFINE fresh    == [device EXCEPT !.memory = Factory]
             settings == Setting \ {LongDistance, Profile}
             want     == Readings(fresh, settings)
  <1>1. fresh.memory = Factory /\ AcceptableIn(fresh.memory)
    BY FactoryAssumption DEF Inv
  <1>2. DOMAIN want = settings /\ \A s \in settings : want[s] = Got(fresh, get_config(fresh), s)
    BY DEF Readings
  <1> HIDE DEF fresh, want
  <1>3. ASSUME NEW s \in Whole, s # LongDistance /\ s # Profile
        PROVE  s \in DOMAIN want /\ want[s] = MemoryValue(Factory, s)
    <2>1. s \in settings  BY <1>3 DEF Whole
    <2>2. want[s] = Value(fresh, s)  BY <1>1, <1>2, <2>1, GotIs
    <2>3. Value(fresh, s) = MemoryValue(Factory, s)  BY <1>1, <1>3, ValueIs
    <2> QED  BY <1>2, <2>1, <2>2, <2>3
  <1>4. Fits(CommandStep("reset", 0), want)  BY <1>3, ResetFits
  <1>5. FitScript(factory_reset, want)  BY <1>4, SetterPackets DEF FitScript
  <1> QED  BY <1>5 DEF want, fresh, LongDistance, Profile

LEMMA LibraryCallFits == ASSUME FewStages, Inv, LibraryCall PROVE Between'
  <1>1. ASSUME NEW config \in Configs, ApplyConfig(config) PROVE Between'
    <2>1. config \in MouseConfig  BY RequestsAssumption
    <2>2. FitScript(set_config(config), AskingConfig(config))
      BY <2>1, ConfigFits DEF FewStages
    <2> QED  BY <1>1, <2>2, CallFits DEF ApplyConfig
  <1>2. ASSUME NEW on \in BOOLEAN, SetMotionSync(on) \/ SetSensor20kMode(on) PROVE Between'
    <2>1. PICK name \in {"motion_sync", "sensor_20k"} :
            Call(set_bool(Offsets[name], on), Asking(name, 0, on))
      BY <1>2, OffsetsAre DEF SetMotionSync, SetSensor20kMode,
         OFFSET_MOTION_SYNC, OFFSET_SENSOR_20K
    <2>2. name \in FlagSettings  BY DEF FlagSettings
    <2>3. Wants(Asking(name, 0, on), name, 0, on)  BY Asked
    <2>4. FitScript(set_bool(Offsets[name], on), Asking(name, 0, on))
      BY <2>2, <2>3, SettersFit
    <2> QED  BY <2>1, <2>4, CallFits
  <1>3. ASSUME NEW n, SetDebounceTime(n) PROVE Between'
    <2>1. FitScript(set_debounce_time(n), Asking("debounce_time", 0, n))
      BY Asked, SettersFit
    <2> QED  BY <1>3, <2>1, CallFits DEF SetDebounceTime
  <1>4. ASSUME NEW n, SetMovingOffLightTime(n) PROVE Between'
    <2>1. FitScript(set_moving_off_light_time(n), Asking("moving_off_light_time", 0, n))
      BY Asked, SettersFit
    <2> QED  BY <1>4, <2>1, CallFits DEF SetMovingOffLightTime
  <1>5. ASSUME NEW n, SetCurrentProfile(n) PROVE Between'
    <2>1. FitScript(set_current_profile(n), Asking("profile", 0, n))
      BY Asked, SettersFit
    <2> QED  BY <1>5, <2>1, CallFits DEF SetCurrentProfile
  <1>6. ASSUME NEW mode \in SensorMode, SetSensorMode(mode) PROVE Between'
    <2>1. FitScript(set_sensor_mode(mode), Asking("sensor_mode", 0, mode))
      BY Asked, SettersFit
    <2> QED  BY <1>6, <2>1, CallFits DEF SetSensorMode
  <1>7. ASSUME NEW time, SetPerformanceTime(time) PROVE Between'
    <2>1. FitScript(set_performance_time(time), Asking("performance_time", 0, time))
      BY SettersFit
    <2> QED  BY <1>7, <2>1, CallFits DEF SetPerformanceTime
  <1>8. ASSUME NEW light \in Lights, SetLightSettings(light) PROVE Between'
    <2>1. light.color \in Color  BY ValuesAssumption
    <2>2. FitScript(set_light_settings(light), Asking("light", 0, light))  BY <2>1, GroupsFit
    <2> QED  BY <1>8, <2>2, CallFits DEF SetLightSettings
  <1>9. ASSUME NEW effect, SetDpiEffect(effect) PROVE Between'
    BY <1>9, GroupsFit, CallFits DEF SetDpiEffect
  <1>10. ASSUME NEW index \in Stages \cup {8}, NEW key \in Keys, SetKeyFunction(index, key)
         PROVE  Between'
    <2>1. index \in Nat /\ key \in KeyFunction  BY IndicesAre, RequestsAssumption
    <2>2. Wants(Asking("key_function", index, key), "key_function", index, key)  BY Asked
    <2>3. FitScript(set_key_function(index, key), Asking("key_function", index, key))
      BY <2>1, <2>2, SettersFit
    <2> QED  BY <1>10, <2>3, CallFits DEF SetKeyFunction
  <1>11. ASSUME NEW slot \in Slots \cup {8}, NEW x, SetShortcutKey(slot, x) \/ SetMacro(slot, x)
         PROVE  Between'
    <2>1. slot \in Nat  BY IndicesAre
    <2> QED  BY <1>11, <2>1, GroupsFit, CallFits DEF SetShortcutKey, SetMacro
  <1>12. ASSUME FactoryReset PROVE Between'
    BY <1>12, FactoryFits, CallFits DEF FactoryReset
  <1> QED
    BY <1>1, <1>2, <1>3, <1>4, <1>5, <1>6, <1>7, <1>8, <1>9, <1>10, <1>11, <1>12
       DEF LibraryCall

LEMMA BetweenInit == Init => Between
  BY FactoryAssumption, NothingFits DEF Init, Between

LEMMA BetweenNext == ASSUME FewStages, Inv, Between, [Next]_vars PROVE Between'
  <1>0. AcceptableIn(start.memory) /\ FitScript(steps, asked) /\ IsScript(steps)
    BY DEF Inv, Between, SafeScript
  <1>1. CASE DaemonCall  BY <1>1, DaemonCallFits
  <1>2. CASE LibraryCall  BY <1>2, LibraryCallFits
  <1>3. CASE Accepted
    <2>1. Head(steps).op # "reject" /\ steps # << >>  BY <1>3 DEF Accepted, Sending
    <2>2. Fits(Head(steps), asked) /\ FitScript(Tail(steps), asked)
      BY <1>0, <2>1, FittingHeadAndTail
    <2>3. \A s \in Whole : \/ Value(Taken(Head(steps)), s) = Value(start, s)
                           \/ /\ s \in DOMAIN asked
                              /\ Value(Taken(Head(steps)), s) = asked[s]
      BY <2>1, <2>2, TakenFits
    <2> QED  BY <1>0, <1>3, <2>2, <2>3 DEF Accepted, Between
  <1>4. CASE Refused
    <2>1. steps # << >>  BY <1>4 DEF Refused, Sending
    <2>2. FitScript(Tail(steps), asked)  BY <1>0, <2>1, FittingHeadAndTail
    <2>3. FitScript(<< >>, asked)  BY NothingFits
    <2>4. UNCHANGED <<device, start, asked>> /\ steps' \in {<< >>, Tail(steps)}
      BY <1>4 DEF Refused, Fail
    <2> QED  BY <2>2, <2>3, <2>4 DEF Between
  <1>5. CASE Interrupted
    <2>1. Head(steps).op # "reject" /\ steps # << >>  BY <1>5 DEF Interrupted, Sending
    <2>2. Fits(Head(steps), asked)  BY <1>0, <2>1, FittingHeadAndTail
    <2>3. \A s \in Whole : \/ Value(Taken(Head(steps)), s) = Value(start, s)
                           \/ /\ s \in DOMAIN asked
                              /\ Value(Taken(Head(steps)), s) = asked[s]
      BY <2>1, <2>2, TakenFits
    <2>4. FitScript(<< >>, asked)  BY NothingFits
    <2>5. /\ UNCHANGED <<start, asked>> /\ steps' = << >>
          /\ device' = device \/ device' = Taken(Head(steps))
      BY <1>5 DEF Interrupted, Fail
    <2> QED  BY <1>0, <2>3, <2>4, <2>5 DEF Between
  <1>6. CASE Rejected
    <2>1. FitScript(<< >>, asked)  BY NothingFits
    <2> QED  BY <1>6, <2>1 DEF Rejected, Fail, Between
  <1>7. CASE Finish
    BY <1>7 DEF Finish, Between
  <1>8. CASE UNCHANGED vars
    BY <1>8 DEF vars, Between
  <1> QED  BY <1>1, <1>2, <1>3, <1>4, <1>5, <1>6, <1>7, <1>8 DEF Next

\* At every moment of a call, and after one that failed or was dropped at any packet
\* (mouse.rs, set_config and the setters), each setting that fits into one packet reads as
\* before the call or as asked, whatever is asked and in whatever order calls come.  The
\* hypothesis is needed: with 257 stages set_config writes a count of one and then fails.
THEOREM OldOrNewCorrect ==
  ASSUME FewStages
  PROVE  Spec => []OldOrNew
  <1>1. Inv /\ Between => OldOrNew
    <2> SUFFICES ASSUME Inv, Between PROVE OldOrNew  OBVIOUS
    <2>1. \A s \in Whole : /\ Readings(device, Whole)[s] = Value(device, s)
                           /\ Readings(start, Whole)[s] = Value(start, s)
      BY GotIs DEF Readings, Inv, Between
    <2> QED  BY <2>1 DEF OldOrNew, Whole, Between
  <1>2. Init => Inv /\ Between  BY InvInit, BetweenInit
  <1>3. Inv /\ Between /\ [Next]_vars => (Inv /\ Between)'
    BY InvNext, BetweenNext
  <1> QED  BY <1>1, <1>2, <1>3, PTL DEF Spec

-----------------------------------------------------------------------------
(* What a whole call makes of the device. *)

IsDevice(dev) == DOMAIN dev = {"memory", "long_distance", "profile"}

\* A script leads from one device to another, one packet after the other.
Leads(script, dev, goal) ==
    \E trace : /\ trace[0] = dev
               /\ trace[Len(script)] = goal
               /\ \A i \in 1..Len(script) : trace[i] = After(trace[i - 1], script[i])

LEMMA LeadsNowhere == \A dev, goal : Leads(<< >>, dev, goal) <=> goal = dev
  <1>1. Len(<< >>) = 0 /\ 1..0 = {}  OBVIOUS
  <1>2. ASSUME NEW dev PROVE Leads(<< >>, dev, dev)
    <2>1. [i \in {0} |-> dev][0] = dev  OBVIOUS
    <2> QED  BY <1>1, <2>1 DEF Leads
  <1>3. ASSUME NEW dev, NEW goal, Leads(<< >>, dev, goal) PROVE goal = dev
    BY <1>1, <1>3 DEF Leads
  <1> QED  BY <1>2, <1>3

LEMMA LeadsOne == \A step, dev : Leads(<<step>>, dev, After(dev, step))
  <1> TAKE step, dev
  <1> DEFINE trace == [i \in 0..1 |-> IF i = 0 THEN dev ELSE After(dev, step)]
  <1>1. trace[0] = dev /\ trace[1] = After(dev, step)  OBVIOUS
  <1>2. Len(<<step>>) = 1 /\ <<step>>[1] = step  OBVIOUS
  <1> HIDE DEF trace
  <1>3. \A i \in 1..1 : trace[i] = After(trace[i - 1], <<step>>[i])  BY <1>1, <1>2
  <1> QED  BY <1>1, <1>2, <1>3 DEF Leads

LEMMA LeadsOn ==
    ASSUME NEW s, NEW t, IsScript(s), IsScript(t), NEW dev, NEW goal, NEW last,
           Leads(s, dev, goal), Leads(t, goal, last)
    PROVE  Leads(s \o t, dev, last)
  <1> DEFINE S == Packets(s) \cup Packets(t)
  <1>1. s \in Seq(S) /\ t \in Seq(S)
    <2>1. s \in Seq(Packets(s)) /\ t \in Seq(Packets(t))  BY DEF IsScript
    <2>2. Packets(s) \subseteq S /\ Packets(t) \subseteq S  OBVIOUS
    <2> HIDE DEF S
    <2> QED  BY <2>1, <2>2
  <1> HIDE DEF S
  <1> DEFINE m == Len(s)  n == Len(t)
  <1>2. m \in Nat /\ n \in Nat /\ Len(s \o t) = m + n  BY <1>1
  <1>3. /\ \A i \in 1..m : (s \o t)[i] = s[i]
        /\ \A i \in (m + 1)..(m + n) : (s \o t)[i] = t[i - m]
    BY <1>1
  <1>4. PICK f : /\ f[0] = dev /\ f[m] = goal
                 /\ \A i \in 1..m : f[i] = After(f[i - 1], s[i])
    BY DEF Leads
  <1>5. PICK g : /\ g[0] = goal /\ g[n] = last
                 /\ \A i \in 1..n : g[i] = After(g[i - 1], t[i])
    BY DEF Leads
  <1> HIDE DEF m, n
  <1> DEFINE trace == [i \in 0..(m + n) |-> IF i <= m THEN f[i] ELSE g[i - m]]
  <1>6. \A i \in 0..m : trace[i] = f[i]  BY <1>2
  <1>7. \A i \in m..(m + n) : trace[i] = g[i - m]
    BY <1>2, <1>4, <1>5
  <1> HIDE DEF trace
  <1>8. trace[0] = dev  BY <1>2, <1>4, <1>6
  <1>9. trace[m + n] = last
    <2>1. m + n \in m..(m + n) /\ (m + n) - m = n  BY <1>2
    <2> QED  BY <1>5, <1>7, <2>1
  <1>10. ASSUME NEW i \in 1..(m + n) PROVE trace[i] = After(trace[i - 1], (s \o t)[i])
    <2>1. CASE i \in 1..m
      <3>1. i \in 0..m /\ i - 1 \in 0..m  BY <2>1, <1>2
      <3> QED  BY <1>3, <1>4, <1>6, <2>1, <3>1
    <2>2. CASE i \in (m + 1)..(m + n)
      <3>1. /\ i \in m..(m + n) /\ i - 1 \in m..(m + n)
            /\ i - m \in 1..n /\ (i - 1) - m = (i - m) - 1
        BY <2>2, <1>2
      <3> QED  BY <1>3, <1>5, <1>7, <2>2, <3>1
    <2> QED  BY <2>1, <2>2, <1>2
  <1> QED  BY <1>2, <1>8, <1>9, <1>10 DEF Leads

\* After its first packet, the rest of a script leads to the same device.
LEMMA LeadsFromTail ==
    ASSUME NEW script, IsScript(script), script # << >>, NEW dev, NEW goal,
           Leads(script, dev, goal)
    PROVE  Leads(Tail(script), After(dev, Head(script)), goal)
  <1> DEFINE S == Packets(script)
             n == Len(script)
  <1>1. script \in Seq(S)  BY DEF IsScript
  <1> HIDE DEF S
  <1>2. /\ n \in Nat /\ n >= 1 /\ Len(Tail(script)) = n - 1 /\ Head(script) = script[1]
        /\ \A i \in 1..(n - 1) : Tail(script)[i] = script[i + 1]
    BY <1>1
  <1>3. PICK f : /\ f[0] = dev /\ f[n] = goal
                 /\ \A i \in 1..n : f[i] = After(f[i - 1], script[i])
    BY DEF Leads
  <1> HIDE DEF n
  <1> DEFINE trace == [i \in 0..(n - 1) |-> f[i + 1]]
  <1>4. \A i \in 0..(n - 1) : trace[i] = f[i + 1]  OBVIOUS
  <1> HIDE DEF trace
  <1>5. trace[0] = After(dev, Head(script))
    <2>1. 0 \in 0..(n - 1) /\ 1 \in 1..n  BY <1>2
    <2> QED  BY <1>2, <1>3, <1>4, <2>1
  <1>6. trace[n - 1] = goal
    <2>1. n - 1 \in 0..(n - 1) /\ (n - 1) + 1 = n  BY <1>2
    <2> QED  BY <1>3, <1>4, <2>1
  <1>7. ASSUME NEW i \in 1..(n - 1) PROVE trace[i] = After(trace[i - 1], Tail(script)[i])
    <2>1. /\ i \in 0..(n - 1) /\ i - 1 \in 0..(n - 1) /\ (i - 1) + 1 = i
          /\ i + 1 \in 1..n /\ (i + 1) - 1 = i
      BY <1>2
    <2> QED  BY <1>2, <1>3, <1>4, <2>1
  <1> QED  BY <1>2, <1>5, <1>6, <1>7 DEF Leads

\* Settings that are kept in the memory, by name and index, at the bytes where they are.
InMemory == Setting \ {LongDistance, Profile}

Firsts == [dpi_value |-> 12, dpi_color |-> 44, dpi_effect |-> 76, key_function |-> 96,
           light |-> 160, performance_time |-> 183, shortcut |-> 256, macro |-> 768]
Sizes  == [dpi_value |-> 4, dpi_color |-> 4, dpi_effect |-> 8, key_function |-> 4,
           light |-> 9, performance_time |-> 2, shortcut |-> 32, macro |-> 384]
Wide   == DOMAIN Firsts
Lone   == {"light", "dpi_effect", "performance_time"}

Base(s) == IF s[1] \in ByteSettings THEN Offsets[s[1]] ELSE Firsts[s[1]] + Sizes[s[1]] * s[2]
Size(s) == IF s[1] \in ByteSettings THEN 2 ELSE Sizes[s[1]]

\* The settings that have bytes of their own, whether they are looked at or not.
Located == {<<name, 0>> : name \in ByteSettings \cup Lone}
             \cup {<<name, k>> : name \in Wide \ Lone, k \in 0..7}

LEMMA LocatedCases ==
    ASSUME NEW s \in Located
    PROVE  \/ \E name \in ByteSettings : s = <<name, 0>>
           \/ \E name \in Wide, k \in 0..7 : s = <<name, k>> /\ (name \in Lone => k = 0)
  <1>1. Lone \subseteq Wide /\ 0 \in 0..7  BY DEF Lone, Wide, Firsts
  <1>2. CASE \E name \in ByteSettings \cup Lone : s = <<name, 0>>  BY <1>1, <1>2
  <1>3. CASE \E name \in Wide \ Lone, k \in 0..7 : s = <<name, k>>  BY <1>3
  <1> QED  BY <1>2, <1>3 DEF Located

LEMMA LocatedAre ==
    /\ \A name \in ByteSettings : <<name, 0>> \in Located
    /\ \A name \in Wide, k \in 0..7 : (name \in Lone => k = 0) => <<name, k>> \in Located
  <1>1. ASSUME NEW name \in Wide, NEW k \in 0..7, name \in Lone => k = 0
        PROVE  <<name, k>> \in Located
    <2>1. CASE name \in Lone  BY <1>1, <2>1 DEF Located
    <2>2. CASE name \notin Lone  BY <2>2 DEF Located
    <2> QED  BY <2>1, <2>2
  <1>2. \A name \in ByteSettings : <<name, 0>> \in Located  BY DEF Located
  <1> QED  BY <1>1, <1>2

LEMMA InMemoryCases ==
    ASSUME NEW s \in InMemory
    PROVE  \/ \E name \in ByteSettings : s = <<name, 0>>
           \/ \E name \in Wide, k \in 0..7 : s = <<name, k>> /\ (name \in Lone => k = 0)
  <1>0. FourSettings \subseteq Wide /\ Lone \subseteq Wide /\ {"shortcut", "macro"} \subseteq Wide
        /\ FourSettings \cap Lone = {} /\ {"shortcut", "macro"} \cap Lone = {}
    BY DEF FourSettings, Wide, Firsts, Lone
  <1>1. CASE s[1] \notin Spread
    <2>1. s \in Whole /\ s # LongDistance /\ s # Profile  BY <1>1 DEF InMemory, Whole
    <2> QED  BY <1>0, <2>1, WholeCases
  <1>2. CASE s[1] \in Spread
    <2>1. CASE \E name \in PlainSettings \cup {"dpi_count", "current_dpi_index", "light",
                                               "dpi_effect", "profile"} : s = Single(name)
      <3>1. PICK name : s = <<name, 0>>  BY <2>1 DEF Single
      <3>2. name \in Lone \cup {"shortcut", "macro"}  BY <1>2, <3>1 DEF Spread, Lone
      <3> QED  BY <1>0, <3>1, <3>2
    <2>2. CASE s \in FourSettings \X Stages
      <3>1. PICK name \in FourSettings, k \in Stages : s = <<name, k>>  BY <2>2
      <3> QED  BY <1>2, <3>1 DEF Spread, FourSettings
    <2>3. CASE s \in {"shortcut", "macro"} \X Slots
      <3>1. PICK name \in {"shortcut", "macro"}, k \in Slots : s = <<name, k>>  BY <2>3
      <3>2. k \in 0..7  BY RequestsAssumption
      <3> QED  BY <1>0, <3>1, <3>2
    <2>4. s \in Setting  BY DEF InMemory
    <2> QED  BY <2>1, <2>2, <2>3, <2>4 DEF Setting, FourSettings
  <1> QED  BY <1>1, <1>2

LEMMA InMemoryIsLocated ==
    ASSUME NEW s \in InMemory
    PROVE  s \in Located
  <1>1. CASE \E name \in ByteSettings : s = <<name, 0>>  BY <1>1, LocatedAre
  <1>2. CASE \E name \in Wide, k \in 0..7 : s = <<name, k>> /\ (name \in Lone => k = 0)
    BY <1>2, LocatedAre
  <1> QED  BY <1>1, <1>2, InMemoryCases

\* Where each setting begins, and how far the settings of its name reach.
LEMMA BasesAre ==
    /\ \A name \in ByteSettings : /\ Base(<<name, 0>>) = Offsets[name]
                                  /\ Size(<<name, 0>>) = 2
    /\ \A name \in Wide, k \in 0..7 : /\ Base(<<name, k>>) = Firsts[name] + Sizes[name] * k
                                      /\ Size(<<name, k>>) = Sizes[name]
  <1>1. \A name \in Wide : name \notin ByteSettings
    BY DEF Wide, Firsts, ByteSettings, Offsets
  <1> QED  BY <1>1 DEF Base, Size

LEMMA WideAre ==
    /\ \A name \in Wide : Firsts[name] \in Nat /\ Sizes[name] \in Nat /\ Sizes[name] >= 2
    /\ \A name \in Wide : Firsts[name] >= 12
    /\ Firsts["dpi_value"] = 12 /\ Sizes["dpi_value"] = 4
    /\ Firsts["dpi_color"] = 44 /\ Sizes["dpi_color"] = 4
    /\ Firsts["key_function"] = 96 /\ Sizes["key_function"] = 4
    /\ Firsts["dpi_effect"] = 76 /\ Sizes["dpi_effect"] = 8
    /\ Firsts["light"] = 160 /\ Sizes["light"] = 9
    /\ Firsts["performance_time"] = 183 /\ Sizes["performance_time"] = 2
    /\ Firsts["shortcut"] = 256 /\ Sizes["shortcut"] = 32
    /\ Firsts["macro"] = 768 /\ Sizes["macro"] = 384
    /\ Wide = {"dpi_value", "dpi_color", "dpi_effect", "key_function", "light",
               "performance_time", "shortcut", "macro"}
  BY DEF Wide, Firsts, Sizes

Lasts == [dpi_value |-> 44, dpi_color |-> 76, dpi_effect |-> 84, key_function |-> 128,
          light |-> 169, performance_time |-> 185, shortcut |-> 512, macro |-> 3840]

LEMMA LastsAre ==
    /\ Lasts["dpi_value"] = 44 /\ Lasts["dpi_color"] = 76 /\ Lasts["dpi_effect"] = 84
    /\ Lasts["key_function"] = 128 /\ Lasts["light"] = 169
    /\ Lasts["performance_time"] = 185 /\ Lasts["shortcut"] = 512 /\ Lasts["macro"] = 3840
  BY DEF Lasts

LEMMA WideNumbers ==
    ASSUME NEW name \in Wide
    PROVE  Firsts[name] \in Nat /\ Sizes[name] \in Nat /\ Lasts[name] \in Nat
  BY LastsAre, WideAre

LEMMA WideApart ==
    ASSUME NEW name \in Wide, NEW other \in Wide, name # other
    PROVE  Lasts[name] <= Firsts[other] \/ Lasts[other] <= Firsts[name]
  BY LastsAre, WideAre

LEMMA ByteBesideWide ==
    ASSUME NEW name \in Wide,
           NEW o \in {0, 2, 4, 8, 10, 169, 171, 173, 175, 177, 179, 181, 185}
    PROVE  o + 2 <= Firsts[name] \/ Lasts[name] <= o
  BY LastsAre, WideAre

LEMMA PlaceIs ==
    ASSUME NEW name \in Wide, NEW k \in 0..7, name \in Lone => k = 0
    PROVE  /\ Firsts[name] + Sizes[name] * k \in Nat
           /\ Firsts[name] <= Firsts[name] + Sizes[name] * k
           /\ Firsts[name] + Sizes[name] * k + Sizes[name] <= Lasts[name]
  BY LastsAre, WideAre DEF Lone

LEMMA SlotsApart ==
    ASSUME NEW name \in Wide, NEW k \in 0..7, NEW j \in 0..7, k # j
    PROVE  \/ Firsts[name] + Sizes[name] * k + Sizes[name] <= Firsts[name] + Sizes[name] * j
           \/ Firsts[name] + Sizes[name] * j + Sizes[name] <= Firsts[name] + Sizes[name] * k
  BY WideAre

LEMMA AreaIs ==
    ASSUME NEW s \in Located
    PROVE  Base(s) \in Nat /\ Size(s) \in Nat
  <1>1. CASE \E name \in ByteSettings : s = <<name, 0>>
    <2>1. PICK name \in ByteSettings : s = <<name, 0>>  BY <1>1
    <2>2. Offsets[name] \in Nat  BY Places
    <2> QED  BY <2>1, <2>2, BasesAre
  <1>2. CASE \E name \in Wide, k \in 0..7 : s = <<name, k>> /\ (name \in Lone => k = 0)
    <2>1. PICK name \in Wide, k \in 0..7 : s = <<name, k>> /\ (name \in Lone => k = 0)  BY <1>2
    <2>2. Firsts[name] + Sizes[name] * k \in Nat /\ Sizes[name] \in Nat
      BY <2>1, PlaceIs, WideNumbers
    <2>3. Base(s) = Firsts[name] + Sizes[name] * k /\ Size(s) = Sizes[name]
      BY <2>1, BasesAre
    <2> QED  BY <2>2, <2>3
  <1> QED  BY <1>1, <1>2, LocatedCases

\* No two settings share a byte.
LEMMA AreasApart ==
    ASSUME NEW s \in Located, NEW t \in Located, s # t
    PROVE  Base(s) + Size(s) <= Base(t) \/ Base(t) + Size(t) <= Base(s)
  <1> DEFINE Bytes(x) == \E name \in ByteSettings : x = <<name, 0>>
             Wides(x) == \E name \in Wide, k \in 0..7 :
                           x = <<name, k>> /\ (name \in Lone => k = 0)
             Apart2(x, y) == Base(x) + Size(x) <= Base(y) \/ Base(y) + Size(y) <= Base(x)
  <1>1. ASSUME Bytes(s), Bytes(t) PROVE Apart2(s, t)
    <2>1. PICK a \in ByteSettings : s = <<a, 0>>  BY <1>1
    <2>2. PICK b \in ByteSettings : t = <<b, 0>>  BY <1>1
    <2> DEFINE o == Offsets[a]  p == Offsets[b]
    <2>3. a # b  BY <2>1, <2>2
    <2>4. o + 1 <= p - 1 \/ p + 1 <= o - 1  BY <2>3, TwoApart
    <2>5. o \in Nat /\ p \in Nat  BY Places
    <2>6. Base(s) = o /\ Size(s) = 2 /\ Base(t) = p /\ Size(t) = 2  BY <2>1, <2>2, BasesAre
    <2> HIDE DEF o, p
    <2> QED  BY <2>4, <2>5, <2>6
  <1>2. ASSUME NEW x, NEW y, Bytes(x), Wides(y) PROVE Apart2(x, y)
    <2>1. PICK a \in ByteSettings : x = <<a, 0>>  BY <1>2
    <2>2. PICK b \in Wide, k \in 0..7 : y = <<b, k>> /\ (b \in Lone => k = 0)  BY <1>2
    <2> DEFINE o == Offsets[a]  p == Firsts[b] + Sizes[b] * k  n == Sizes[b]
               low == Firsts[b]  high == Lasts[b]
    <2>3. o \in {0, 2, 4, 8, 10, 169, 171, 173, 175, 177, 179, 181, 185}  BY Places
    <2>4. o + 2 <= low \/ high <= o  BY <2>3, ByteBesideWide
    <2>5. p \in Nat /\ low <= p /\ p + n <= high  BY <2>2, PlaceIs
    <2>6. Base(x) = o /\ Size(x) = 2 /\ Base(y) = p /\ Size(y) = n  BY <2>1, <2>2, BasesAre
    <2>7. low \in Nat /\ high \in Nat /\ n \in Nat  BY WideNumbers
    <2> HIDE DEF o, p, n, low, high
    <2> QED  BY <2>3, <2>4, <2>5, <2>6, <2>7
  <1>3. ASSUME Wides(s), Wides(t) PROVE Apart2(s, t)
    <2>1. PICK a \in Wide, j \in 0..7 : s = <<a, j>> /\ (a \in Lone => j = 0)  BY <1>3
    <2>2. PICK b \in Wide, k \in 0..7 : t = <<b, k>> /\ (b \in Lone => k = 0)  BY <1>3
    <2> DEFINE p == Firsts[a] + Sizes[a] * j  m == Sizes[a]
               q == Firsts[b] + Sizes[b] * k  n == Sizes[b]
    <2>3. Base(s) = p /\ Size(s) = m /\ Base(t) = q /\ Size(t) = n  BY <2>1, <2>2, BasesAre
    <2>4. p \in Nat /\ q \in Nat /\ m \in Nat /\ n \in Nat  BY <2>1, <2>2, PlaceIs, WideNumbers
    <2>5. CASE a = b
      <3>1. j # k  BY <2>1, <2>2, <2>5
      <3>2. p + m <= q \/ q + n <= p  BY <2>5, <3>1, SlotsApart
      <3> HIDE DEF p, q, m, n
      <3> QED  BY <2>3, <3>2
    <2>6. CASE a # b
      <3> DEFINE l == Firsts[a]  h == Lasts[a]  l2 == Firsts[b]  h2 == Lasts[b]
      <3>1. h <= l2 \/ h2 <= l  BY <2>6, WideApart
      <3>2. l <= p /\ p + m <= h /\ l2 <= q /\ q + n <= h2  BY <2>1, <2>2, PlaceIs
      <3>3. l \in Nat /\ h \in Nat /\ l2 \in Nat /\ h2 \in Nat  BY WideNumbers
      <3> HIDE DEF p, q, m, n, l, h, l2, h2
      <3> QED  BY <2>3, <2>4, <3>1, <3>2, <3>3
    <2> QED  BY <2>5, <2>6
  <1>4. (Bytes(s) \/ Wides(s)) /\ (Bytes(t) \/ Wides(t))  BY LocatedCases
  <1> QED  BY <1>1, <1>2, <1>3, <1>4

-----------------------------------------------------------------------------
(* What the memory says of every setting. *)

SpreadValue(mem, s) ==
    IF s[1] = "light" THEN get_light_settings(mem)
    ELSE IF s[1] = "dpi_effect" THEN get_dpi_effect_settings(mem)
    ELSE IF s[1] = "performance_time" THEN get_performance_time(mem)
    ELSE IF s[1] = "shortcut" THEN get_shortcut_key(mem, s[2])
    ELSE get_macro(mem, s[2])

MemorySeen(mem, s) == IF s[1] \in Spread THEN SpreadValue(mem, s) ELSE MemoryValue(mem, s)

LEMMA MemorySeenIs ==
    ASSUME NEW mem
    PROVE  /\ \A name \in ByteSettings :
                MemorySeen(mem, <<name, 0>>) = ByteValue(name, At(mem, Offsets[name]))
           /\ \A name \in FourSettings, k \in 0..7 :
                MemorySeen(mem, <<name, k>>)
                  = FourValue(name, read_memory(mem, FourOffset(name, k), 4))
           /\ MemorySeen(mem, <<"light", 0>>) = get_light_settings(mem)
           /\ MemorySeen(mem, <<"dpi_effect", 0>>) = get_dpi_effect_settings(mem)
           /\ MemorySeen(mem, <<"performance_time", 0>>) = get_performance_time(mem)
           /\ \A k \in 0..7 : /\ MemorySeen(mem, <<"shortcut", k>>) = get_shortcut_key(mem, k)
                              /\ MemorySeen(mem, <<"macro", k>>) = get_macro(mem, k)
  <1>1. (ByteSettings \cup FourSettings) \cap Spread = {}
    BY DEF ByteSettings, Offsets, FourSettings, Spread
  <1>2. ASSUME NEW name \in ByteSettings
        PROVE  MemorySeen(mem, <<name, 0>>) = ByteValue(name, At(mem, Offsets[name]))
    <2>1. <<name, 0>>[1] \notin Spread  BY <1>1
    <2> QED  BY <2>1, MemoryValueIs DEF MemorySeen
  <1>3. ASSUME NEW name \in FourSettings, NEW k \in 0..7
        PROVE  MemorySeen(mem, <<name, k>>)
                 = FourValue(name, read_memory(mem, FourOffset(name, k), 4))
    <2>1. <<name, k>>[1] \notin Spread  BY <1>1
    <2> QED  BY <2>1, MemoryValueIs DEF MemorySeen
  <1>4. \A name \in Spread : \A k : MemorySeen(mem, <<name, k>>) = SpreadValue(mem, <<name, k>>)
    BY DEF MemorySeen
  <1>5. /\ \A k : SpreadValue(mem, <<"light", k>>) = get_light_settings(mem)
        /\ \A k : SpreadValue(mem, <<"dpi_effect", k>>) = get_dpi_effect_settings(mem)
        /\ \A k : SpreadValue(mem, <<"performance_time", k>>) = get_performance_time(mem)
        /\ \A k : SpreadValue(mem, <<"shortcut", k>>) = get_shortcut_key(mem, k)
        /\ \A k : SpreadValue(mem, <<"macro", k>>) = get_macro(mem, k)
    BY DEF SpreadValue
  <1> QED  BY <1>2, <1>3, <1>4, <1>5 DEF Spread

LEMMA SameRead ==
    ASSUME NEW m, NEW n, NEW offset \in Nat, NEW size \in Nat,
           \A a \in offset..(offset + size - 1) : At(m, a) = At(n, a)
    PROVE  read_memory(m, offset, size) = read_memory(n, offset, size)
  <1>1. \A i \in 1..size : offset + i - 1 \in offset..(offset + size - 1)  OBVIOUS
  <1> QED  BY <1>1 DEF read_memory

\* The bytes of a setting say what it reads as.
LEMMA SameBytes ==
    ASSUME NEW s \in Located, NEW m, NEW n,
           \A a \in Base(s)..(Base(s) + Size(s) - 1) : At(m, a) = At(n, a)
    PROVE  MemorySeen(m, s) = MemorySeen(n, s)
  <1>1. CASE \E name \in ByteSettings : s = <<name, 0>>
    <2>1. PICK name \in ByteSettings : s = <<name, 0>>  BY <1>1
    <2>2. Offsets[name] \in Base(s)..(Base(s) + Size(s) - 1)
      <3>1. Offsets[name] \in Nat  BY Places
      <3>2. Base(s) = Offsets[name] /\ Size(s) = 2  BY <2>1, BasesAre
      <3> QED  BY <3>1, <3>2
    <2>3. At(m, Offsets[name]) = At(n, Offsets[name])  BY <2>2
    <2> QED  BY <2>1, <2>3, MemorySeenIs
  <1>2. CASE \E name \in Wide, k \in 0..7 : s = <<name, k>> /\ (name \in Lone => k = 0)
    <2>1. PICK name \in Wide, k \in 0..7 : s = <<name, k>> /\ (name \in Lone => k = 0)  BY <1>2
    <2>2. Base(s) = Firsts[name] + Sizes[name] * k /\ Size(s) = Sizes[name]
      BY <2>1, BasesAre
    <2>3. CASE name \in FourSettings
      <3> DEFINE o == FourOffset(name, k)
      <3>1. Base(s) = o /\ Size(s) = 4
        BY <2>2, <2>3, WideAre DEF FourOffset, FourSettings
      <3>2. o \in Nat  BY <2>3, Places
      <3>3. \A a \in o..(o + 4 - 1) : At(m, a) = At(n, a)
        <4> HIDE DEF o
        <4> QED  BY <3>1
      <3> HIDE DEF o
      <3>4. read_memory(m, o, 4) = read_memory(n, o, 4)  BY <3>2, <3>3, SameRead
      <3> QED  BY <2>1, <2>3, <3>4, MemorySeenIs DEF o
    <2>4. CASE name = "light"
      <3>1. Base(s) = 160 /\ Size(s) = 9 /\ s = <<"light", 0>>
        BY <2>1, <2>2, <2>4, WideAre DEF Lone
      <3>2. \A a \in 160..168 : At(m, a) = At(n, a)  BY <3>1
      <3>3. read_memory(m, 160, 7) = read_memory(n, 160, 7)
        <4>1. \A a \in 160..(160 + 7 - 1) : a \in 160..168  OBVIOUS
        <4> QED  BY <3>2, <4>1, SameRead
      <3>4. At(m, 167) = At(n, 167)  BY <3>2
      <3>5. get_light_settings(m) = get_light_settings(n)
        BY <3>3, <3>4 DEF get_light_settings, get_bool, OFFSET_LIGHT_SETTINGS,
           OFFSET_LIGHT_STATE
      <3> QED  BY <3>1, <3>5, MemorySeenIs
    <2>5. CASE name = "dpi_effect"
      <3>1. Base(s) = 76 /\ Size(s) = 8 /\ s = <<"dpi_effect", 0>>
        BY <2>1, <2>2, <2>5, WideAre DEF Lone
      <3>2. \A a \in {76, 78, 80, 82} : At(m, a) = At(n, a)
        <4>1. \A a \in 76..83 : At(m, a) = At(n, a)  BY <3>1
        <4> QED  BY <4>1
      <3>3. get_dpi_effect_settings(m) = get_dpi_effect_settings(n)
        BY <3>2 DEF get_dpi_effect_settings, get_bool, OFFSET_DPI_EFFECT_MODE,
           OFFSET_DPI_EFFECT_BRIGHTNESS, OFFSET_DPI_EFFECT_SPEED, OFFSET_DPI_EFFECT_STATE
      <3> QED  BY <3>1, <3>3, MemorySeenIs
    <2>6. CASE name = "performance_time"
      <3>1. Base(s) = 183 /\ Size(s) = 2 /\ s = <<"performance_time", 0>>
        BY <2>1, <2>2, <2>6, WideAre DEF Lone
      <3>2. At(m, 183) = At(n, 183)
        <4>1. 183 \in 183..(183 + 2 - 1)  OBVIOUS
        <4> QED  BY <3>1, <4>1
      <3>3. get_performance_time(m) = get_performance_time(n)
        BY <3>2 DEF get_performance_time, OFFSET_PERFORMANCE_TIME
      <3> QED  BY <3>1, <3>3, MemorySeenIs
    <2>7. CASE name = "shortcut"
      <3> DEFINE o == 256 + 32 * k
      <3>1. Base(s) = o /\ Size(s) = 32 /\ s = <<"shortcut", k>> /\ o \in Nat
        BY <2>1, <2>2, <2>7, WideAre
      <3>2. ShortcutAddress(k) = o /\ SHORTCUT_KEY_SLOT_SIZE = 32
        BY DEF ShortcutAddress, OFFSET_SHORTCUT_KEYS, SHORTCUT_KEY_SLOT_SIZE
      <3> HIDE DEF o
      <3>3. read_memory(m, o, 32) = read_memory(n, o, 32)  BY <3>1, SameRead
      <3>4. get_shortcut_key(m, k) = get_shortcut_key(n, k)
        BY <3>2, <3>3 DEF get_shortcut_key
      <3> QED  BY <3>1, <3>4, MemorySeenIs
    <2>8. CASE name = "macro"
      <3> DEFINE o == 768 + 384 * k
      <3>1. Base(s) = o /\ Size(s) = 384 /\ s = <<"macro", k>> /\ o \in Nat
        BY <2>1, <2>2, <2>8, WideAre
      <3>2. MacroAddress(k) = o /\ MACRO_SLOT_SIZE = 384
        BY DEF MacroAddress, OFFSET_MACROS, MACRO_SLOT_SIZE
      <3> HIDE DEF o
      <3>3. read_memory(m, o, 384) = read_memory(n, o, 384)  BY <3>1, SameRead
      <3>4. get_macro(m, k) = get_macro(n, k)
        BY <3>2, <3>3 DEF get_macro
      <3> QED  BY <3>1, <3>4, MemorySeenIs
    <2> QED  BY <2>3, <2>4, <2>5, <2>6, <2>7, <2>8, WideAre DEF FourSettings
  <1> QED  BY <1>1, <1>2, LocatedCases

\* A write leaves alone what it is clear of.
LEMMA WriteElsewhere ==
    ASSUME NEW s \in Located, NEW mem, NEW address \in Nat, NEW data, Len(data) \in Nat,
           Clear(Base(s), Base(s) + Size(s), address, Len(data))
    PROVE  MemorySeen(Overlay(mem, address, data), s) = MemorySeen(mem, s)
  <1> DEFINE after == Overlay(mem, address, data)
             low == Base(s)  n == Size(s)
  <1>1. low \in Nat /\ n \in Nat  BY AreaIs
  <1>2. low + n <= address \/ address + Len(data) <= low  BY DEF Clear
  <1> HIDE DEF low, n
  <1>3. ASSUME NEW a \in low..(low + n - 1) PROVE At(after, a) = At(mem, a)
    <2>1. a \in Nat /\ (a < address \/ a >= address + Len(data))  BY <1>1, <1>2
    <2> QED  BY <2>1, AtElsewhere
  <1> HIDE DEF after
  <1>4. MemorySeen(after, s) = MemorySeen(mem, s)  BY <1>3, SameBytes DEF low, n
  <1> QED  BY <1>4 DEF after

\* What the device says of a setting.
Seen(dev, s) ==
    IF s = LongDistance THEN dev.long_distance
    ELSE IF s = Profile THEN dev.profile
    ELSE MemorySeen(dev.memory, s)

LEMMA LocatedNames ==
    ASSUME NEW s \in Located
    PROVE  s # LongDistance /\ s # Profile
  <1>1. \A name \in Wide : name # "long_distance_mode" /\ name # "profile"  BY WideAre
  <1>2. LongDistance = <<"long_distance_mode", 0>> /\ Profile = <<"profile", 0>>
    BY DEF LongDistance, Profile, Single
  <1>3. CASE \E name \in ByteSettings : s = <<name, 0>>  BY <1>2, <1>3, NamesApart
  <1>4. CASE \E name \in Wide, k \in 0..7 : s = <<name, k>>  BY <1>1, <1>2, <1>4
  <1> QED  BY <1>3, <1>4, LocatedCases

LEMMA SeenIs ==
    /\ \A dev : Seen(dev, LongDistance) = dev.long_distance /\ Seen(dev, Profile) = dev.profile
    /\ \A dev : \A s \in Located : Seen(dev, s) = MemorySeen(dev.memory, s)
    /\ \A s \in Setting : s = LongDistance \/ s = Profile \/ s \in Located
  <1>1. LongDistance # Profile  BY DEF LongDistance, Profile, Single
  <1>2. \A s \in Setting : s = LongDistance \/ s = Profile \/ s \in Located
    BY InMemoryIsLocated DEF InMemory
  <1> QED  BY <1>1, <1>2, LocatedNames DEF Seen

\* The getters return it.
LEMMA GotSeen ==
    ASSUME NEW dev, AcceptableIn(dev.memory), NEW s \in Setting
    PROVE  Got(dev, get_config(dev), s) = Seen(dev, s)
  <1> DEFINE mem == dev.memory
             config == get_config(dev)
  <1>1. CASE s[1] \notin Spread
    <2>1. s \in Whole  BY <1>1 DEF Whole
    <2>2. Seen(dev, s) = Value(dev, s)  BY <1>1 DEF Seen, Value, MemorySeen
    <2> QED  BY <2>1, <2>2, GotIs
  <1>2. CASE s[1] \in Spread
    <2>1. s # LongDistance /\ s # Profile
      BY <1>2 DEF LongDistance, Profile, Single, Spread
    <2>2. Seen(dev, s) = SpreadValue(mem, s)  BY <1>2, <2>1 DEF Seen, MemorySeen
    <2>3. config["performance_time"] = get_performance_time(mem)  BY ConfigRead
    <2> HIDE DEF mem, config
    <2>4. CASE s[1] = "light"
      BY <2>2, <2>4 DEF SpreadValue, Got, mem, config
    <2>5. CASE s[1] = "dpi_effect"
      BY <2>2, <2>5 DEF SpreadValue, Got, mem, config
    <2>6. CASE s[1] = "shortcut"
      BY <2>2, <2>6 DEF SpreadValue, Got, mem, config
    <2>7. CASE s[1] = "macro"
      BY <2>2, <2>7 DEF SpreadValue, Got, mem, config
    <2>8. CASE s[1] = "performance_time"
      <3>1. Got(dev, config, s) = config["performance_time"]  BY <2>8 DEF Got
      <3>2. SpreadValue(mem, s) = get_performance_time(mem)  BY <2>8 DEF SpreadValue
      <3> QED  BY <2>2, <2>3, <3>1, <3>2 DEF config
    <2> QED  BY <1>2, <2>4, <2>5, <2>6, <2>7, <2>8 DEF Spread
  <1> QED  BY <1>1, <1>2

-----------------------------------------------------------------------------
(* Scripts that make some settings what is wanted, may upset others, and touch no other one. *)

Reaches(dev, goal, X, L, want) ==
    \A s \in Setting : /\ s \in X => Seen(goal, s) = want[s]
                       /\ s \notin X \cup L => Seen(goal, s) = Seen(dev, s)

Makes(script, X, L, want) ==
    /\ IsScript(script)
    /\ RejectStep \notin Packets(script) =>
         \A dev : IsDevice(dev) =>
           \E goal : IsDevice(goal) /\ Leads(script, dev, goal) /\ Reaches(dev, goal, X, L, want)

LEMMA ThenMakes ==
    ASSUME NEW s, NEW t, NEW X, NEW L, NEW Y, NEW M, NEW N, NEW want,
           Makes(s, X, L, want), Makes(t, Y, M, want), X \cap M = {}, (L \ Y) \cup M \subseteq N
    PROVE  Makes(s \o t, X \cup Y, N, want)
  <1>1. IsScript(s) /\ IsScript(t)  BY DEF Makes
  <1>2. IsScript(s \o t) /\ Packets(s \o t) = Packets(s) \cup Packets(t)  BY <1>1, Sequel
  <1>3. ASSUME RejectStep \notin Packets(s \o t), NEW dev, IsDevice(dev)
        PROVE  \E goal : /\ IsDevice(goal) /\ Leads(s \o t, dev, goal)
                         /\ Reaches(dev, goal, X \cup Y, N, want)
    <2>1. PICK mid : IsDevice(mid) /\ Leads(s, dev, mid) /\ Reaches(dev, mid, X, L, want)
      BY <1>2, <1>3 DEF Makes
    <2>2. PICK goal : IsDevice(goal) /\ Leads(t, mid, goal) /\ Reaches(mid, goal, Y, M, want)
      BY <1>2, <1>3, <2>1 DEF Makes
    <2>3. Leads(s \o t, dev, goal)  BY <1>1, <2>1, <2>2, LeadsOn
    <2>4. Reaches(dev, goal, X \cup Y, N, want)
      <3> SUFFICES ASSUME NEW x \in Setting
                   PROVE  /\ x \in X \cup Y => Seen(goal, x) = want[x]
                          /\ x \notin (X \cup Y) \cup N => Seen(goal, x) = Seen(dev, x)
        BY DEF Reaches
      <3>1. /\ x \in X => Seen(mid, x) = want[x]
            /\ x \notin X \cup L => Seen(mid, x) = Seen(dev, x)
        BY <2>1 DEF Reaches
      <3>2. /\ x \in Y => Seen(goal, x) = want[x]
            /\ x \notin Y \cup M => Seen(goal, x) = Seen(mid, x)
        BY <2>2 DEF Reaches
      <3>3. /\ x \in X => x \notin M
            /\ (x \in L /\ x \notin Y) => x \in N
            /\ x \in M => x \in N
        OBVIOUS
      <3> QED  BY <3>1, <3>2, <3>3
    <2> QED  BY <2>2, <2>3, <2>4
  <1> QED  BY <1>2, <1>3 DEF Makes

\* In the simplest case nothing is upset.
LEMMA AlsoMakes ==
    ASSUME NEW s, NEW t, NEW X, NEW Y, NEW want, Makes(s, X, {}, want), Makes(t, Y, {}, want)
    PROVE  Makes(s \o t, X \cup Y, {}, want)
  BY ThenMakes

LEMMA NothingMakes == \A want : Makes(<< >>, {}, {}, want)
  <1>1. \A dev, want : Reaches(dev, dev, {}, {}, want)  BY DEF Reaches
  <1> QED  BY <1>1, NoPacket, LeadsNowhere DEF Makes

LEMMA RejectMakes == \A X, L, want : Makes(Reject, X, L, want)
  <1>1. IsScript(Reject) /\ RejectStep \in Packets(Reject)  BY PrimitivePackets
  <1> QED  BY <1>1 DEF Makes

LEMMA UnlessMakes ==
    ASSUME NEW wrong, NEW script, NEW X, NEW L, NEW want, ~wrong => Makes(script, X, L, want)
    PROVE  Makes(Unless(wrong, script), X, L, want)
  BY RejectMakes DEF Unless

\* A write within the bytes of a setting.
InArea(address, data, t) ==
    /\ address \in Nat /\ Len(data) \in Nat
    /\ Base(t) <= address /\ address + Len(data) <= Base(t) + Size(t)

Stored(dev, address, data) == [dev EXCEPT !.memory = Overlay(@, address, data)]

LEMMA StoredIs ==
    ASSUME NEW dev, IsDevice(dev), NEW address, NEW data
    PROVE  /\ IsDevice(Stored(dev, address, data))
           /\ Stored(dev, address, data).memory = Overlay(dev.memory, address, data)
           /\ Stored(dev, address, data).long_distance = dev.long_distance
           /\ Stored(dev, address, data).profile = dev.profile
           /\ \A check : After(dev, Step("store", check, address, data))
                           = Stored(dev, address, data)
  <1>1. "memory" \in DOMAIN dev  BY DEF IsDevice
  <1>2. /\ DOMAIN Stored(dev, address, data) = DOMAIN dev
        /\ Stored(dev, address, data).memory = Overlay(dev.memory, address, data)
        /\ Stored(dev, address, data).long_distance = dev.long_distance
        /\ Stored(dev, address, data).profile = dev.profile
    BY <1>1 DEF Stored, IsDevice
  <1>3. \A check : After(dev, Step("store", check, address, data)) = Stored(dev, address, data)
    BY DEF After, Step, Stored
  <1> QED  BY <1>2, <1>3 DEF IsDevice

LEMMA StoredApart ==
    ASSUME NEW dev, IsDevice(dev), NEW address, NEW data, NEW t \in Located,
           InArea(address, data, t), NEW s \in Setting, s # t
    PROVE  Seen(Stored(dev, address, data), s) = Seen(dev, s)
  <1> DEFINE goal == Stored(dev, address, data)
  <1>1. /\ goal.memory = Overlay(dev.memory, address, data)
        /\ goal.long_distance = dev.long_distance /\ goal.profile = dev.profile
    BY StoredIs
  <1> HIDE DEF goal
  <1>2. CASE s = LongDistance \/ s = Profile  BY <1>1, <1>2, SeenIs DEF goal
  <1>3. CASE s \in Located
    <2>1. Base(s) \in Nat /\ Size(s) \in Nat /\ Base(t) \in Nat /\ Size(t) \in Nat
      BY <1>3, AreaIs
    <2>2. Base(s) + Size(s) <= Base(t) \/ Base(t) + Size(t) <= Base(s)
      BY <1>3, AreasApart
    <2>3. Clear(Base(s), Base(s) + Size(s), address, Len(data))
      BY <2>1, <2>2 DEF Clear, InArea
    <2>4. address \in Nat /\ Len(data) \in Nat  BY DEF InArea
    <2>5. MemorySeen(Overlay(dev.memory, address, data), s) = MemorySeen(dev.memory, s)
      BY <1>3, <2>3, <2>4, WriteElsewhere
    <2> QED  BY <1>1, <1>3, <2>5, SeenIs DEF goal
  <1> QED  BY <1>2, <1>3, SeenIs

LEMMA StoreMakes ==
    ASSUME NEW check, NEW address, NEW data, NEW t \in Located, InArea(address, data, t), NEW want
    PROVE  LET script == <<Step("store", check, address, data)>> IN
           /\ Makes(script, {}, {t}, want)
           /\ (\A mem : MemorySeen(Overlay(mem, address, data), t) = want[t])
                => Makes(script, {t}, {}, want)
  <1> DEFINE step == Step("store", check, address, data)
  <1>1. IsScript(<<step>>)  BY OnePacket
  <1>2. ASSUME NEW dev, IsDevice(dev)
        PROVE  LET goal == Stored(dev, address, data) IN
               /\ IsDevice(goal) /\ Leads(<<step>>, dev, goal)
               /\ \A s \in Setting : s # t => Seen(goal, s) = Seen(dev, s)
               /\ Seen(goal, t) = MemorySeen(Overlay(dev.memory, address, data), t)
    <2> DEFINE goal == Stored(dev, address, data)
    <2>1. /\ IsDevice(goal) /\ After(dev, step) = goal
          /\ goal.memory = Overlay(dev.memory, address, data)
      BY <1>2, StoredIs
    <2>2. \A s \in Setting : s # t => Seen(goal, s) = Seen(dev, s)  BY <1>2, StoredApart
    <2> HIDE DEF goal, step
    <2>3. Leads(<<step>>, dev, goal)  BY <2>1, LeadsOne
    <2>4. Seen(goal, t) = MemorySeen(Overlay(dev.memory, address, data), t)  BY <2>1, SeenIs
    <2> QED  BY <2>1, <2>2, <2>3, <2>4 DEF goal
  <1> HIDE DEF step
  <1>3. Makes(<<step>>, {}, {t}, want)
    <2>1. ASSUME NEW dev, IsDevice(dev)
          PROVE  \E goal : /\ IsDevice(goal) /\ Leads(<<step>>, dev, goal)
                           /\ Reaches(dev, goal, {}, {t}, want)
      BY <1>2, <2>1 DEF Reaches
    <2> QED  BY <1>1, <2>1 DEF Makes
  <1>4. ASSUME \A mem : MemorySeen(Overlay(mem, address, data), t) = want[t]
        PROVE  Makes(<<step>>, {t}, {}, want)
    <2>1. ASSUME NEW dev, IsDevice(dev)
          PROVE  \E goal : /\ IsDevice(goal) /\ Leads(<<step>>, dev, goal)
                           /\ Reaches(dev, goal, {t}, {}, want)
      BY <1>2, <1>4, <2>1 DEF Reaches
    <2> QED  BY <1>1, <2>1 DEF Makes
  <1> QED  BY <1>3, <1>4 DEF step

\* The two bytes of a write: the value and its complement.
LEMMA PairIs == \A value : LET data == <<value, calculate_data_checksum(value)>> IN
                             Len(data) = 2 /\ data[1] = value
  OBVIOUS

LEMMA ByteMakes ==
    ASSUME NEW name \in ByteSettings, NEW value, NEW want, want[<<name, 0>>] = ByteValue(name, value)
    PROVE  Makes(write_memory(Offsets[name], value), {<<name, 0>>}, {}, want)
  <1> DEFINE t == <<name, 0>>
             o == Offsets[name]
             data == <<value, calculate_data_checksum(value)>>
  <1>1. t \in Located /\ Base(t) = o /\ Size(t) = 2 /\ o \in Nat
    BY LocatedAre, BasesAre, Places
  <1>2. Len(data) = 2 /\ data[1] = value  BY PairIs
  <1>3. write_memory(o, value) = <<Step("store", "status", o, data)>>  BY DEF write_memory
  <1>4. \A mem : MemorySeen(mem, t) = ByteValue(name, At(mem, o))  BY MemorySeenIs
  <1>5. want[t] = ByteValue(name, value)  OBVIOUS
  <1> HIDE DEF t, o, data
  <1>6. InArea(o, data, t)  BY <1>1, <1>2 DEF InArea
  <1>7. ASSUME NEW mem PROVE MemorySeen(Overlay(mem, o, data), t) = want[t]
    <2>1. o >= o /\ o < o + Len(data) /\ o - o + 1 = 1 /\ Len(data) \in Nat  BY <1>1, <1>2
    <2>2. At(Overlay(mem, o, data), o) = data[o - o + 1]  BY <1>1, <2>1, AtWritten
    <2> QED  BY <1>2, <1>4, <1>5, <2>1, <2>2
  <1>8. Makes(write_memory(o, value), {t}, {}, want)  BY <1>1, <1>3, <1>6, <1>7, StoreMakes
  <1> QED  BY <1>8 DEF t, o

\* The register of the performance time.
LEMMA RegisterMakes ==
    ASSUME NEW value, NEW want
    PROVE  LET t == <<"performance_time", 0>>
               script == write_memory(OFFSET_PERFORMANCE_TIME, value) IN
           /\ Makes(script, {}, {t}, want)
           /\ want[t] = OrElse(FromCode(SleepTimeCode, value), 10) => Makes(script, {t}, {}, want)
  <1> DEFINE t == <<"performance_time", 0>>
             data == <<value, calculate_data_checksum(value)>>
  <1>1. t \in Located /\ Base(t) = 183 /\ Size(t) = 2
    <2>1. "performance_time" \in Wide /\ 0 \in 0..7  BY WideAre
    <2>2. t \in Located  BY <2>1, LocatedAre
    <2>3. Base(t) = Firsts["performance_time"] + Sizes["performance_time"] * 0
      BY <2>1, BasesAre
    <2>4. Size(t) = Sizes["performance_time"]  BY <2>1, BasesAre
    <2>5. Firsts["performance_time"] = 183 /\ Sizes["performance_time"] = 2  BY WideAre
    <2> HIDE DEF t
    <2> QED  BY <2>2, <2>3, <2>4, <2>5
  <1>2. Len(data) = 2 /\ data[1] = value  BY PairIs
  <1>3. write_memory(OFFSET_PERFORMANCE_TIME, value) = <<Step("store", "status", 183, data)>>
    BY DEF write_memory, OFFSET_PERFORMANCE_TIME
  <1>4. \A mem : MemorySeen(mem, t) = get_performance_time(mem)  BY MemorySeenIs
  <1> HIDE DEF t, data
  <1>6. InArea(183, data, t)  BY <1>1, <1>2 DEF InArea
  <1>7. ASSUME NEW mem
        PROVE  MemorySeen(Overlay(mem, 183, data), t) = OrElse(FromCode(SleepTimeCode, value), 10)
    <2>1. At(Overlay(mem, 183, data), 183) = data[183 - 183 + 1]  BY <1>2, AtWritten
    <2>2. At(Overlay(mem, 183, data), 183) = value  BY <1>2, <2>1
    <2> QED  BY <1>4, <2>2 DEF get_performance_time, OFFSET_PERFORMANCE_TIME
  <1>8. /\ Makes(write_memory(OFFSET_PERFORMANCE_TIME, value), {}, {t}, want)
        /\ want[t] = OrElse(FromCode(SleepTimeCode, value), 10)
             => Makes(write_memory(OFFSET_PERFORMANCE_TIME, value), {t}, {}, want)
    BY <1>1, <1>3, <1>6, <1>7, StoreMakes
  <1> QED  BY <1>8 DEF t

LEMMA FourMakes ==
    ASSUME NEW name \in FourSettings, NEW k \in 0..7, NEW data, Len(data) = 4,
           data = [i \in 1..4 |-> data[i]], NEW want, want[<<name, k>>] = FourValue(name, data)
    PROVE  Makes(WriteFlash(FourOffset(name, k), data), {<<name, k>>}, {}, want)
  <1> DEFINE t == <<name, k>>
             o == FourOffset(name, k)
  <1>1. t \in Located /\ Base(t) = o /\ Size(t) = 4 /\ o \in Nat
    <2>1. name \in Wide /\ name \notin Lone  BY WideAre DEF FourSettings, Lone
    <2>2. Base(t) = Firsts[name] + Sizes[name] * k /\ Size(t) = Sizes[name]  BY <2>1, BasesAre
    <2>3. Sizes[name] = 4 /\ Firsts[name] + 4 * k = o
      BY WideAre DEF FourSettings, FourOffset
    <2>4. o \in Nat  BY Places
    <2> QED  BY <2>1, <2>2, <2>3, <2>4, LocatedAre
  <1>2. WriteFlash(o, data) = <<Step("store", "echo", o, data)>>  BY DEF WriteFlash
  <1>3. \A mem : MemorySeen(mem, t) = FourValue(name, read_memory(mem, o, 4))  BY MemorySeenIs
  <1>4. want[t] = FourValue(name, data)  OBVIOUS
  <1> HIDE DEF t, o
  <1>5. InArea(o, data, t)  BY <1>1 DEF InArea
  <1>6. ASSUME NEW mem PROVE MemorySeen(Overlay(mem, o, data), t) = want[t]
    <2>1. Found(Overlay(mem, o, data), o, data)  BY <1>1, WrittenIsFound
    <2>2. read_memory(Overlay(mem, o, data), o, 4) = [i \in 1..4 |-> data[i]]
      BY <2>1 DEF Found, read_memory
    <2> QED  BY <1>3, <1>4, <2>2
  <1>7. Makes(<<Step("store", "echo", o, data)>>, {t}, {}, want)
    BY <1>1, <1>5, <1>6, StoreMakes
  <1>8. Makes(WriteFlash(o, data), {t}, {}, want)  BY <1>2, <1>7
  <1> QED  BY <1>8 DEF t, o

LEMMA FourStepMakes ==
    ASSUME NEW name \in FourSettings, NEW k \in 0..7, NEW value, NEW step,
           FourStep(step, name, k, value), NEW want, want[<<name, k>>] = value
    PROVE  Makes(<<step>>, {<<name, k>>}, {}, want)
  <1>1. CASE step = RejectStep
    <2>1. <<step>> = Reject  BY <1>1 DEF Reject, RejectStep
    <2> QED  BY <2>1, RejectMakes
  <1>2. ASSUME NEW data, step = FlashStep(FourOffset(name, k), data), Len(data) = 4,
               data = [i \in 1..4 |-> data[i]], FourValue(name, data) = value
        PROVE  Makes(<<step>>, {<<name, k>>}, {}, want)
    <2>1. <<step>> = WriteFlash(FourOffset(name, k), data)  BY <1>2 DEF WriteFlash, FlashStep
    <2> QED  BY <1>2, <2>1, FourMakes
  <1> QED  BY <1>1, <1>2 DEF FourStep

\* Commands that change what is not in the memory.
LEMMA CommandMakes ==
    ASSUME NEW op, NEW payload, NEW t, NEW want,
           \/ op = "range" /\ t = LongDistance /\ want[t] = (payload = 1)
           \/ op = "profile" /\ t = Profile /\ want[t] = payload
    PROVE  Makes(SimpleCommand(op, payload), {t}, {}, want)
  <1> DEFINE step == CommandStep(op, payload)
  <1>1. SimpleCommand(op, payload) = <<step>>  BY DEF SimpleCommand, CommandStep
  <1>2. IsScript(<<step>>)  BY OnePacket
  <1>3. step.op = op /\ step.data[1] = payload  BY DEF CommandStep, Step
  <1> HIDE DEF step
  <1>4. ASSUME NEW dev, IsDevice(dev)
        PROVE  \E goal : /\ IsDevice(goal) /\ Leads(<<step>>, dev, goal)
                         /\ Reaches(dev, goal, {t}, {}, want)
    <2> DEFINE goal == After(dev, step)
    <2>1. /\ DOMAIN goal = DOMAIN dev /\ goal.memory = dev.memory
          /\ t = LongDistance => goal.profile = dev.profile /\ goal.long_distance = want[t]
          /\ t = Profile => goal.long_distance = dev.long_distance /\ goal.profile = want[t]
      <3>1. LongDistance # Profile  BY DEF LongDistance, Profile, Single
      <3>2. CASE op = "range"
        <4>1. goal = [dev EXCEPT !.long_distance = (payload = 1)]  BY <1>3, <3>2 DEF After
        <4>2. t = LongDistance /\ want[t] = (payload = 1)  BY <3>2
        <4> HIDE DEF goal
        <4> QED  BY <1>4, <3>1, <4>1, <4>2 DEF IsDevice
      <3>3. CASE op = "profile"
        <4>1. goal = [dev EXCEPT !.profile = payload]  BY <1>3, <3>3 DEF After
        <4>2. t = Profile /\ want[t] = payload  BY <3>3
        <4> HIDE DEF goal
        <4> QED  BY <1>4, <3>1, <4>1, <4>2 DEF IsDevice
      <3> QED  BY <3>2, <3>3
    <2>2. Leads(<<step>>, dev, goal)  BY LeadsOne
    <2> HIDE DEF goal
    <2>3. \A s \in Located : Seen(goal, s) = Seen(dev, s)  BY <2>1, SeenIs
    <2>4. t \in {LongDistance, Profile}  OBVIOUS
    <2>5. /\ Seen(goal, t) = want[t]
          /\ \A s \in {LongDistance, Profile} : s # t => Seen(goal, s) = Seen(dev, s)
      BY <2>1, <2>4, SeenIs
    <2>6. Reaches(dev, goal, {t}, {}, want)  BY <2>3, <2>5, SeenIs DEF Reaches
    <2>7. IsDevice(goal)  BY <1>4, <2>1 DEF IsDevice
    <2> QED  BY <2>2, <2>6, <2>7
  <1> QED  BY <1>1, <1>2, <1>4 DEF Makes

LEMMA ResetMakes ==
    ASSUME NEW X, X = Setting \ {LongDistance, Profile}, NEW want,
           \A s \in X : want[s] = MemorySeen(Factory, s)
    PROVE  Makes(factory_reset, X, {}, want)
  <1> DEFINE step == CommandStep("reset", 0)
  <1>1. factory_reset = <<step>>  BY DEF factory_reset, SimpleCommand, CommandStep
  <1>2. IsScript(<<step>>)  BY OnePacket
  <1>3. step.op = "reset"  BY DEF CommandStep, Step
  <1> HIDE DEF step
  <1>4. ASSUME NEW dev, IsDevice(dev)
        PROVE  \E goal : /\ IsDevice(goal) /\ Leads(<<step>>, dev, goal)
                         /\ Reaches(dev, goal, X, {}, want)
    <2> DEFINE goal == [dev EXCEPT !.memory = Factory]
    <2>1. After(dev, step) = goal  BY <1>3 DEF After
    <2>2. /\ DOMAIN goal = DOMAIN dev /\ goal.memory = Factory
          /\ goal.long_distance = dev.long_distance /\ goal.profile = dev.profile
      BY <1>4 DEF IsDevice
    <2> HIDE DEF goal
    <2>3. Leads(<<step>>, dev, goal)  BY <2>1, LeadsOne
    <2>4. \A s \in Located : Seen(goal, s) = MemorySeen(Factory, s)  BY <2>2, SeenIs
    <2>5. \A s \in {LongDistance, Profile} : Seen(goal, s) = Seen(dev, s)  BY <2>2, SeenIs
    <2>6. X \subseteq Located  BY SeenIs
    <2>7. Reaches(dev, goal, X, {}, want)  BY <2>4, <2>5, <2>6, SeenIs DEF Reaches
    <2>8. IsDevice(goal)  BY <1>4, <2>2 DEF IsDevice
    <2> QED  BY <2>3, <2>7, <2>8
  <1> QED  BY <1>1, <1>2, <1>4 DEF Makes

LEMMA SettersMake ==
    ASSUME NEW want
    PROVE  /\ \A hz \in PollingRate : want[<<"polling_rate", 0>>] = hz
                => Makes(set_polling_rate(hz), {<<"polling_rate", 0>>}, {}, want)
           /\ \A d \in LiftOffDistance : want[<<"lift_off_distance", 0>>] = d
                => Makes(set_lift_off_distance(d), {<<"lift_off_distance", 0>>}, {}, want)
           /\ \A on \in BOOLEAN : want[LongDistance] = on
                => Makes(set_long_distance_mode(on), {LongDistance}, {}, want)
           /\ \A t : want[<<"moving_off_light_time", 0>>] = t
                => Makes(set_moving_off_light_time(t), {<<"moving_off_light_time", 0>>}, {}, want)
           /\ \A s \in SleepTime : want[<<"performance_time", 0>>] = s
                => Makes(set_performance_time(s), {<<"performance_time", 0>>}, {}, want)
           /\ \A m \in SensorMode : want[<<"sensor_mode", 0>>] = m
                => Makes(set_sensor_mode(m), {<<"sensor_mode", 0>>}, {}, want)
           /\ \A p : want[Profile] = p => Makes(set_current_profile(p), {Profile}, {}, want)
           /\ \A ms : want[<<"debounce_time", 0>>] = ms
                => Makes(set_debounce_time(ms), {<<"debounce_time", 0>>}, {}, want)
           /\ \A n : want[<<"dpi_count", 0>>] = n
                => Makes(set_dpi_count(n), {<<"dpi_count", 0>>}, {}, want)
           /\ \A n : want[<<"current_dpi_index", 0>>] = n
                => Makes(set_current_dpi_index(n), {<<"current_dpi_index", 0>>}, {}, want)
           /\ \A name \in FlagSettings, on \in BOOLEAN : want[<<name, 0>>] = on
                => Makes(set_bool(Offsets[name], on), {<<name, 0>>}, {}, want)
  <1> DEFINE One(name, value) ==
               name \in ByteSettings /\ want[<<name, 0>>] = ByteValue(name, value)
                 => Makes(write_memory(Offsets[name], value), {<<name, 0>>}, {}, want)
  <1>0. \A name, value : One(name, value)  BY ByteMakes
  <1> HIDE DEF One
  <1>1. ASSUME NEW hz \in PollingRate, want[<<"polling_rate", 0>>] = hz
        PROVE  Makes(set_polling_rate(hz), {<<"polling_rate", 0>>}, {}, want)
    <2>1. One("polling_rate", PollingRateCode[hz])  BY <1>0
    <2> QED  BY <1>1, <2>1, CodesRead, OffsetsAre DEF One, set_polling_rate, OFFSET_REPORT_RATE
  <1>2. ASSUME NEW d \in LiftOffDistance, want[<<"lift_off_distance", 0>>] = d
        PROVE  Makes(set_lift_off_distance(d), {<<"lift_off_distance", 0>>}, {}, want)
    <2>1. One("lift_off_distance", LiftOffCode[d])  BY <1>0
    <2> QED  BY <1>2, <2>1, CodesRead, OffsetsAre
             DEF One, set_lift_off_distance, OFFSET_LIFT_OFF_DISTANCE
  <1>3. ASSUME NEW on \in BOOLEAN, want[LongDistance] = on
        PROVE  Makes(set_long_distance_mode(on), {LongDistance}, {}, want)
    <2>1. want[LongDistance] = (Flag(on) = 1)  BY <1>3, Flags
    <2> QED  BY <2>1, CommandMakes DEF set_long_distance_mode
  <1>4. ASSUME NEW t, want[<<"moving_off_light_time", 0>>] = t
        PROVE  Makes(set_moving_off_light_time(t), {<<"moving_off_light_time", 0>>}, {}, want)
    <2>1. One("moving_off_light_time", t)  BY <1>0
    <2> QED  BY <1>4, <2>1, CodesRead, OffsetsAre
             DEF One, set_moving_off_light_time, OFFSET_MOVING_OFF_LIGHT
  <1>5. ASSUME NEW s \in SleepTime, want[<<"performance_time", 0>>] = s
        PROVE  Makes(set_performance_time(s), {<<"performance_time", 0>>}, {}, want)
    <2>1. FromCode(SleepTimeCode, SleepTimeCode[s]) = s  BY SleepTimeReadsBack
    <2>2. s # Invalid  BY InvalidAssumption DEF SleepTime, SleepTimeCode
    <2>3. want[<<"performance_time", 0>>] = OrElse(FromCode(SleepTimeCode, SleepTimeCode[s]), 10)
      BY <1>5, <2>1, <2>2 DEF OrElse
    <2> QED  BY <2>3, RegisterMakes DEF set_performance_time
  <1>6. ASSUME NEW m \in SensorMode, want[<<"sensor_mode", 0>>] = m
        PROVE  Makes(set_sensor_mode(m), {<<"sensor_mode", 0>>}, {}, want)
    <2>1. One("sensor_mode", m)  BY <1>0
    <2> QED  BY <1>6, <2>1, CodesRead, OffsetsAre DEF One, set_sensor_mode, OFFSET_SENSOR_MODE
  <1>7. ASSUME NEW p, want[Profile] = p PROVE Makes(set_current_profile(p), {Profile}, {}, want)
    <2>1. Makes(SimpleCommand("profile", p), {Profile}, {}, want)  BY <1>7, CommandMakes
    <2> QED  BY <2>1, UnlessMakes DEF set_current_profile
  <1>8. ASSUME NEW ms, want[<<"debounce_time", 0>>] = ms
        PROVE  Makes(set_debounce_time(ms), {<<"debounce_time", 0>>}, {}, want)
    <2>1. One("debounce_time", ms)  BY <1>0
    <2>2. Makes(write_memory(OFFSET_DEBOUNCE_TIME, ms), {<<"debounce_time", 0>>}, {}, want)
      BY <1>8, <2>1, CodesRead, OffsetsAre DEF One, OFFSET_DEBOUNCE_TIME
    <2> QED  BY <2>2, UnlessMakes DEF set_debounce_time
  <1>9. ASSUME NEW n, want[<<"dpi_count", 0>>] = n
        PROVE  Makes(set_dpi_count(n), {<<"dpi_count", 0>>}, {}, want)
    <2>1. One("dpi_count", n)  BY <1>0
    <2>2. Makes(write_memory(OFFSET_MAX_DPI, n), {<<"dpi_count", 0>>}, {}, want)
      BY <1>9, <2>1, CodesRead, OffsetsAre DEF One, OFFSET_MAX_DPI
    <2> QED  BY <2>2, UnlessMakes DEF set_dpi_count
  <1>10. ASSUME NEW n, want[<<"current_dpi_index", 0>>] = n
         PROVE  Makes(set_current_dpi_index(n), {<<"current_dpi_index", 0>>}, {}, want)
    <2>1. One("current_dpi_index", n)  BY <1>0
    <2>2. Makes(write_memory(OFFSET_CURRENT_DPI, n), {<<"current_dpi_index", 0>>}, {}, want)
      BY <1>10, <2>1, CodesRead, OffsetsAre DEF One, OFFSET_CURRENT_DPI
    <2> QED  BY <2>2, UnlessMakes DEF set_current_dpi_index
  <1>11. ASSUME NEW name \in FlagSettings, NEW on \in BOOLEAN, want[<<name, 0>>] = on
         PROVE  Makes(set_bool(Offsets[name], on), {<<name, 0>>}, {}, want)
    <2>1. One(name, Flag(on))  BY <1>0
    <2>2. name \in ByteSettings /\ ByteValue(name, Flag(on)) = on  BY Flags
    <2> QED  BY <1>11, <2>1, <2>2 DEF One, set_bool
  <1> QED  BY <1>1, <1>2, <1>3, <1>4, <1>5, <1>6, <1>7, <1>8, <1>9, <1>10, <1>11

\* The timeout upsets the performance time.
LEMMA TimeoutMakes ==
    ASSUME NEW seconds \in Nat, NEW want,
           want[<<"sleep_timeout_seconds", 0>>] = TensOf(seconds)
    PROVE  LET p == <<"performance_time", 0>>
               s == <<"sleep_timeout_seconds", 0>> IN
           /\ Makes(set_sleep_timeout(seconds), {s}, {p}, want)
           /\ want[p] = OrElse(FromCode(SleepTimeCode, seconds \div 10), 10)
                => Makes(set_sleep_timeout(seconds), {s, p}, {}, want)
  <1> DEFINE p == <<"performance_time", 0>>
             s == <<"sleep_timeout_seconds", 0>>
             first == write_memory(OFFSET_SLEEP_TIMEOUT_SECONDARY, seconds \div 10)
             second == write_memory(OFFSET_SLEEP_TIMEOUT, seconds \div 10)
  <1>0. p # s /\ OFFSET_SLEEP_TIMEOUT_SECONDARY = OFFSET_PERFORMANCE_TIME
    BY DEF OFFSET_SLEEP_TIMEOUT_SECONDARY
  <1>1. /\ Makes(first, {}, {p}, want)
        /\ want[p] = OrElse(FromCode(SleepTimeCode, seconds \div 10), 10)
             => Makes(first, {p}, {}, want)
    BY <1>0, RegisterMakes
  <1>2. Makes(second, {s}, {}, want)
    <2>1. want[s] = ByteValue("sleep_timeout_seconds", seconds \div 10)  BY CodesRead
    <2> QED  BY <2>1, ByteMakes, CodesRead, OffsetsAre DEF OFFSET_SLEEP_TIMEOUT
  <1>3. set_sleep_timeout(seconds) = Unless(seconds > MAX_SLEEP_TIMEOUT_SECONDS, first \o second)
    BY DEF set_sleep_timeout
  <1> HIDE DEF p, s, first, second
  <1>4. Makes(first \o second, {} \cup {s}, {p}, want)  BY <1>1, <1>2, ThenMakes
  <1>5. {} \cup {s} = {s}  OBVIOUS
  <1>6. Makes(set_sleep_timeout(seconds), {s}, {p}, want)  BY <1>3, <1>4, <1>5, UnlessMakes
  <1>7. ASSUME want[p] = OrElse(FromCode(SleepTimeCode, seconds \div 10), 10)
        PROVE  Makes(set_sleep_timeout(seconds), {s, p}, {}, want)
    <2>1. Makes(first \o second, {p} \cup {s}, {}, want)  BY <1>1, <1>2, <1>7, AlsoMakes
    <2>2. {p} \cup {s} = {s, p}  OBVIOUS
    <2> QED  BY <1>3, <2>1, <2>2, UnlessMakes
  <1> QED  BY <1>6, <1>7 DEF p, s

-----------------------------------------------------------------------------
(* Settings written piece by piece. *)

\* A script that leads to a device that differs in one setting only.
Piece(script, dev, goal, t) ==
    /\ IsScript(script) /\ IsDevice(goal) /\ Leads(script, dev, goal)
    /\ \A s \in Setting : s # t => Seen(goal, s) = Seen(dev, s)

LEMMA FirstPiece ==
    ASSUME NEW dev, IsDevice(dev), NEW check, NEW address, NEW data, NEW t \in Located,
           InArea(address, data, t)
    PROVE  Piece(<<Step("store", check, address, data)>>, dev, Stored(dev, address, data), t)
  <1> DEFINE step == Step("store", check, address, data)
             goal == Stored(dev, address, data)
  <1>1. IsDevice(goal) /\ After(dev, step) = goal  BY StoredIs
  <1>2. \A s \in Setting : s # t => Seen(goal, s) = Seen(dev, s)  BY StoredApart
  <1>3. IsScript(<<step>>)  BY OnePacket
  <1> HIDE DEF step, goal
  <1>4. Piece(<<step>>, dev, goal, t)  BY <1>1, <1>2, <1>3, LeadsOne DEF Piece
  <1> QED  BY <1>4 DEF step, goal

LEMMA NextPiece ==
    ASSUME NEW script, NEW dev, NEW mid, NEW t \in Located, Piece(script, dev, mid, t),
           NEW check, NEW address, NEW data, InArea(address, data, t)
    PROVE  Piece(script \o <<Step("store", check, address, data)>>, dev,
                 Stored(mid, address, data), t)
  <1> DEFINE more == <<Step("store", check, address, data)>>
             goal == Stored(mid, address, data)
  <1>1. IsDevice(mid)  BY DEF Piece
  <1>2. Piece(more, mid, goal, t)  BY <1>1, FirstPiece
  <1> HIDE DEF more, goal
  <1>3. IsScript(script \o more) /\ Leads(script \o more, dev, goal)
    BY <1>2, Sequel, LeadsOn DEF Piece
  <1>4. Piece(script \o more, dev, goal, t)  BY <1>2, <1>3 DEF Piece
  <1> QED  BY <1>4 DEF more, goal

LEMMA PiecesMake ==
    ASSUME NEW script, NEW t \in Located, NEW want, IsScript(script),
           \A dev : IsDevice(dev) =>
             \E goal : Piece(script, dev, goal, t) /\ MemorySeen(goal.memory, t) = want[t]
    PROVE  Makes(script, {t}, {}, want)
  <1>1. ASSUME NEW dev, IsDevice(dev)
        PROVE  \E goal : /\ IsDevice(goal) /\ Leads(script, dev, goal)
                         /\ Reaches(dev, goal, {t}, {}, want)
    <2>1. PICK goal : Piece(script, dev, goal, t) /\ MemorySeen(goal.memory, t) = want[t]
      BY <1>1
    <2>2. Seen(goal, t) = want[t]  BY <2>1, SeenIs
    <2>3. Reaches(dev, goal, {t}, {}, want)  BY <2>1, <2>2 DEF Piece, Reaches
    <2> QED  BY <2>1, <2>3 DEF Piece
  <1> QED  BY <1>1 DEF Makes

\* The bytes of the light.
LEMMA LightBytes ==
    ASSUME NEW light \in [mode : LightMode, color : Color, speed : Byte, brightness : Byte,
                          enabled : BOOLEAN],
           NEW data, data = <<light.mode>> \o light.color \o <<light.speed, light.brightness, 0>>
    PROVE  /\ data \in Seq(Byte) /\ Len(data) = 7
           /\ data[1] = light.mode /\ SubSeq(data, 2, 4) = light.color
           /\ data[5] = light.speed /\ data[6] = light.brightness
  <1> DEFINE a == <<light.mode>>
             b == light.color
             c == <<light.speed, light.brightness, 0>>
             ab == a \o b
  <1>1. light.mode \in Byte /\ light.speed \in Byte /\ light.brightness \in Byte /\ 0 \in Byte
        /\ light.color \in Color
    <2>1. \A m \in LightMode : m \in Int /\ 0 <= m /\ m <= 255  BY DEF LightMode
    <2>2. light.mode \in LightMode  OBVIOUS
    <2>3. light.mode \in Byte /\ 0 \in Byte  BY <2>1, <2>2, ByteIs
    <2>4. light.speed \in Byte /\ light.brightness \in Byte /\ light.color \in Color  OBVIOUS
    <2> QED  BY <2>3, <2>4
  <1>2. a \in Seq(Byte) /\ Len(a) = 1 /\ a[1] = light.mode  BY <1>1
  <1>3. b \in Seq(Byte) /\ Len(b) = 3
    <2>1. PICK r \in Byte, g \in Byte, u \in Byte : b = <<r, g, u>>  BY <1>1 DEF Color
    <2> HIDE DEF b
    <2> QED  BY <2>1
  <1>4. /\ c \in Seq(Byte) /\ Len(c) = 3
        /\ c[1] = light.speed /\ c[2] = light.brightness
    BY <1>1
  <1>5. data = ab \o c  OBVIOUS
  <1> HIDE DEF a, b, c
  <1>6. /\ ab \in Seq(Byte) /\ Len(ab) = 4 /\ ab[1] = light.mode
        /\ \A i \in 1..3 : ab[1 + i] = b[i]
    <2>1. a \in Seq(Byte) /\ b \in Seq(Byte)  BY <1>2, <1>3
    <2>2. /\ ab \in Seq(Byte) /\ Len(ab) = Len(a) + Len(b)
          /\ \A i \in 1..Len(a) : ab[i] = a[i]
          /\ \A i \in 1..Len(b) : ab[Len(a) + i] = b[i]
      BY <2>1, Concatenated
    <2> HIDE DEF ab
    <2> QED  BY <1>2, <1>3, <2>2
  <1> HIDE DEF ab
  <1>7. /\ data \in Seq(Byte) /\ Len(data) = 7
        /\ \A i \in 1..4 : data[i] = ab[i]
        /\ \A i \in 1..3 : data[4 + i] = c[i]
    <2>1. ab \in Seq(Byte) /\ c \in Seq(Byte)  BY <1>4, <1>6
    <2> DEFINE d == ab \o c
    <2>2. /\ d \in Seq(Byte) /\ Len(d) = Len(ab) + Len(c)
          /\ \A i \in 1..Len(ab) : d[i] = ab[i]
          /\ \A i \in 1..Len(c) : d[Len(ab) + i] = c[i]
      BY <2>1, Concatenated
    <2>3. data = d  BY <1>5
    <2> HIDE DEF d
    <2>4. /\ d \in Seq(Byte) /\ Len(d) = 7
          /\ \A i \in 1..4 : d[i] = ab[i]
          /\ \A i \in 1..3 : d[4 + i] = c[i]
      BY <1>4, <1>6, <2>2
    <2> QED  BY <2>3, <2>4
  <1>8. SubSeq(data, 2, 4) = b
    <2> DEFINE read == SubSeq(data, 2, 4)
    <2>1. read \in Seq(Byte) /\ Len(read) = 3 /\ \A i \in 1..3 : read[i] = data[1 + i]
      <3> DEFINE m == 1  n == 3  first == 2  last == 4
      <3>1. m \in Nat /\ n \in Nat /\ m + n <= Len(data) /\ first = m + 1 /\ last = m + n
        BY <1>7
      <3>2. data \in Seq(Byte)  BY <1>7
      <3> HIDE DEF m, n, first, last
      <3>3. LET r == SubSeq(data, first, last) IN
            r \in Seq(Byte) /\ Len(r) = n /\ \A i \in 1..n : r[i] = data[m + i]
        BY <3>1, <3>2, Slice
      <3> QED  BY <3>3 DEF m, n, first, last
    <2> HIDE DEF read
    <2>2. \A i \in 1..3 : 1 + i \in 1..4  OBVIOUS
    <2>3. \A i \in 1..3 : read[i] = b[i]  BY <1>6, <1>7, <2>1, <2>2
    <2>4. Len(read) = Len(b) /\ \A i \in 1..Len(read) : read[i] = b[i]  BY <1>3, <2>1, <2>3
    <2>5. read = b  BY <1>3, <2>1, <2>4, SameSequence
    <2> QED  BY <2>5 DEF read
  <1>9. data[1] = light.mode /\ data[5] = light.speed /\ data[6] = light.brightness
    <2>1. 1 \in 1..4 /\ 1 \in 1..3 /\ 2 \in 1..3 /\ 4 + 1 = 5 /\ 4 + 2 = 6  OBVIOUS
    <2> QED  BY <1>4, <1>6, <1>7, <2>1
  <1> QED  BY <1>7, <1>8, <1>9 DEF b

LEMMA LightMakes ==
    ASSUME NEW light \in [mode : LightMode, color : Color, speed : Byte, brightness : Byte,
                          enabled : BOOLEAN],
           NEW want, want[<<"light", 0>>] = light
    PROVE  Makes(set_light_settings(light), {<<"light", 0>>}, {}, want)
  <1> DEFINE t == <<"light", 0>>
             data == <<light.mode>> \o light.color \o <<light.speed, light.brightness, 0>>
             on == Flag(light.enabled)
             flag == <<on, calculate_data_checksum(on)>>
             first == <<Step("store", "echo", 160, data)>>
             script == first \o <<Step("store", "status", 167, flag)>>
  <1>1. t \in Located /\ Base(t) = 160 /\ Size(t) = 9
    <2>1. "light" \in Wide /\ 0 \in 0..7  BY WideAre
    <2>2. t \in Located  BY <2>1, LocatedAre
    <2>3. Base(t) = Firsts["light"] + Sizes["light"] * 0 /\ Size(t) = Sizes["light"]
      BY <2>1, BasesAre
    <2>4. Firsts["light"] = 160 /\ Sizes["light"] = 9  BY WideAre
    <2> HIDE DEF t
    <2> QED  BY <2>2, <2>3, <2>4
  <1>2. /\ data \in Seq(Byte) /\ Len(data) = 7
        /\ data[1] = light.mode /\ SubSeq(data, 2, 4) = light.color
        /\ data[5] = light.speed /\ data[6] = light.brightness
    BY LightBytes
  <1>3. Len(flag) = 2 /\ flag[1] = on  BY PairIs
  <1>4. set_light_settings(light) = script
    BY DEF set_light_settings, WriteFlash, set_bool, write_memory, OFFSET_LIGHT_SETTINGS,
           OFFSET_LIGHT_STATE
  <1>5. (on = 1) = light.enabled  BY Flags
  <1>6. want[t] = light  OBVIOUS
  <1>7. \A mem : MemorySeen(mem, t) = get_light_settings(mem)  BY MemorySeenIs
  <1> HIDE DEF t, data, on, flag, first
  <1>8. IsScript(script)
    <2>1. IsScript(set_light_settings(light))  BY GroupPackets
    <2> QED  BY <1>4, <2>1
  <1>9. InArea(160, data, t) /\ InArea(167, flag, t)  BY <1>1, <1>2, <1>3 DEF InArea
  <1>10. ASSUME NEW dev, IsDevice(dev)
         PROVE  \E goal : Piece(script, dev, goal, t) /\ MemorySeen(goal.memory, t) = want[t]
    <2> DEFINE mid == Stored(dev, 160, data)
               goal == Stored(mid, 167, flag)
    <2>1. Piece(first, dev, mid, t)  BY <1>1, <1>9, <1>10, FirstPiece DEF first
    <2>2. mid.memory = Overlay(dev.memory, 160, data)  BY <1>10, StoredIs
    <2>3. IsDevice(mid)  BY <2>1 DEF Piece
    <2> HIDE DEF mid
    <2>4. Piece(script, dev, goal, t)  BY <1>1, <1>9, <2>1, NextPiece
    <2>5. goal.memory = Overlay(mid.memory, 167, flag)  BY <2>3, StoredIs
    <2> HIDE DEF goal
    <2> DEFINE m == mid.memory  n == goal.memory
               read == read_memory(n, 160, 7)
    <2>6. read_memory(m, 160, 7) = data
      <3>1. Found(m, 160, data)  BY <1>2, <2>2, WrittenIsFound
      <3>2. data = [i \in 1..7 |-> data[i]]  BY <1>2
      <3> QED  BY <1>2, <3>1, <3>2 DEF Found, read_memory
    <2>7. read = read_memory(m, 160, 7)
      <3>1. 160 + 7 <= 167 /\ 160 \in Nat /\ 7 \in Nat /\ 167 \in Nat  OBVIOUS
      <3> QED  BY <1>3, <2>5, <3>1, ReadElsewhere
    <2>8. At(n, 167) = on
      <3>1. At(n, 167) = flag[167 - 167 + 1]  BY <1>3, <2>5, AtWritten
      <3> QED  BY <1>3, <3>1
    <2> HIDE DEF m, n, read
    <2>9. read = data  BY <2>6, <2>7
    <2>10. get_light_settings(n) =
             [mode |-> light.mode, color |-> light.color, speed |-> light.speed,
              brightness |-> light.brightness, enabled |-> light.enabled]
      <3>1. light.mode \in LightMode  OBVIOUS
      <3>2. get_light_settings(n) =
              [mode       |-> IF read[1] \in LightMode THEN read[1] ELSE 0,
               color      |-> SubSeq(read, 2, 4),
               speed      |-> read[5],
               brightness |-> read[6],
               enabled    |-> At(n, 167) = 1]
        BY DEF get_light_settings, get_bool, OFFSET_LIGHT_SETTINGS, OFFSET_LIGHT_STATE, read
      <3> QED  BY <1>2, <1>5, <2>8, <2>9, <3>1, <3>2
    <2>11. get_light_settings(n) = light  BY <2>10
    <2> QED  BY <1>6, <1>7, <2>4, <2>11 DEF n
  <1> HIDE DEF script
  <1>11. Makes(script, {t}, {}, want)  BY <1>1, <1>8, <1>10, PiecesMake
  <1> QED  BY <1>4, <1>11 DEF t

\* What is stored at a byte and the next one, and stays when a byte further on is stored.
LEMMA PairStored ==
    ASSUME NEW mem, NEW o \in Nat, NEW value
    PROVE  LET after == Overlay(mem, o, <<value, calculate_data_checksum(value)>>) IN
           /\ At(after, o) = value
           /\ \A a \in Nat : a < o => At(after, a) = At(mem, a)
  <1> DEFINE data == <<value, calculate_data_checksum(value)>>
             after == Overlay(mem, o, data)
  <1>1. Len(data) = 2 /\ data[1] = value  BY PairIs
  <1> HIDE DEF data
  <1>2. At(after, o) = value
    <2>1. o >= o /\ o < o + Len(data) /\ o - o + 1 = 1 /\ Len(data) \in Nat  BY <1>1
    <2>2. At(after, o) = data[o - o + 1]  BY <2>1, AtWritten
    <2> QED  BY <1>1, <2>1, <2>2
  <1>3. ASSUME NEW a \in Nat, a < o PROVE At(after, a) = At(mem, a)
    <2>1. Len(data) \in Nat  BY <1>1
    <2> QED  BY <1>3, <2>1, AtElsewhere
  <1> QED  BY <1>2, <1>3 DEF data

LEMMA ClampedTwice ==
    ASSUME NEW n \in Byte
    PROVE  Clamp(Clamp(n, 1, 10), 1, 10) = Clamp(n, 1, 10)
  <1>1. n \in Int  BY ByteIs
  <1> QED  BY <1>1 DEF Clamp, MinOf

LEMMA EffectMakes ==
    ASSUME NEW effect \in [mode : DpiEffectMode, brightness : Byte, speed : Byte,
                           enabled : BOOLEAN],
           NEW want,
           want[<<"dpi_effect", 0>>] = [effect EXCEPT !.brightness = Clamp(@, 1, 10),
                                                      !.speed = Clamp(@, 1, 10)]
    PROVE  Makes(set_dpi_effect_settings(effect), {<<"dpi_effect", 0>>}, {}, want)
  <1> DEFINE t == <<"dpi_effect", 0>>
             Pair(value) == <<value, calculate_data_checksum(value)>>
             Write(o, value) == <<Step("store", "status", o, Pair(value))>>
             v1 == effect.mode
             v2 == encode_brightness(effect.brightness)
             v3 == Clamp(effect.speed, 1, 10)
             v4 == Flag(effect.enabled)
             script == Write(76, v1) \o Write(78, v2) \o Write(80, v3) \o Write(82, v4)
  <1>1. t \in Located /\ Base(t) = 76 /\ Size(t) = 8
    <2>1. "dpi_effect" \in Wide /\ 0 \in 0..7  BY WideAre
    <2>2. t \in Located  BY <2>1, LocatedAre
    <2>3. Base(t) = Firsts["dpi_effect"] + Sizes["dpi_effect"] * 0
          /\ Size(t) = Sizes["dpi_effect"]
      BY <2>1, BasesAre
    <2>4. Firsts["dpi_effect"] = 76 /\ Sizes["dpi_effect"] = 8  BY WideAre
    <2> HIDE DEF t
    <2> QED  BY <2>2, <2>3, <2>4
  <1>2. set_dpi_effect_settings(effect) = script
    BY DEF set_dpi_effect_settings, set_bool, write_memory, OFFSET_DPI_EFFECT_MODE,
           OFFSET_DPI_EFFECT_BRIGHTNESS, OFFSET_DPI_EFFECT_SPEED, OFFSET_DPI_EFFECT_STATE
  <1>3. /\ effect.mode \in DpiEffectMode /\ effect.brightness \in Byte /\ effect.speed \in Byte
        /\ effect.enabled \in BOOLEAN
    OBVIOUS
  <1>4. want[t] = [mode |-> effect.mode, brightness |-> Clamp(effect.brightness, 1, 10),
                   speed |-> Clamp(effect.speed, 1, 10), enabled |-> effect.enabled]
    OBVIOUS
  <1>5. /\ decode_brightness(v2) = Clamp(effect.brightness, 1, 10)
        /\ Clamp(v3, 1, 10) = v3
        /\ (v4 = 1) = effect.enabled
    BY <1>3, BrightnessReadsBack, ClampedTwice, Flags
  <1>6. \A mem : MemorySeen(mem, t) = get_dpi_effect_settings(mem)  BY MemorySeenIs
  <1>7. \A value : Len(Pair(value)) = 2  BY PairIs
  <1> HIDE DEF t, Pair, v1, v2, v3, v4
  <1>8. \A value : /\ InArea(76, Pair(value), t) /\ InArea(78, Pair(value), t)
                   /\ InArea(80, Pair(value), t) /\ InArea(82, Pair(value), t)
    <2> SUFFICES ASSUME NEW value, NEW o \in {76, 78, 80, 82} PROVE InArea(o, Pair(value), t)
      OBVIOUS
    <2>1. Len(Pair(value)) = 2  BY <1>7
    <2> DEFINE data == Pair(value)
    <2> HIDE DEF data
    <2>2. InArea(o, data, t)  BY <1>1, <2>1 DEF InArea, data
    <2> QED  BY <2>2 DEF data
  <1>9. IsScript(script)
    <2>1. IsScript(set_dpi_effect_settings(effect))  BY GroupPackets
    <2> HIDE DEF script
    <2> QED  BY <1>2, <2>1
  <1>10. ASSUME NEW dev, IsDevice(dev)
         PROVE  \E goal : Piece(script, dev, goal, t) /\ MemorySeen(goal.memory, t) = want[t]
    <2> DEFINE d1 == Stored(dev, 76, Pair(v1))
               d2 == Stored(d1, 78, Pair(v2))
               d3 == Stored(d2, 80, Pair(v3))
               goal == Stored(d3, 82, Pair(v4))
               s1 == Write(76, v1)
               s2 == s1 \o Write(78, v2)
               s3 == s2 \o Write(80, v3)
    <2>1. Piece(s1, dev, d1, t)  BY <1>1, <1>8, <1>10, FirstPiece
    <2>2. d1.memory = Overlay(dev.memory, 76, Pair(v1))  BY <1>10, StoredIs
    <2> HIDE DEF d1, s1
    <2>3. Piece(s2, dev, d2, t)  BY <1>1, <1>8, <2>1, NextPiece
    <2>4. d2.memory = Overlay(d1.memory, 78, Pair(v2))  BY <2>1, StoredIs DEF Piece
    <2> HIDE DEF d2, s2
    <2>5. Piece(s3, dev, d3, t)  BY <1>1, <1>8, <2>3, NextPiece
    <2>6. d3.memory = Overlay(d2.memory, 80, Pair(v3))  BY <2>3, StoredIs DEF Piece
    <2> HIDE DEF d3, s3
    <2>7. Piece(s3 \o Write(82, v4), dev, goal, t)  BY <1>1, <1>8, <2>5, NextPiece
    <2>8. goal.memory = Overlay(d3.memory, 82, Pair(v4))  BY <2>5, StoredIs DEF Piece
    <2> HIDE DEF goal
    <2>9. Piece(script, dev, goal, t)  BY <2>7 DEF s1, s2, s3
    <2> HIDE DEF script
    <2> DEFINE m1 == d1.memory  m2 == d2.memory  m3 == d3.memory  m4 == goal.memory
    <2>10. At(m1, 76) = v1  BY <2>2, PairStored DEF Pair
    <2>11. At(m2, 78) = v2 /\ At(m2, 76) = At(m1, 76)
      <3>1. 78 \in Nat /\ 76 \in Nat /\ 76 < 78  OBVIOUS
      <3> QED  BY <2>4, <3>1, PairStored DEF Pair
    <2>12. At(m3, 80) = v3 /\ At(m3, 76) = At(m2, 76) /\ At(m3, 78) = At(m2, 78)
      <3>1. 80 \in Nat /\ 76 \in Nat /\ 78 \in Nat /\ 76 < 80 /\ 78 < 80  OBVIOUS
      <3> QED  BY <2>6, <3>1, PairStored DEF Pair
    <2>13. /\ At(m4, 82) = v4 /\ At(m4, 76) = At(m3, 76)
           /\ At(m4, 78) = At(m3, 78) /\ At(m4, 80) = At(m3, 80)
      <3>1. /\ 82 \in Nat /\ 80 \in Nat /\ 76 \in Nat /\ 78 \in Nat
            /\ 76 < 82 /\ 78 < 82 /\ 80 < 82
        OBVIOUS
      <3> QED  BY <2>8, <3>1, PairStored DEF Pair
    <2> HIDE DEF m1, m2, m3, m4
    <2>14. /\ At(m4, 76) = v1 /\ At(m4, 78) = v2 /\ At(m4, 80) = v3 /\ At(m4, 82) = v4
      BY <2>10, <2>11, <2>12, <2>13
    <2>15. get_dpi_effect_settings(m4) = want[t]
      <3>1. v1 \in DpiEffectMode /\ v1 = effect.mode  BY <1>3 DEF v1
      <3>2. v3 = Clamp(effect.speed, 1, 10)  BY DEF v3
      <3> QED
        BY <1>4, <1>5, <2>14, <3>1, <3>2
           DEF get_dpi_effect_settings, get_bool, OFFSET_DPI_EFFECT_MODE,
               OFFSET_DPI_EFFECT_BRIGHTNESS, OFFSET_DPI_EFFECT_SPEED, OFFSET_DPI_EFFECT_STATE
    <2> QED  BY <1>6, <2>9, <2>15 DEF m4
  <1> HIDE DEF script
  <1>11. Makes(script, {t}, {}, want)  BY <1>1, <1>9, <1>10, PiecesMake
  <1> QED  BY <1>2, <1>11 DEF t

-----------------------------------------------------------------------------
(* A slot written ten bytes at a time. *)

\* The next n bytes of data are written behind the first m.
OverlaysAlike(mem, address, data, m, n) ==
    Overlay(Overlay(mem, address, SubSeq(data, 1, m)), address + m, SubSeq(data, m + 1, m + n))
      = Overlay(mem, address, SubSeq(data, 1, m + n))

LEMMA OverlayNext ==
    ASSUME NEW X, NEW data \in Seq(X), NEW m \in Nat, NEW n \in Nat, m + n <= Len(data),
           NEW address \in Nat, NEW mem
    PROVE  OverlaysAlike(mem, address, data, m, n)
  <1> DEFINE a == SubSeq(data, 1, m)
             b == SubSeq(data, m + 1, m + n)
             c == SubSeq(data, 1, m + n)
  <1>0. Len(data) \in Nat  BY ElementsOf
  <1>1. Len(a) = m /\ \A i \in 1..m : a[i] = data[i]
    <2>1. m \in 0..Len(data)  BY <1>0
    <2> QED  BY <2>1, Prefix
  <1>2. Len(b) = n /\ \A i \in 1..n : b[i] = data[m + i]
    <2> DEFINE first == m + 1  last == m + n
    <2>1. first = m + 1 /\ last = m + n  OBVIOUS
    <2> HIDE DEF first, last
    <2>2. LET r == SubSeq(data, first, last) IN Len(r) = n /\ \A i \in 1..n : r[i] = data[m + i]
      BY <2>1, Slice
    <2> QED  BY <2>2 DEF first, last
  <1>3. Len(c) = m + n /\ \A i \in 1..(m + n) : c[i] = data[i]
    <2> DEFINE k == m + n
    <2>1. k \in 0..Len(data)  BY <1>0
    <2> HIDE DEF k
    <2>2. Len(SubSeq(data, 1, k)) = k /\ \A i \in 1..k : SubSeq(data, 1, k)[i] = data[i]
      BY <2>1, Prefix
    <2> QED  BY <2>2 DEF k
  <1> HIDE DEF a, b, c
  <1> DEFINE one == Overlay(mem, address, a)
             two == Overlay(one, address + m, b)
             all == Overlay(mem, address, c)
             A == address..(address + m - 1)
             B == (address + m)..(address + m + n - 1)
             C == address..(address + (m + n) - 1)
  <1>4. one = [x \in DOMAIN mem \cup A |-> IF x \in A THEN a[x - address + 1] ELSE mem[x]]
    BY <1>1 DEF Overlay
  <1>5. two = [x \in DOMAIN one \cup B |->
                 IF x \in B THEN b[x - (address + m) + 1] ELSE one[x]]
    BY <1>2 DEF Overlay
  <1>6. all = [x \in DOMAIN mem \cup C |-> IF x \in C THEN c[x - address + 1] ELSE mem[x]]
    BY <1>3 DEF Overlay
  <1>7. C = A \cup B  OBVIOUS
  <1>8. ASSUME NEW x \in A
        PROVE  x \notin B /\ x - address + 1 \in 1..m /\ x - address + 1 \in 1..(m + n)
    OBVIOUS
  <1>9. ASSUME NEW x \in B
        PROVE  /\ x - (address + m) + 1 \in 1..n /\ x - address + 1 \in 1..(m + n)
               /\ m + (x - (address + m) + 1) = x - address + 1
    OBVIOUS
  <1> HIDE DEF one, two, all, A, B, C
  <1>10. DOMAIN two = DOMAIN all  BY <1>4, <1>5, <1>6, <1>7
  <1>11. ASSUME NEW x \in DOMAIN all PROVE two[x] = all[x]
    <2>0. x \in DOMAIN mem \cup C /\ x \in DOMAIN one \cup B  BY <1>4, <1>6, <1>7, <1>11
    <2>1. CASE x \in B
      <3>1. two[x] = b[x - (address + m) + 1]  BY <1>5, <2>0, <2>1
      <3>2. all[x] = c[x - address + 1]  BY <1>6, <1>7, <2>0, <2>1
      <3> QED  BY <1>2, <1>3, <1>9, <2>1, <3>1, <3>2
    <2>2. CASE x \notin B /\ x \in A
      <3>1. two[x] = one[x]  BY <1>5, <2>0, <2>2
      <3>2. one[x] = a[x - address + 1]  BY <1>4, <2>2
      <3>3. all[x] = c[x - address + 1]  BY <1>6, <1>7, <2>0, <2>2
      <3> QED  BY <1>1, <1>3, <1>8, <2>2, <3>1, <3>2, <3>3
    <2>3. CASE x \notin B /\ x \notin A
      <3>1. two[x] = one[x]  BY <1>5, <2>0, <2>3
      <3>2. one[x] = mem[x]  BY <1>4, <1>7, <2>0, <2>3
      <3>3. all[x] = mem[x]  BY <1>6, <1>7, <2>0, <2>3
      <3> QED  BY <3>1, <3>2, <3>3
    <2> QED  BY <2>1, <2>2, <2>3
  <1>12. two = [x \in DOMAIN two |-> two[x]] /\ all = [x \in DOMAIN all |-> all[x]]
    BY <1>5, <1>6
  <1>13. two = all  BY <1>10, <1>11, <1>12
  <1> QED  BY <1>13 DEF OverlaysAlike, one, two, all, a, b, c

\* What is stored behind the first bytes of a slot.
LEMMA StoredTwice ==
    ASSUME NEW dev, IsDevice(dev), NEW a, NEW d, NEW b, NEW e, NEW c,
           Overlay(Overlay(dev.memory, a, d), b, e) = Overlay(dev.memory, a, c)
    PROVE  Stored(Stored(dev, a, d), b, e) = Stored(dev, a, c)
  <1> DEFINE o == Overlay(dev.memory, a, d)
             p == Overlay(o, b, e)
  <1>1. Stored(dev, a, d) = [dev EXCEPT !.memory = o]  BY DEF Stored
  <1>2. [dev EXCEPT !.memory = o].memory = o  BY DEF IsDevice
  <1>3. Stored([dev EXCEPT !.memory = o], b, e) = [[dev EXCEPT !.memory = o] EXCEPT !.memory = p]
    BY <1>2 DEF Stored
  <1>4. Stored(dev, a, c) = [dev EXCEPT !.memory = p]  BY DEF Stored
  <1> HIDE DEF o, p
  <1>5. [[dev EXCEPT !.memory = o] EXCEPT !.memory = p] = [dev EXCEPT !.memory = p]
    OBVIOUS
  <1> QED  BY <1>1, <1>3, <1>4, <1>5

\* The bytes of a slot.
SlotBytes(data, size) == data \in Seq(Byte) /\ Len(data) = size

LEMMA SlotNext ==
    ASSUME NEW data, NEW size, SlotBytes(data, size), NEW m \in Nat, NEW n \in Nat, m + n <= size,
           NEW address \in Nat, NEW mem
    PROVE  OverlaysAlike(mem, address, data, m, n)
  <1>1. data \in Seq(Byte) /\ m + n <= Len(data)  BY DEF SlotBytes
  <1> QED  BY <1>1, OverlayNext

\* Where the chunks of a slot end.
Upto(size, k) == MinOf(10 * k, size)
Chunks(size)  == (size + 9) \div 10

LEMMA ChunksAre ==
    ASSUME NEW size \in {32, 384}
    PROVE  /\ Chunks(size) \in Nat /\ Chunks(size) >= 1 /\ Upto(size, Chunks(size)) = size
           /\ Upto(size, 1) = 10 /\ 10 <= size
           /\ \A k \in 1..Chunks(size) :
                /\ Upto(size, k) \in Nat /\ Upto(size, k) <= size
                /\ 10 * (k - 1) \in Nat /\ Upto(size, k) - 10 * (k - 1) \in Nat
                /\ 10 * (k - 1) + (Upto(size, k) - 10 * (k - 1)) = Upto(size, k)
                /\ k # 1 => k - 1 \in 1..Chunks(size) /\ Upto(size, k - 1) = 10 * (k - 1)
  <1>1. CASE size = 32  BY <1>1 DEF Chunks, Upto, MinOf
  <1>2. CASE size = 384  BY <1>2 DEF Chunks, Upto, MinOf
  <1> QED  BY <1>1, <1>2

LEMMA ChunksLead ==
    ASSUME NEW address \in Nat, NEW size \in {32, 384}, NEW data, SlotBytes(data, size),
           NEW dev, IsDevice(dev)
    PROVE  Leads(WriteInChunks(address, data, size), dev, Stored(dev, address, data))
  <1> DEFINE n == Chunks(size)
             f == WriteInChunks(address, data, size)
             Part(k) == SubSeq(data, 1, Upto(size, k))
             trace == [k \in 0..n |-> IF k = 0 THEN dev ELSE Stored(dev, address, Part(k))]
             goal == Stored(dev, address, data)
  <1>1. /\ f = [k \in 1..n |-> Step("store", "none", address + 10 * (k - 1),
                                    SubSeq(data, 10 * (k - 1) + 1, Upto(size, k)))]
    BY DEF WriteInChunks, Upto, Chunks
  <1>2. n \in Nat /\ n >= 1 /\ Upto(size, n) = size  BY ChunksAre
  <1>3. \A k \in 1..n : f[k] = Step("store", "none", address + 10 * (k - 1),
                                    SubSeq(data, 10 * (k - 1) + 1, Upto(size, k)))
    BY <1>1
  <1>4. Len(f) = n
    <2> HIDE DEF n
    <2> DEFINE Chunk(k) == Step("store", "none", address + 10 * (k - 1),
                                 SubSeq(data, 10 * (k - 1) + 1, Upto(size, k)))
    <2>1. f = [k \in 1..n |-> Chunk(k)]  BY <1>1
    <2> HIDE DEF Chunk, f
    <2> QED  BY <1>2, <2>1
  <1>5. trace[0] = dev /\ \A k \in 1..n : trace[k] = Stored(dev, address, Part(k))
    BY <1>2
  <1>6. Part(n) = data  BY <1>2, WholeIs DEF SlotBytes
  <1> HIDE DEF n, f, trace, Part
  <1>7. trace[n] = goal  BY <1>2, <1>5, <1>6
  <1>8. ASSUME NEW k \in 1..n PROVE trace[k] = After(trace[k - 1], f[k])
    <2> DEFINE m == 10 * (k - 1)
               r == Upto(size, k) - m
               before == trace[k - 1]
               rest == SubSeq(data, m + 1, m + r)
    <2>1. /\ m \in Nat /\ r \in Nat /\ m + r = Upto(size, k) /\ m + r <= size
          /\ k # 1 => k - 1 \in 1..n /\ Upto(size, k - 1) = m
      BY <1>8, ChunksAre DEF n
    <2>2. f[k] = Step("store", "none", address + m, rest)  BY <1>3, <1>8, <2>1
    <2>3. IsDevice(before)
      <3>1. CASE k = 1  BY <1>5, <3>1
      <3>2. CASE k # 1  BY <1>5, <2>1, <3>2, StoredIs
      <3> QED  BY <3>1, <3>2
    <2> HIDE DEF m, r, before, rest
    <2>4. After(before, f[k]) = Stored(before, address + m, rest)  BY <2>2, <2>3, StoredIs
    <2>5. Stored(before, address + m, rest) = Stored(dev, address, Part(k))
      <3>1. CASE k = 1
        <4>1. before = dev  BY <1>5, <3>1 DEF before
        <4>2. m = 0 /\ address + m = address  BY <3>1 DEF m
        <4>3. rest = Part(k)
          <5>1. m + 1 = 1  BY <4>2
          <5> QED  BY <2>1, <5>1 DEF rest, Part
        <4> QED  BY <4>1, <4>2, <4>3
      <3>2. CASE k # 1
        <4>1. before = Stored(dev, address, Part(k - 1))  BY <1>5, <2>1, <3>2 DEF before
        <4>2. Part(k - 1) = SubSeq(data, 1, m)  BY <2>1, <3>2 DEF Part
        <4>3. Part(k) = SubSeq(data, 1, m + r)  BY <2>1 DEF Part
        <4>4. \A mem : Overlay(Overlay(mem, address, SubSeq(data, 1, m)), address + m, rest)
                         = Overlay(mem, address, SubSeq(data, 1, m + r))
          <5>1. \A mem : OverlaysAlike(mem, address, data, m, r)  BY <2>1, SlotNext
          <5> QED  BY <5>1 DEF OverlaysAlike, rest
        <4> DEFINE first == Part(k - 1)  more == Part(k)
        <4>5. Overlay(Overlay(dev.memory, address, first), address + m, rest)
                = Overlay(dev.memory, address, more)
          BY <4>2, <4>3, <4>4
        <4> HIDE DEF first, more
        <4>6. Stored(Stored(dev, address, first), address + m, rest) = Stored(dev, address, more)
          BY <4>5, StoredTwice
        <4> QED  BY <4>1, <4>6 DEF first, more
      <3> QED  BY <3>1, <3>2
    <2> QED  BY <1>5, <1>8, <2>4, <2>5 DEF before
  <1> QED  BY <1>4, <1>5, <1>7, <1>8 DEF Leads, f, goal

LEMMA ChunksMake ==
    ASSUME NEW t \in Located, Size(t) \in {32, 384}, NEW data, SlotBytes(data, Size(t)), NEW want,
           \A mem : read_memory(mem, Base(t), Size(t)) = data => MemorySeen(mem, t) = want[t]
    PROVE  Makes(WriteInChunks(Base(t), data, Size(t)), {t}, {}, want)
  <1> DEFINE address == Base(t)
             size == Size(t)
             script == WriteInChunks(address, data, size)
  <1>0. address \in Nat /\ size \in {32, 384} /\ size \in Nat  BY AreaIs
  <1>1. IsScript(script)  BY <1>0, ChunkPackets
  <1>2. InArea(address, data, t)  BY <1>0 DEF InArea, SlotBytes
  <1>3. \A mem : read_memory(mem, address, size) = data => MemorySeen(mem, t) = want[t]
    OBVIOUS
  <1>4. SlotBytes(data, size)  OBVIOUS
  <1> HIDE DEF script, address, size
  <1>5. ASSUME NEW dev, IsDevice(dev)
        PROVE  \E goal : Piece(script, dev, goal, t) /\ MemorySeen(goal.memory, t) = want[t]
    <2> DEFINE goal == Stored(dev, address, data)
    <2>1. IsDevice(goal) /\ goal.memory = Overlay(dev.memory, address, data)  BY <1>5, StoredIs
    <2>2. \A s \in Setting : s # t => Seen(goal, s) = Seen(dev, s)  BY <1>2, <1>5, StoredApart
    <2>3. Leads(script, dev, goal)  BY <1>0, <1>4, <1>5, ChunksLead DEF script
    <2> HIDE DEF goal
    <2>4. read_memory(goal.memory, address, size) = data
      <3>1. Len(data) \in Nat /\ Len(data) = size  BY <1>4 DEF SlotBytes
      <3>2. Found(goal.memory, address, data)  BY <1>0, <2>1, <3>1, WrittenIsFound
      <3>3. read_memory(goal.memory, address, size) = [i \in 1..size |-> data[i]]
        BY <3>1, <3>2 DEF Found, read_memory
      <3>4. data = [i \in 1..size |-> data[i]]  BY <1>4 DEF SlotBytes
      <3> QED  BY <3>3, <3>4
    <2> QED  BY <1>1, <1>3, <2>1, <2>2, <2>3, <2>4 DEF Piece
  <1>6. Makes(script, {t}, {}, want)  BY <1>1, <1>5, PiecesMake
  <1> QED  BY <1>6 DEF script, address, size

LEMMA ShortcutMakes ==
    ASSUME NEW slot \in Nat, NEW events \in Seq(ShortcutEvent),
           Len(events) <= MAX_SHORTCUT_EVENTS,
           NEW want, want[<<"shortcut", slot>>] = events
    PROVE  Makes(set_shortcut_key(slot, events), {<<"shortcut", slot>>}, {}, want)
  <1> DEFINE t == <<"shortcut", slot>>
             address == ShortcutAddress(slot)
             data == EncodeShortcut(events)
  <1>1. CASE slot >= 8
    <2>1. set_shortcut_key(slot, events) = Reject  BY <1>1 DEF set_shortcut_key, Unless
    <2> QED  BY <2>1, RejectMakes
  <1>2. CASE ~(slot >= 8)
    <2>1. slot \in 0..7  BY <1>2
    <2>2. /\ t \in Located /\ Base(t) = address /\ Size(t) = 32 /\ address \in Nat
      <3>1. "shortcut" \in Wide /\ "shortcut" \notin Lone  BY WideAre DEF Lone
      <3>2. t \in Located  BY <2>1, <3>1, LocatedAre
      <3>3. Base(t) = Firsts["shortcut"] + Sizes["shortcut"] * slot /\ Size(t) = Sizes["shortcut"]
        BY <2>1, <3>1, BasesAre
      <3>4. address = 256 + 32 * slot
        BY DEF ShortcutAddress, OFFSET_SHORTCUT_KEYS, SHORTCUT_KEY_SLOT_SIZE
      <3> HIDE DEF t, address
      <3> QED  BY <3>2, <3>3, <3>4, WideAre
    <2>3. DecodeShortcut(data) = events /\ SlotBytes(data, 32)  BY ShortcutReadsBack DEF SlotBytes
    <2>4. \A mem : MemorySeen(mem, t) = get_shortcut_key(mem, slot)  BY <2>1, MemorySeenIs
    <2>5. events # Invalid  BY InvalidAssumption
    <2>6. set_shortcut_key(slot, events) = WriteInChunks(address, data, 32)
      BY <1>2 DEF set_shortcut_key, Unless, SHORTCUT_KEY_SLOT_SIZE
    <2> HIDE DEF t, data
    <2>7. ASSUME NEW mem, read_memory(mem, address, 32) = data
          PROVE  MemorySeen(mem, t) = want[t]
      <3>1. get_shortcut_key(mem, slot) = OrElse(DecodeShortcut(data), << >>)
        BY <2>7 DEF get_shortcut_key, SHORTCUT_KEY_SLOT_SIZE
      <3>2. want[t] = events  BY DEF t
      <3> QED  BY <2>3, <2>4, <2>5, <3>1, <3>2 DEF OrElse
    <2> HIDE DEF address
    <2>8. Makes(WriteInChunks(address, data, 32), {t}, {}, want)
      <3>1. Size(t) \in {32, 384} /\ SlotBytes(data, Size(t))  BY <2>2, <2>3
      <3>2. \A mem : read_memory(mem, Base(t), Size(t)) = data => MemorySeen(mem, t) = want[t]
        BY <2>2, <2>7
      <3>3. Makes(WriteInChunks(Base(t), data, Size(t)), {t}, {}, want)
        BY <2>2, <3>1, <3>2, ChunksMake
      <3> QED  BY <2>2, <3>3
    <2> QED  BY <2>6, <2>8 DEF t
  <1> QED  BY <1>1, <1>2

LEMMA MacroMakes ==
    ASSUME NEW slot \in Nat, NEW macro \in [name : Seq(Byte), events : Seq(MacroEvent)],
           macro.name \in Seq(1..255), IsText(macro.name), Len(macro.name) <= 30,
           Len(macro.events) <= 70,
           NEW want, want[<<"macro", slot>>] = macro
    PROVE  Makes(set_macro(slot, macro), {<<"macro", slot>>}, {}, want)
  <1> DEFINE t == <<"macro", slot>>
             address == MacroAddress(slot)
             data == EncodeMacro(macro)
  <1>1. CASE slot >= 8
    <2>1. set_macro(slot, macro) = Reject  BY <1>1 DEF set_macro, Unless
    <2> QED  BY <2>1, RejectMakes
  <1>2. CASE ~(slot >= 8)
    <2>1. slot \in 0..7  BY <1>2
    <2>2. /\ t \in Located /\ Base(t) = address /\ Size(t) = 384 /\ address \in Nat
      <3>1. "macro" \in Wide /\ "macro" \notin Lone  BY WideAre DEF Lone
      <3>2. t \in Located  BY <2>1, <3>1, LocatedAre
      <3>3. Base(t) = Firsts["macro"] + Sizes["macro"] * slot /\ Size(t) = Sizes["macro"]
        BY <2>1, <3>1, BasesAre
      <3>4. address = 768 + 384 * slot
        BY DEF MacroAddress, OFFSET_MACROS, MACRO_SLOT_SIZE
      <3> HIDE DEF t, address
      <3> QED  BY <3>2, <3>3, <3>4, WideAre
    <2>3. DecodeMacro(data) = macro /\ SlotBytes(data, 384)
      <3> DEFINE name == macro.name  events == macro.events
      <3>1. name \in Seq(1..255) /\ events \in Seq(MacroEvent)  OBVIOUS
      <3>2. /\ DecodeMacro(data) = [name   |-> Lossy[SubSeq(name, 1, MinOf(Len(name), 30))],
                                    events |-> SubSeq(events, 1, MinOf(Len(events), 70))]
            /\ SlotBytes(data, 384)
        BY <3>1, MacroReadsBack DEF SlotBytes
      <3>3. MinOf(Len(name), 30) = Len(name) /\ MinOf(Len(events), 70) = Len(events)
        <4> DEFINE p == Len(name)  q == Len(events)
        <4>1. p \in Nat /\ q \in Nat /\ p <= 30 /\ q <= 70  BY <3>1
        <4> HIDE DEF p, q
        <4>2. MinOf(p, 30) = p /\ MinOf(q, 70) = q  BY <4>1 DEF MinOf
        <4> QED  BY <4>2 DEF p, q
      <3>4. SubSeq(name, 1, Len(name)) = name /\ SubSeq(events, 1, Len(events)) = events
        BY <3>1, WholeIs
      <3>5. macro = [name |-> name, events |-> events]  OBVIOUS
      <3>6. Lossy[name] = name  BY LossyText
      <3> HIDE DEF name, events, data
      <3> QED  BY <3>2, <3>3, <3>4, <3>5, <3>6
    <2>4. \A mem : MemorySeen(mem, t) = get_macro(mem, slot)  BY <2>1, MemorySeenIs
    <2>6. set_macro(slot, macro) = WriteInChunks(address, data, 384)
      BY <1>2 DEF set_macro, Unless, MACRO_SLOT_SIZE
    <2> HIDE DEF t, data
    <2>7. ASSUME NEW mem, read_memory(mem, address, 384) = data
          PROVE  MemorySeen(mem, t) = want[t]
      <3>1. get_macro(mem, slot) = DecodeMacro(data)  BY <2>7 DEF get_macro, MACRO_SLOT_SIZE
      <3>2. want[t] = macro  BY DEF t
      <3> QED  BY <2>3, <2>4, <3>1, <3>2
    <2> HIDE DEF address
    <2>8. Makes(WriteInChunks(address, data, 384), {t}, {}, want)
      <3>1. Size(t) \in {32, 384} /\ SlotBytes(data, Size(t))  BY <2>2, <2>3
      <3>2. \A mem : read_memory(mem, Base(t), Size(t)) = data => MemorySeen(mem, t) = want[t]
        BY <2>2, <2>7
      <3>3. Makes(WriteInChunks(Base(t), data, Size(t)), {t}, {}, want)
        BY <2>2, <3>1, <3>2, ChunksMake
      <3> QED  BY <2>2, <3>3
    <2> QED  BY <2>6, <2>8 DEF t
  <1> QED  BY <1>1, <1>2

-----------------------------------------------------------------------------
(* The stages, one after the other, and the configuration as a whole. *)

\* What goes on upsetting no more than it began with.
LEMMA GoesOnMaking ==
    ASSUME NEW s, NEW t, NEW X, NEW L, NEW Y, NEW want, Makes(s, X, L, want), Makes(t, Y, {}, want)
    PROVE  Makes(s \o t, X \cup Y, L, want)
  BY ThenMakes

\* The value and the color of the first j stages.
DpiOf(j) == {"dpi_value", "dpi_color"} \X (0..(j - 1))

\* The packets of the j-th stage, counted from zero, are sent one after the other.
LEMMA StageStepsAre ==
    ASSUME NEW stages, Len(stages) \in Nat, NEW j \in Nat, j < Len(stages)
    PROVE  LET f == StageWrites(stages) IN
           /\ 2 * j + 1 \in DOMAIN f /\ 2 * j + 2 \in DOMAIN f
           /\ f[2 * j + 1] = DpiValueStep(j, stages[j + 1].value)
           /\ f[2 * j + 2] = DpiColorStep(j, stages[j + 1].color)
  <1> DEFINE n == 2 * Len(stages)
             f == StageWrites(stages)
             p == 2 * j + 1
             q == 2 * j + 2
  <1>1. /\ p \in 1..n /\ q \in 1..n
        /\ (p - 1) \div 2 = j /\ (q - 1) \div 2 = j /\ p % 2 = 1 /\ q % 2 # 1
    OBVIOUS
  <1>2. \A k \in 1..n : f[k] = LET stage == (k - 1) \div 2
                                   s     == stages[stage + 1]
                               IN IF k % 2 = 1 THEN set_dpi_value(stage, s.value)[1]
                                  ELSE set_dpi_color(stage, s.color)[1]
    BY DEF StageWrites
  <1>3. DOMAIN f = 1..n  BY DEF StageWrites
  <1> HIDE DEF n, f, p, q
  <1>4. f[p] = set_dpi_value(j, stages[j + 1].value)[1]  BY <1>1, <1>2
  <1>5. f[q] = set_dpi_color(j, stages[j + 1].color)[1]  BY <1>1, <1>2
  <1>6. /\ p \in DOMAIN f /\ q \in DOMAIN f
        /\ f[p] = DpiValueStep(j, stages[j + 1].value)
        /\ f[q] = DpiColorStep(j, stages[j + 1].color)
    BY <1>1, <1>3, <1>4, <1>5, DpiPackets
  <1> QED  BY <1>6 DEF f, p, q

\* The stages of a configuration are what is wanted.
WantsStages(want, stages) ==
    \A k \in 0..(Len(stages) - 1) :
      /\ Wants(want, "dpi_value", k, RoundedDpi(stages[k + 1].value))
      /\ Wants(want, "dpi_color", k, stages[k + 1].color)

LEMMA NextStageMakes ==
    ASSUME NEW config \in MouseConfig, NEW stages, stages = config.dpi_stages,
           Len(stages) <= 8, NEW want, WantsStages(want, stages),
           NEW j \in Nat, j < Len(stages),
           NEW f, f = StageWrites(stages), Makes(SubSeq(f, 1, 2 * j), DpiOf(j), {}, want)
    PROVE  Makes(SubSeq(f, 1, 2 * (j + 1)), DpiOf(j + 1), {}, want)
  <1> DEFINE m == 2 * j
             v == DpiValueStep(j, stages[j + 1].value)
             c == DpiColorStep(j, stages[j + 1].color)
             none == SubSeq(f, 1, m)
             one == SubSeq(f, 1, m + 1)
             both == SubSeq(f, 1, (m + 1) + 1)
  <1>1. Len(stages) \in Nat /\ j \in 0..7 /\ j + 1 \in 1..Len(stages)  BY StageType
  <1>2. stages[j + 1].color \in Color  BY <1>1, StageType
  <1>3. /\ want[<<"dpi_value", j>>] = RoundedDpi(stages[j + 1].value)
        /\ want[<<"dpi_color", j>>] = stages[j + 1].color
    BY <1>1 DEF WantsStages, Wants
  <1>4. Makes(<<v>>, {<<"dpi_value", j>>}, {}, want)
    <2>1. FourStep(v, "dpi_value", j, RoundedDpi(stages[j + 1].value))  BY DpiValueStepIs
    <2>2. "dpi_value" \in FourSettings  BY DEF FourSettings
    <2> HIDE DEF v
    <2> QED  BY <1>1, <1>3, <2>1, <2>2, FourStepMakes
  <1>5. Makes(<<c>>, {<<"dpi_color", j>>}, {}, want)
    <2>1. FourStep(c, "dpi_color", j, stages[j + 1].color)  BY <1>2, DpiColorStepIs
    <2>2. "dpi_color" \in FourSettings  BY DEF FourSettings
    <2> HIDE DEF c
    <2> QED  BY <1>1, <1>3, <2>1, <2>2, FourStepMakes
  <1>6. /\ m \in Nat /\ m + 1 \in Nat /\ (m + 1) + 1 = 2 * j + 2 /\ 2 * (j + 1) = (m + 1) + 1
    OBVIOUS
  <1>7. /\ m + 1 \in DOMAIN f /\ (m + 1) + 1 \in DOMAIN f
        /\ f[m + 1] = v /\ f[(m + 1) + 1] = c
    BY <1>1, <1>6, StageStepsAre
  <1> DEFINE P == Packets(f)
  <1>8. f \in Seq(P)  BY <1>1, StagePackets DEF IsScript
  <1> HIDE DEF P, m, v, c
  <1>9. m + 1 <= Len(f) /\ (m + 1) + 1 <= Len(f)  BY <1>6, <1>7, <1>8
  <1>10. one = none \o <<v>>
    <2>1. one = Append(none, f[m + 1])  BY <1>6, <1>8, <1>9, PrefixGrows
    <2>2. none \in Seq(P)
      <3>1. m \in 0..Len(f)  BY <1>6, <1>8, <1>9
      <3> QED  BY <1>8, <3>1, Prefix
    <2>3. Append(none, f[m + 1]) = none \o <<f[m + 1]>>
      <3> HIDE DEF none
      <3>1. f[m + 1] \in P  BY <1>7, <1>8
      <3> QED  BY <2>2, <3>1
    <2> QED  BY <1>7, <2>1, <2>3
  <1>11. both = one \o <<c>>
    <2> DEFINE k == m + 1
    <2>0. k \in Nat /\ k + 1 <= Len(f) /\ k + 1 \in DOMAIN f /\ f[k + 1] = c  BY <1>6, <1>7, <1>9
    <2> HIDE DEF k
    <2> DEFINE first == SubSeq(f, 1, k)
    <2>1. SubSeq(f, 1, k + 1) = Append(first, f[k + 1])  BY <1>8, <2>0, PrefixGrows
    <2>2. first \in Seq(P)
      <3>1. k \in 0..Len(f)  BY <1>8, <2>0
      <3> QED  BY <1>8, <3>1, Prefix
    <2>3. Append(first, f[k + 1]) = first \o <<f[k + 1]>>
      <3> HIDE DEF first
      <3>1. f[k + 1] \in P  BY <1>8, <2>0
      <3> QED  BY <2>2, <3>1
    <2>4. SubSeq(f, 1, k + 1) = first \o <<c>>  BY <2>0, <2>1, <2>3
    <2> QED  BY <2>4 DEF k
  <1>12. Makes(none, DpiOf(j), {}, want)  BY DEF m
  <1>13. 2 * (j + 1) = (m + 1) + 1  BY <1>6
  <1> HIDE DEF none
  <1>14. Makes(one, DpiOf(j) \cup {<<"dpi_value", j>>}, {}, want)  BY <1>4, <1>10, <1>12, AlsoMakes
  <1> HIDE DEF one, both
  <1>15. Makes(both, DpiOf(j) \cup {<<"dpi_value", j>>} \cup {<<"dpi_color", j>>}, {}, want)
    BY <1>5, <1>11, <1>14, AlsoMakes
  <1>16. DpiOf(j) \cup {<<"dpi_value", j>>} \cup {<<"dpi_color", j>>} = DpiOf(j + 1)
    <2>1. 0..((j + 1) - 1) = 0..(j - 1) \cup {j}  OBVIOUS
    <2> DEFINE A == 0..(j - 1)  B == 0..((j + 1) - 1)
    <2>2. B = A \cup {j}  BY <2>1
    <2> HIDE DEF A, B
    <2>3. {"dpi_value", "dpi_color"} \X A \cup {<<"dpi_value", j>>} \cup {<<"dpi_color", j>>}
            = {"dpi_value", "dpi_color"} \X B
      BY <2>2
    <2> QED  BY <2>3 DEF DpiOf, A, B
  <1> QED  BY <1>13, <1>15, <1>16 DEF both

LEMMA StageWritesMake ==
    ASSUME NEW config \in MouseConfig, NEW stages, stages = config.dpi_stages,
           Len(stages) <= 8, NEW want, WantsStages(want, stages)
    PROVE  Makes(StageWrites(stages), DpiOf(Len(stages)), {}, want)
  <1> DEFINE f == StageWrites(stages)
             n == Len(stages)
             Done(j) == j <= n => Makes(SubSeq(f, 1, 2 * j), DpiOf(j), {}, want)
             S == {j \in Nat : Done(j)}
  <1>1. n \in Nat /\ DOMAIN f = 1..2 * n /\ IsScript(f)  BY StageType, StagePackets DEF StageWrites
  <1> HIDE DEF f
  <1>2. Len(f) = 2 * n /\ 2 * n \in Nat /\ f \in Seq(Packets(f))
    <2>1. f \in Seq(Packets(f))  BY <1>1 DEF IsScript
    <2> DEFINE P == Packets(f)
    <2> HIDE DEF P, n
    <2>2. DOMAIN f = 1..Len(f) /\ Len(f) \in Nat  BY <2>1 DEF P
    <2>3. 2 * n \in Nat  BY <1>1
    <2>4. Len(f) = 2 * n  BY <1>1, <2>2, <2>3
    <2> QED  BY <2>1, <2>3, <2>4
  <1>3. Done(0)
    <2>1. SubSeq(f, 1, 2 * 0) = << >>
      <3>1. 0 \in 0..Len(f) /\ 2 * 0 = 0  BY <1>2
      <3>2. Len(SubSeq(f, 1, 0)) = 0 /\ SubSeq(f, 1, 0) \in Seq(Packets(f))  BY <1>2, <3>1, Prefix
      <3> DEFINE e == SubSeq(f, 1, 0)  P == Packets(f)
      <3> HIDE DEF e, P
      <3>3. e = << >>  BY <3>2 DEF e, P
      <3> QED  BY <3>1, <3>3 DEF e
    <2>2. DpiOf(0) = {}
      <3>1. 0..(0 - 1) = {}  OBVIOUS
      <3> QED  BY <3>1 DEF DpiOf
    <2> QED  BY <2>1, <2>2, NothingMakes
  <1>4. ASSUME NEW j \in Nat, Done(j) PROVE Done(j + 1)
    <2> SUFFICES ASSUME j + 1 <= n PROVE Makes(SubSeq(f, 1, 2 * (j + 1)), DpiOf(j + 1), {}, want)
      OBVIOUS
    <2>1. j < Len(stages) /\ j <= n  BY <1>1
    <2>2. Makes(SubSeq(f, 1, 2 * j), DpiOf(j), {}, want)  BY <1>4, <2>1
    <2> QED  BY <2>1, <2>2, NextStageMakes DEF f
  <1>5. n \in S
    <2>1. 0 \in S  BY <1>3
    <2>2. \A j \in Nat : j \in S => j + 1 \in S  BY <1>4
    <2> HIDE DEF S
    <2>3. Nat \subseteq S  BY <2>1, <2>2, Induction
    <2> QED  BY <1>1, <2>3
  <1>6. Makes(SubSeq(f, 1, 2 * n), DpiOf(n), {}, want)
    <2>1. Done(n)  BY <1>5
    <2>2. n <= n  BY <1>1
    <2> QED  BY <2>1, <2>2
  <1>7. SubSeq(f, 1, 2 * n) = f
    <2>1. SubSeq(f, 1, Len(f)) = f  BY <1>2, WholeIs
    <2> QED  BY <1>2, <2>1
  <1> QED  BY <1>6, <1>7 DEF f

\* A ninth stage is refused.
LEMMA NinthRejected ==
    ASSUME NEW stages, Len(stages) \in Nat, Len(stages) > 8
    PROVE  RejectStep \in Packets(StageWrites(stages))
  <1> DEFINE f == StageWrites(stages)
  <1>1. 8 \in Nat /\ 8 < Len(stages)  OBVIOUS
  <1>2. \E i \in DOMAIN f : f[i] = DpiValueStep(8, stages[8 + 1].value)
    BY <1>1, StageStepsAre
  <1>3. \A v : DpiValueStep(8, v) = RejectStep  BY DEF DpiValueStep
  <1> QED  BY <1>2, <1>3 DEF Packets

DpiAsked(stages) ==
    IF stages = << >> THEN {} ELSE {<<"dpi_count", 0>>, <<"current_dpi_index", 0>>}
                                     \cup DpiOf(Len(stages))

LEMMA DpiWritesMake ==
    ASSUME NEW config \in MouseConfig, NEW stages, stages = config.dpi_stages, NEW want,
           stages # << >> => /\ Wants(want, "dpi_count", 0, Len(stages))
                             /\ Wants(want, "current_dpi_index", 0, config.current_dpi_index)
                             /\ WantsStages(want, stages)
    PROVE  Makes(DpiWrites(config), DpiAsked(stages), {}, want)
  <1> DEFINE n == Len(stages)
             a == set_dpi_count(n % 256)
             b == StageWrites(stages)
             c == set_current_dpi_index(config.current_dpi_index)
  <1>1. n \in Nat  BY StageType
  <1>2. DpiWrites(config) = IF stages = << >> THEN << >> ELSE a \o b \o c  BY DEF DpiWrites
  <1>3. CASE stages = << >>
    <2>1. DpiWrites(config) = << >> /\ DpiAsked(stages) = {}  BY <1>2, <1>3 DEF DpiAsked
    <2> QED  BY <2>1, NothingMakes
  <1>4. CASE stages # << >> /\ n > 8
    <2>1. RejectStep \in Packets(b)  BY <1>1, <1>4, NinthRejected
    <2>2. /\ IsScript(DpiWrites(config))
          /\ Packets(b) \subseteq Packets(DpiWrites(config))
      <3>1. Len(config.dpi_stages) \in Nat /\ config.dpi_stages # << >>  BY <1>1, <1>4
      <3>2. /\ IsScript(DpiWrites(config))
            /\ Packets(DpiWrites(config)) =
                  Packets(set_dpi_count(Len(config.dpi_stages) % 256))
                    \cup Packets(StageWrites(config.dpi_stages))
                    \cup Packets(set_current_dpi_index(config.current_dpi_index))
        BY <3>1, DpiWritesPackets
      <3>3. b = StageWrites(config.dpi_stages)  OBVIOUS
      <3> HIDE DEF b
      <3> QED  BY <3>2, <3>3
    <2> QED  BY <2>1, <2>2 DEF Makes
  <1>5. CASE stages # << >> /\ n <= 8
    <2>0. /\ want[<<"dpi_count", 0>>] = n
          /\ want[<<"current_dpi_index", 0>>] = config.current_dpi_index
          /\ WantsStages(want, stages)
      BY <1>5 DEF Wants
    <2>1. n % 256 = n
      <3>1. \A k \in Nat : k <= 8 => k % 256 = k  OBVIOUS
      <3> HIDE DEF n
      <3> QED  BY <1>1, <1>5, <3>1
    <2>2. Makes(a, {<<"dpi_count", 0>>}, {}, want)  BY <2>0, <2>1, SettersMake
    <2>3. Makes(b, DpiOf(n), {}, want)  BY <1>5, <2>0, StageWritesMake
    <2>4. Makes(c, {<<"current_dpi_index", 0>>}, {}, want)  BY <2>0, SettersMake
    <2> HIDE DEF a, b, c
    <2>5. Makes(a \o b, {<<"dpi_count", 0>>} \cup DpiOf(n), {}, want)  BY <2>2, <2>3, AlsoMakes
    <2>6. Makes(a \o b \o c, {<<"dpi_count", 0>>} \cup DpiOf(n) \cup {<<"current_dpi_index", 0>>},
                {}, want)
      BY <2>4, <2>5, AlsoMakes
    <2>7. {<<"dpi_count", 0>>} \cup DpiOf(n) \cup {<<"current_dpi_index", 0>>} = DpiAsked(stages)
      BY <1>5 DEF DpiAsked
    <2> QED  BY <1>2, <1>5, <2>6, <2>7
  <1>6. n > 8 \/ n <= 8  BY <1>1
  <1> QED  BY <1>3, <1>4, <1>5, <1>6

\* What DpiWrites and the other setters make is all that a configuration asks for.
LEMMA ConfigAsked ==
    ASSUME NEW config \in MouseConfig
    PROVE  /\ {Single(name) : name \in PlainSettings} =
                {<<"polling_rate", 0>>, <<"lift_off_distance", 0>>, <<"sleep_timeout_seconds", 0>>,
                 <<"angle_snapping", 0>>, <<"ripple_control", 0>>, <<"high_speed_mode", 0>>,
                 LongDistance, <<"debounce_time", 0>>, <<"motion_sync", 0>>,
                 <<"moving_off_light_time", 0>>, <<"performance_time", 0>>, <<"sensor_mode", 0>>,
                 <<"sensor_20k", 0>>}
           /\ DOMAIN AskingConfig(config) =
                {Single(name) : name \in PlainSettings} \cup DpiAsked(config.dpi_stages)
  <1> DEFINE stages == config.dpi_stages
             plain == {Single(name) : name \in PlainSettings}
             full == {Single("dpi_count"), Single("current_dpi_index")} \cup DpiOf(Len(stages))
  <1>1. PlainSettings = {"polling_rate", "lift_off_distance", "sleep_timeout_seconds",
                         "angle_snapping", "ripple_control", "high_speed_mode",
                         "long_distance_mode", "debounce_time", "motion_sync",
                         "moving_off_light_time", "performance_time", "sensor_mode", "sensor_20k"}
    BY DEF PlainSettings, DefaultConfig
  <1>2. plain = {<<"polling_rate", 0>>, <<"lift_off_distance", 0>>,
                 <<"sleep_timeout_seconds", 0>>, <<"angle_snapping", 0>>, <<"ripple_control", 0>>,
                 <<"high_speed_mode", 0>>, LongDistance, <<"debounce_time", 0>>,
                 <<"motion_sync", 0>>, <<"moving_off_light_time", 0>>, <<"performance_time", 0>>,
                 <<"sensor_mode", 0>>, <<"sensor_20k", 0>>}
    BY <1>1 DEF LongDistance, Single
  <1>3. DOMAIN PlainAsked(config) = plain  BY PlainAskedIs
  <1>4. DOMAIN AskingDpi(config) = full
    BY DEF AskingDpi, DpiOf
  <1>5. AskingConfig(config) = IF stages = << >> THEN PlainAsked(config)
                               ELSE Both(PlainAsked(config), AskingDpi(config))
    BY DEF AskingConfig, PlainAsked
  <1>6. \A f, g : DOMAIN Both(f, g) = DOMAIN f \cup DOMAIN g  BY DEF Both
  <1>7. DpiAsked(stages) = IF stages = << >> THEN {} ELSE full
    BY DEF DpiAsked, Single
  <1> HIDE DEF plain, full, stages
  <1>8. DOMAIN AskingConfig(config) = plain \cup DpiAsked(stages)
    <2>1. CASE stages = << >>  BY <1>3, <1>5, <1>7, <2>1
    <2>2. CASE stages # << >>  BY <1>3, <1>4, <1>5, <1>6, <1>7, <2>2
    <2> QED  BY <2>1, <2>2
  <1> QED  BY <1>2, <1>8 DEF plain, stages

\* set_config makes all it is asked, and the timeout, which upsets the performance time,
\* is written before it.
LEMMA ConfigMakes ==
    ASSUME NEW config \in MouseConfig
    PROVE  Makes(set_config(config), DOMAIN AskingConfig(config), {}, AskingConfig(config))
  <1> DEFINE want == AskingConfig(config)
             stages == config.dpi_stages
             p   == <<"performance_time", 0>>
             s1  == set_polling_rate(config.polling_rate)
             s2  == set_lift_off_distance(config.lift_off_distance)
             s3  == set_sleep_timeout(config.sleep_timeout_seconds)
             s4  == set_bool(175, config.angle_snapping)
             s5  == set_bool(177, config.ripple_control)
             s6  == set_bool(181, config.high_speed_mode)
             s7  == set_long_distance_mode(config.long_distance_mode)
             s8  == set_debounce_time(config.debounce_time)
             s9  == set_bool(171, config.motion_sync)
             s10 == set_moving_off_light_time(config.moving_off_light_time)
             s11 == set_performance_time(config.performance_time)
             s12 == set_sensor_mode(config.sensor_mode)
             s13 == set_bool(8, config.sensor_20k)
             s14 == DpiWrites(config)
             t2  == s1 \o s2
             t3  == t2 \o s3
             t4  == t3 \o s4
             t5  == t4 \o s5
             t6  == t5 \o s6
             t7  == t6 \o s7
             t8  == t7 \o s8
             t9  == t8 \o s9
             t10 == t9 \o s10
             t11 == t10 \o s11
             t12 == t11 \o s12
             t13 == t12 \o s13
             t14 == t13 \o s14
             X1  == {<<"polling_rate", 0>>}
             X2  == X1 \cup {<<"lift_off_distance", 0>>}
             X3  == X2 \cup {<<"sleep_timeout_seconds", 0>>}
             X4  == X3 \cup {<<"angle_snapping", 0>>}
             X5  == X4 \cup {<<"ripple_control", 0>>}
             X6  == X5 \cup {<<"high_speed_mode", 0>>}
             X7  == X6 \cup {LongDistance}
             X8  == X7 \cup {<<"debounce_time", 0>>}
             X9  == X8 \cup {<<"motion_sync", 0>>}
             X10 == X9 \cup {<<"moving_off_light_time", 0>>}
             X11 == X10 \cup {p}
             X12 == X11 \cup {<<"sensor_mode", 0>>}
             X13 == X12 \cup {<<"sensor_20k", 0>>}
             X14 == X13 \cup DpiAsked(stages)
  <1>1. set_config(config) = t14
    BY DEF set_config, OFFSET_ANGLE_SNAPPING, OFFSET_RIPPLE_CONTROL, OFFSET_HIGH_SPEED_MODE,
       OFFSET_MOTION_SYNC, OFFSET_SENSOR_20K
  <1>2. Len(stages) \in Nat  BY StageType
  <1>3. /\ Wants(want, "sleep_timeout_seconds", 0, TensOf(config.sleep_timeout_seconds))
        /\ \A name \in PlainSettings \ {"sleep_timeout_seconds"} :
             Wants(want, name, 0, config[name])
        /\ stages # << >> =>
             /\ Wants(want, "dpi_count", 0, Len(stages))
             /\ Wants(want, "current_dpi_index", 0, config.current_dpi_index)
             /\ WantsStages(want, stages)
    BY <1>2, AskingConfigIs DEF WantsStages
  <1>4. {"polling_rate", "lift_off_distance", "angle_snapping", "ripple_control",
         "high_speed_mode", "long_distance_mode", "debounce_time", "motion_sync",
         "moving_off_light_time", "performance_time", "sensor_mode", "sensor_20k"}
           \subseteq PlainSettings \ {"sleep_timeout_seconds"}
    BY DEF PlainSettings, DefaultConfig
  <1> HIDE DEF want
  <1>5. /\ want[<<"polling_rate", 0>>] = config.polling_rate
        /\ want[<<"lift_off_distance", 0>>] = config.lift_off_distance
        /\ want[<<"sleep_timeout_seconds", 0>>] = TensOf(config.sleep_timeout_seconds)
        /\ want[<<"angle_snapping", 0>>] = config.angle_snapping
        /\ want[<<"ripple_control", 0>>] = config.ripple_control
        /\ want[<<"high_speed_mode", 0>>] = config.high_speed_mode
        /\ want[LongDistance] = config.long_distance_mode
        /\ want[<<"debounce_time", 0>>] = config.debounce_time
        /\ want[<<"motion_sync", 0>>] = config.motion_sync
        /\ want[<<"moving_off_light_time", 0>>] = config.moving_off_light_time
        /\ want[p] = config.performance_time
        /\ want[<<"sensor_mode", 0>>] = config.sensor_mode
        /\ want[<<"sensor_20k", 0>>] = config.sensor_20k
    BY <1>3, <1>4 DEF Wants, LongDistance, Single
  <1>6. /\ config.polling_rate \in PollingRate /\ config.lift_off_distance \in LiftOffDistance
        /\ config.performance_time \in SleepTime /\ config.sensor_mode \in SensorMode
        /\ config.sleep_timeout_seconds \in Nat
        /\ config.angle_snapping \in BOOLEAN /\ config.ripple_control \in BOOLEAN
        /\ config.high_speed_mode \in BOOLEAN /\ config.long_distance_mode \in BOOLEAN
        /\ config.motion_sync \in BOOLEAN /\ config.sensor_20k \in BOOLEAN
    BY ConfigFields
  <1>7. /\ Makes(s1, X1, {}, want) /\ Makes(s2, {<<"lift_off_distance", 0>>}, {}, want)
        /\ Makes(s7, {LongDistance}, {}, want) /\ Makes(s8, {<<"debounce_time", 0>>}, {}, want)
        /\ Makes(s10, {<<"moving_off_light_time", 0>>}, {}, want)
        /\ Makes(s11, {p}, {}, want) /\ Makes(s12, {<<"sensor_mode", 0>>}, {}, want)
    BY <1>5, <1>6, SettersMake
  <1>8. Makes(s3, {<<"sleep_timeout_seconds", 0>>}, {p}, want)  BY <1>5, <1>6, TimeoutMakes
  <1>9. /\ Makes(s4, {<<"angle_snapping", 0>>}, {}, want)
        /\ Makes(s5, {<<"ripple_control", 0>>}, {}, want)
        /\ Makes(s6, {<<"high_speed_mode", 0>>}, {}, want)
        /\ Makes(s9, {<<"motion_sync", 0>>}, {}, want)
        /\ Makes(s13, {<<"sensor_20k", 0>>}, {}, want)
    <2> DEFINE Five == {"angle_snapping", "ripple_control", "high_speed_mode", "motion_sync",
                        "sensor_20k"}
    <2>1. Five \subseteq FlagSettings  BY DEF FlagSettings
    <2>2. ASSUME NEW name \in Five
          PROVE  config[name] \in BOOLEAN /\ want[<<name, 0>>] = config[name]
      BY <1>5, <1>6
    <2>3. ASSUME NEW name \in Five
          PROVE  Makes(set_bool(Offsets[name], config[name]), {<<name, 0>>}, {}, want)
      <3> HIDE DEF Five
      <3> QED  BY <2>1, <2>2, <2>3, SettersMake
    <2>4. /\ s4 = set_bool(Offsets["angle_snapping"], config["angle_snapping"])
          /\ s5 = set_bool(Offsets["ripple_control"], config["ripple_control"])
          /\ s6 = set_bool(Offsets["high_speed_mode"], config["high_speed_mode"])
          /\ s9 = set_bool(Offsets["motion_sync"], config["motion_sync"])
          /\ s13 = set_bool(Offsets["sensor_20k"], config["sensor_20k"])
      BY OffsetsAre
    <2> HIDE DEF s4, s5, s6, s9, s13
    <2> QED  BY <2>3, <2>4
  <1>10. Makes(s14, DpiAsked(stages), {}, want)  BY <1>3, DpiWritesMake
  <1> HIDE DEF s1, s2, s3, s4, s5, s6, s7, s8, s9, s10, s11, s12, s13, s14, stages
  <1> DEFINE P == {p}
  <1>11. Makes(t2, X2, {}, want)  BY <1>7, AlsoMakes
  <1>12. X2 \cap P = {}  OBVIOUS
  <1> HIDE DEF t2, X2, P
  <1>13. Makes(t3, X3, P, want)
    <2> DEFINE Y == {<<"sleep_timeout_seconds", 0>>}
    <2>1. Makes(s3, Y, P, want)  BY <1>8 DEF P
    <2> HIDE DEF Y
    <2>2. ({} \ Y) \cup P \subseteq P  OBVIOUS
    <2>3. Makes(t2 \o s3, X2 \cup Y, P, want)  BY <1>11, <1>12, <2>1, <2>2, ThenMakes
    <2> QED  BY <2>3 DEF Y
  <1> HIDE DEF t3, X3
  <1>14. Makes(t4, X4, P, want)  BY <1>9, <1>13, GoesOnMaking
  <1> HIDE DEF t4, X4
  <1>15. Makes(t5, X5, P, want)  BY <1>9, <1>14, GoesOnMaking
  <1> HIDE DEF t5, X5
  <1>16. Makes(t6, X6, P, want)  BY <1>9, <1>15, GoesOnMaking
  <1> HIDE DEF t6, X6
  <1>17. Makes(t7, X7, P, want)  BY <1>7, <1>16, GoesOnMaking
  <1> HIDE DEF t7, X7
  <1>18. Makes(t8, X8, P, want)  BY <1>7, <1>17, GoesOnMaking
  <1> HIDE DEF t8, X8
  <1>19. Makes(t9, X9, P, want)  BY <1>9, <1>18, GoesOnMaking
  <1> HIDE DEF t9, X9
  <1>20. Makes(t10, X10, P, want)  BY <1>7, <1>19, GoesOnMaking
  <1> HIDE DEF t10, X10
  <1>21. Makes(t11, X11, {}, want)
    <2>1. Makes(s11, P, {}, want)  BY <1>7 DEF P
    <2>2. X10 \cap {} = {} /\ (P \ P) \cup {} \subseteq {}  OBVIOUS
    <2>3. Makes(t10 \o s11, X10 \cup P, {}, want)  BY <1>20, <2>1, <2>2, ThenMakes
    <2> QED  BY <2>3 DEF P
  <1> HIDE DEF t11, X11
  <1>22. Makes(t12, X12, {}, want)  BY <1>7, <1>21, AlsoMakes
  <1> HIDE DEF t12, X12
  <1>23. Makes(t13, X13, {}, want)  BY <1>9, <1>22, AlsoMakes
  <1> HIDE DEF t13, X13
  <1>24. Makes(t14, X14, {}, want)  BY <1>10, <1>23, AlsoMakes
  <1>25. X14 = DOMAIN want
    <2> DEFINE plain == {Single(name) : name \in PlainSettings}
    <2>1. X13 = plain
      BY ConfigAsked DEF X2, X3, X4, X5, X6, X7, X8, X9, X10, X11, X12, X13
    <2>2. DOMAIN want = plain \cup DpiAsked(stages)  BY ConfigAsked DEF want, stages
    <2> QED  BY <2>1, <2>2
  <1> QED  BY <1>1, <1>24, <1>25 DEF want

-----------------------------------------------------------------------------
(* Every call turns the settings it asks for into what it asks, and leaves the others. *)

Turns(script, want) == Makes(script, DOMAIN want, {}, want)

\* Slots hold so much; what is longer is cut, and a zero byte ends a name.
RequestsFit ==
    /\ \A events \in Shortcuts : Len(events) <= MAX_SHORTCUT_EVENTS
    /\ \A macro \in Macros : /\ macro.name \in Seq(1..255) /\ Len(macro.name) <= 30
                             /\ Len(macro.events) <= 70

LEMMA AskingIs ==
    ASSUME NEW name, NEW k, NEW v
    PROVE  DOMAIN Asking(name, k, v) = {<<name, k>>} /\ Asking(name, k, v)[<<name, k>>] = v
  BY DEF Asking

LEMMA RefusalTurns ==
    /\ \A want : Turns(Reject, want)
    /\ \A wrong, script, want : (~wrong => Turns(script, want))
                               => Turns(Unless(wrong, script), want)
  BY RejectMakes, UnlessMakes DEF Turns

LEMMA TimeoutTurns ==
    ASSUME NEW seconds \in Nat
    PROVE  Turns(set_sleep_timeout(seconds), AskingTimeout(seconds))
  <1> DEFINE s == <<"sleep_timeout_seconds", 0>>
             p == <<"performance_time", 0>>
             v == TensOf(seconds)
             w == OrElse(FromCode(SleepTimeCode, seconds \div 10), 10)
             want == AskingTimeout(seconds)
  <1>1. s # p  OBVIOUS
  <1>2. /\ DOMAIN Asking("sleep_timeout_seconds", 0, v) = {s}
        /\ DOMAIN Asking("performance_time", 0, w) = {p}
        /\ Asking("sleep_timeout_seconds", 0, v)[s] = v /\ Asking("performance_time", 0, w)[p] = w
    BY DEF Asking
  <1>3. want = Both(Asking("sleep_timeout_seconds", 0, v), Asking("performance_time", 0, w))
    BY DEF AskingTimeout
  <1> HIDE DEF s, p, v, w, want
  <1>4. DOMAIN want = {s, p} /\ want[s] = v /\ want[p] = w  BY <1>1, <1>2, <1>3 DEF Both
  <1>5. Makes(set_sleep_timeout(seconds), {s, p}, {}, want)  BY <1>4, TimeoutMakes DEF s, p, v, w
  <1> QED  BY <1>4, <1>5 DEF Turns, want

LEMMA DpiTurns ==
    ASSUME NEW stage \in Nat, NEW want
    PROVE  /\ \A dpi : want[<<"dpi_value", stage>>] = RoundedDpi(dpi)
                => Makes(set_dpi_value(stage, dpi), {<<"dpi_value", stage>>}, {}, want)
           /\ \A color \in Color : want[<<"dpi_color", stage>>] = color
                => Makes(set_dpi_color(stage, color), {<<"dpi_color", stage>>}, {}, want)
           /\ \A f \in KeyFunction : want[<<"key_function", stage>>] = f
                => Makes(set_key_function(stage, f), {<<"key_function", stage>>}, {}, want)
  <1>0. {"dpi_value", "dpi_color", "key_function"} \subseteq FourSettings  BY DEF FourSettings
  <1>1. CASE stage >= 8
    <2>1. /\ \A dpi : set_dpi_value(stage, dpi) = Reject
          /\ \A color : set_dpi_color(stage, color) = Reject
          /\ \A f : set_key_function(stage, f) = Reject
      BY <1>1 DEF set_dpi_value, set_dpi_color, set_key_function, Unless
    <2> QED  BY <2>1, RejectMakes
  <1>2. CASE ~(stage >= 8)
    <2>1. stage \in 0..7  BY <1>2
    <2>2. ASSUME NEW dpi, want[<<"dpi_value", stage>>] = RoundedDpi(dpi)
          PROVE  Makes(set_dpi_value(stage, dpi), {<<"dpi_value", stage>>}, {}, want)
      <3> DEFINE step == DpiValueStep(stage, dpi)
      <3>1. set_dpi_value(stage, dpi) = <<step>>
        BY DEF set_dpi_value, DpiValueStep, Unless, WriteFlash, FlashStep, Reject, RejectStep,
               OFFSET_DPI_VALUES
      <3>2. FourStep(step, "dpi_value", stage, RoundedDpi(dpi))  BY DpiValueStepIs
      <3> HIDE DEF step
      <3>3. Makes(<<step>>, {<<"dpi_value", stage>>}, {}, want)
        BY <1>0, <2>1, <2>2, <3>2, FourStepMakes
      <3> QED  BY <3>1, <3>3
    <2>3. ASSUME NEW color \in Color, want[<<"dpi_color", stage>>] = color
          PROVE  Makes(set_dpi_color(stage, color), {<<"dpi_color", stage>>}, {}, want)
      <3> DEFINE step == DpiColorStep(stage, color)
      <3>1. set_dpi_color(stage, color) = <<step>>
        BY DEF set_dpi_color, DpiColorStep, Unless, WriteFlash, FlashStep, Reject, RejectStep,
               OFFSET_DPI_COLORS
      <3>2. FourStep(step, "dpi_color", stage, color)  BY DpiColorStepIs
      <3> HIDE DEF step
      <3>3. Makes(<<step>>, {<<"dpi_color", stage>>}, {}, want)
        BY <1>0, <2>1, <2>3, <3>2, FourStepMakes
      <3> QED  BY <3>1, <3>3
    <2>4. ASSUME NEW f \in KeyFunction, want[<<"key_function", stage>>] = f
          PROVE  Makes(set_key_function(stage, f), {<<"key_function", stage>>}, {}, want)
      <3> DEFINE step == FlashStep(96 + 4 * stage, EncodeKey(f))
      <3>1. set_key_function(stage, f) = <<step>>
        BY <1>2 DEF set_key_function, Unless, WriteFlash, FlashStep, OFFSET_KEY_FUNCTIONS
      <3>2. FourStep(step, "key_function", stage, f)  BY KeyStepIs
      <3> HIDE DEF step
      <3>3. Makes(<<step>>, {<<"key_function", stage>>}, {}, want)
        BY <1>0, <2>1, <2>4, <3>2, FourStepMakes
      <3> QED  BY <3>1, <3>3
    <2> QED  BY <2>2, <2>3, <2>4
  <1> QED  BY <1>1, <1>2

\* A call that is what it should be.
GoodCall == \E script, want : Call(script, want) /\ Turns(script, want)

LEMMA DaemonTurns == ASSUME Inv, DaemonCall PROVE GoodCall
  <1>0. \A script, want : Call(script, want) /\ Turns(script, want) => GoodCall  BY DEF GoodCall
  <1>1. ASSUME NEW proto \in Protos, SetConfig(proto) PROVE GoodCall
    <2> DEFINE config == ConfigFromProto(proto)
    <2>1. CASE config = Invalid
      BY <1>0, <1>1, <2>1, RefusalTurns DEF SetConfig
    <2>2. CASE config # Invalid
      <3>1. /\ proto.switches \in [Switches -> BOOLEAN]
            /\ proto.dpi_stages \in Seq([value : Nat, color : Nat \X Nat \X Nat])
            /\ proto.current_dpi_index \in Nat /\ proto.sleep_timeout_seconds \in Nat
        BY RequestsAssumption
      <3>2. /\ RateFromProto(proto.polling_rate) # Invalid
            /\ LodFromProto(proto.lift_off_distance) # Invalid
            /\ StagesFromProto(proto.dpi_stages) # Invalid
            /\ TryU8(proto.current_dpi_index) # Invalid
        BY <2>2 DEF ConfigFromProto
      <3>3. config \in MouseConfig  BY <3>1, <3>2, ConvertedIsConfig
      <3>4. Call(set_config(config), AskingConfig(config))  BY <1>1, <2>2 DEF SetConfig
      <3> HIDE DEF config
      <3>5. Turns(set_config(config), AskingConfig(config))  BY <3>3, ConfigMakes DEF Turns
      <3> QED  BY <1>0, <3>4, <3>5
    <2> QED  BY <2>1, <2>2
  <1>2. ASSUME NEW n \in Numbers, SetPollingRate(n) PROVE GoodCall
    <2> DEFINE rate == RateFromProto(n)
               want == Asking("polling_rate", 0, rate)
    <2>1. rate # Invalid => rate \in PollingRate
      BY DEF RateFromProto, RatesAscending, PollingRate, PollingRateCode
    <2>2. Call(IF rate = Invalid THEN Reject ELSE set_polling_rate(rate), want)
      BY <1>2 DEF SetPollingRate
    <2> HIDE DEF rate
    <2>3. DOMAIN want = {<<"polling_rate", 0>>} /\ want[<<"polling_rate", 0>>] = rate
      BY AskingIs
    <2> HIDE DEF want
    <2>4. rate # Invalid => Makes(set_polling_rate(rate), {<<"polling_rate", 0>>}, {}, want)
      BY <2>1, <2>3, SettersMake
    <2>5. rate # Invalid => Turns(set_polling_rate(rate), want)  BY <2>3, <2>4 DEF Turns
    <2> QED  BY <1>0, <2>2, <2>5, RefusalTurns
  <1>3. ASSUME NEW n \in Numbers, SetLiftOffDistance(n) PROVE GoodCall
    <2> DEFINE lod == LodFromProto(n)
               want == Asking("lift_off_distance", 0, lod)
    <2>1. lod # Invalid => lod \in LiftOffDistance
      BY DEF LodFromProto, LodAscending, LiftOffDistance, LiftOffCode
    <2>2. Call(IF lod = Invalid THEN Reject ELSE set_lift_off_distance(lod), want)
      BY <1>3 DEF SetLiftOffDistance
    <2> HIDE DEF lod
    <2>3. DOMAIN want = {<<"lift_off_distance", 0>>} /\ want[<<"lift_off_distance", 0>>] = lod
      BY AskingIs
    <2> HIDE DEF want
    <2>4. lod # Invalid
            => Makes(set_lift_off_distance(lod), {<<"lift_off_distance", 0>>}, {}, want)
      BY <2>1, <2>3, SettersMake
    <2>5. lod # Invalid => Turns(set_lift_off_distance(lod), want)  BY <2>3, <2>4 DEF Turns
    <2> QED  BY <1>0, <2>2, <2>5, RefusalTurns
  <1>4. ASSUME NEW n \in Numbers, SetSleepTimeout(n) PROVE GoodCall
    <2> DEFINE s == AsU16(n)
    <2>1. s \in Nat
      <3>1. n \in Nat  BY RequestsAssumption
      <3>2. AsU16(n) \in Word  BY <3>1, Narrow
      <3>3. Word \subseteq Nat  BY Widths
      <3> QED  BY <3>2, <3>3
    <2>2. Call(set_sleep_timeout(s), AskingTimeout(s))  BY <1>4 DEF SetSleepTimeout
    <2> HIDE DEF s
    <2> QED  BY <1>0, <2>1, <2>2, TimeoutTurns
  <1>5. ASSUME NEW n \in Numbers, SetCurrentDpiIndex(n) PROVE GoodCall
    <2> DEFINE want == Asking("current_dpi_index", 0, n)
    <2>1. Call(Unless(TryU8(n) = Invalid, set_current_dpi_index(n)), want)
      BY <1>5 DEF SetCurrentDpiIndex
    <2>2. DOMAIN want = {<<"current_dpi_index", 0>>} /\ want[<<"current_dpi_index", 0>>] = n
      BY AskingIs
    <2> HIDE DEF want
    <2>3. Makes(set_current_dpi_index(n), {<<"current_dpi_index", 0>>}, {}, want)
      BY <2>2, SettersMake
    <2>4. Turns(set_current_dpi_index(n), want)  BY <2>2, <2>3 DEF Turns
    <2> QED  BY <1>0, <2>1, <2>4, RefusalTurns
  <1>6. ASSUME NEW n \in Numbers, SetDpiCount(n) PROVE GoodCall
    <2> DEFINE want == Asking("dpi_count", 0, n)
    <2>1. Call(Unless(TryU8(n) = Invalid, set_dpi_count(n)), want)  BY <1>6 DEF SetDpiCount
    <2>2. DOMAIN want = {<<"dpi_count", 0>>} /\ want[<<"dpi_count", 0>>] = n
      BY AskingIs
    <2> HIDE DEF want
    <2>3. Makes(set_dpi_count(n), {<<"dpi_count", 0>>}, {}, want)  BY <2>2, SettersMake
    <2>4. Turns(set_dpi_count(n), want)  BY <2>2, <2>3 DEF Turns
    <2> QED  BY <1>0, <2>1, <2>4, RefusalTurns
  <1>7. ASSUME NEW n \in Numbers, NEW option \in StageOptions, SetDpiValue(n, option) PROVE GoodCall
    <2> DEFINE stage == StageOf(option)
               want  == Asking("dpi_value", stage, RoundedDpi(n))
    <2>1. stage \in Nat  BY StageNatural
    <2>2. Call(Unless(Invalid \in {TryU16(n), TryU8(stage)}, set_dpi_value(stage, n)), want)
      BY <1>7 DEF SetDpiValue
    <2> HIDE DEF stage
    <2>3. DOMAIN want = {<<"dpi_value", stage>>} /\ want[<<"dpi_value", stage>>] = RoundedDpi(n)
      BY AskingIs
    <2> HIDE DEF want
    <2>4. Makes(set_dpi_value(stage, n), {<<"dpi_value", stage>>}, {}, want)
      BY <2>1, <2>3, DpiTurns
    <2>5. Turns(set_dpi_value(stage, n), want)  BY <2>3, <2>4 DEF Turns
    <2> QED  BY <1>0, <2>2, <2>5, RefusalTurns
  <1>8. ASSUME NEW color \in Colors, NEW option \in StageOptions, SetDpiColor(color, option)
        PROVE  GoodCall
    <2> DEFINE stage == StageOf(option)
               want  == Asking("dpi_color", stage, color)
               wrong == Invalid \in {TryU8(stage)} \cup {TryU8(color[i]) : i \in 1..3}
    <2>1. ~wrong => color \in Color
      <3>1. PICK r \in Nat, g \in Nat, b \in Nat : color = <<r, g, b>>  BY RequestsAssumption
      <3>2. color[1] = r /\ color[2] = g /\ color[3] = b  BY <3>1
      <3>3. ~wrong => \A i \in 1..3 : TryU8(color[i]) # Invalid  OBVIOUS
      <3>4. ~wrong => TryU8(r) # Invalid /\ TryU8(g) # Invalid /\ TryU8(b) # Invalid
        BY <3>2, <3>3
      <3>5. ~wrong => r \in Byte /\ g \in Byte /\ b \in Byte  BY <3>4, Narrow
      <3> QED  BY <3>1, <3>5 DEF Color
    <2>2. stage \in Nat  BY StageNatural
    <2>3. Call(Unless(wrong, set_dpi_color(stage, color)), want)  BY <1>8 DEF SetDpiColor
    <2> HIDE DEF stage, wrong
    <2>4. DOMAIN want = {<<"dpi_color", stage>>} /\ want[<<"dpi_color", stage>>] = color
      BY AskingIs
    <2> HIDE DEF want
    <2>5. ~wrong => Makes(set_dpi_color(stage, color), {<<"dpi_color", stage>>}, {}, want)
      BY <2>1, <2>2, <2>4, DpiTurns
    <2>6. ~wrong => Turns(set_dpi_color(stage, color), want)  BY <2>4, <2>5 DEF Turns
    <2> QED  BY <1>0, <2>3, <2>6, RefusalTurns
  <1>9. ASSUME NEW on \in BOOLEAN,
               SetAngleSnapping(on) \/ SetRippleControl(on) \/ SetHighSpeedMode(on)
        PROVE  GoodCall
    <2>1. PICK name \in {"angle_snapping", "ripple_control", "high_speed_mode"} :
            Call(set_bool(Offsets[name], on), Asking(name, 0, on))
      BY <1>9, OffsetsAre DEF SetAngleSnapping, SetRippleControl, SetHighSpeedMode,
         OFFSET_ANGLE_SNAPPING, OFFSET_RIPPLE_CONTROL, OFFSET_HIGH_SPEED_MODE
    <2> DEFINE want == Asking(name, 0, on)
    <2>2. name \in FlagSettings  BY DEF FlagSettings
    <2>3. DOMAIN want = {<<name, 0>>} /\ want[<<name, 0>>] = on  BY AskingIs
    <2>4. Call(set_bool(Offsets[name], on), want)  BY <2>1
    <2> HIDE DEF want
    <2>5. Makes(set_bool(Offsets[name], on), {<<name, 0>>}, {}, want)
      BY <2>2, <2>3, SettersMake
    <2>6. Turns(set_bool(Offsets[name], on), want)  BY <2>3, <2>5 DEF Turns
    <2> QED  BY <1>0, <2>4, <2>6
  <1>10. ASSUME NEW on \in BOOLEAN, SetLongDistanceMode(on) PROVE GoodCall
    <2> DEFINE want == Asking("long_distance_mode", 0, on)
    <2>1. Call(set_long_distance_mode(on), want)  BY <1>10 DEF SetLongDistanceMode
    <2>2. LongDistance = <<"long_distance_mode", 0>>  BY DEF LongDistance, Single
    <2>3. DOMAIN want = {LongDistance} /\ want[LongDistance] = on
      BY <2>2, AskingIs
    <2> HIDE DEF want
    <2>4. Makes(set_long_distance_mode(on), {LongDistance}, {}, want)  BY <2>3, SettersMake
    <2>5. Turns(set_long_distance_mode(on), want)  BY <2>3, <2>4 DEF Turns
    <2> QED  BY <1>0, <2>1, <2>5
  <1> QED  BY <1>1, <1>2, <1>3, <1>4, <1>5, <1>6, <1>7, <1>8, <1>9, <1>10 DEF DaemonCall

\* A call of one setting.
LEMMA OneTurns ==
    ASSUME NEW name, NEW k, NEW v, NEW script, Call(script, Asking(name, k, v)),
           \A want : want[<<name, k>>] = v => Makes(script, {<<name, k>>}, {}, want)
    PROVE  GoodCall
  <1> DEFINE want == Asking(name, k, v)
  <1>1. Call(script, want)  OBVIOUS
  <1>2. DOMAIN want = {<<name, k>>} /\ want[<<name, k>>] = v  BY AskingIs
  <1> HIDE DEF want
  <1>3. Turns(script, want)  BY <1>2 DEF Turns
  <1> QED  BY <1>1, <1>3 DEF GoodCall

\* A reset makes every setting in the memory what the memory of the factory says.
LEMMA ResetTurns ==
    ASSUME Inv
    PROVE  Turns(factory_reset,
                 Readings([device EXCEPT !.memory = Factory],
                          Setting \ {Single("long_distance_mode"), Single("profile")}))
  <1> DEFINE fresh == [device EXCEPT !.memory = Factory]
             X     == Setting \ {LongDistance, Profile}
             want  == Readings(fresh, X)
  <1>1. /\ DOMAIN want = X
        /\ \A s \in X : want[s] = Got(fresh, get_config(fresh), s)
    BY DEF Readings
  <1>2. fresh.memory = Factory /\ AcceptableIn(fresh.memory)  BY FactoryAssumption DEF Inv
  <1> HIDE DEF fresh, want
  <1>3. ASSUME NEW s \in X PROVE want[s] = MemorySeen(Factory, s)
    <2>1. s \in Setting /\ s \in Located  BY <1>3, SeenIs
    <2>2. want[s] = Seen(fresh, s)  BY <1>1, <1>2, <1>3, <2>1, GotSeen
    <2>3. Seen(fresh, s) = MemorySeen(Factory, s)  BY <1>2, <2>1, SeenIs
    <2> QED  BY <2>2, <2>3
  <1>4. Makes(factory_reset, X, {}, want)  BY <1>3, ResetMakes
  <1>5. Turns(factory_reset, want)  BY <1>1, <1>4 DEF Turns
  <1> QED  BY <1>5 DEF want, fresh, LongDistance, Profile

LEMMA LibraryTurns == ASSUME RequestsFit, Inv, LibraryCall PROVE GoodCall
  <1>0. \A script, want : Call(script, want) /\ Turns(script, want) => GoodCall  BY DEF GoodCall
  <1>1. ASSUME NEW config \in Configs, ApplyConfig(config) PROVE GoodCall
    <2>1. config \in MouseConfig  BY RequestsAssumption
    <2>2. Turns(set_config(config), AskingConfig(config))  BY <2>1, ConfigMakes DEF Turns
    <2> QED  BY <1>0, <1>1, <2>2 DEF ApplyConfig
  <1>2. ASSUME NEW on \in BOOLEAN, SetMotionSync(on) \/ SetSensor20kMode(on) PROVE GoodCall
    <2>1. PICK name \in {"motion_sync", "sensor_20k"} :
            Call(set_bool(Offsets[name], on), Asking(name, 0, on))
      BY <1>2, OffsetsAre DEF SetMotionSync, SetSensor20kMode,
         OFFSET_MOTION_SYNC, OFFSET_SENSOR_20K
    <2>2. name \in FlagSettings  BY DEF FlagSettings
    <2>3. ASSUME NEW want, want[<<name, 0>>] = on
          PROVE  Makes(set_bool(Offsets[name], on), {<<name, 0>>}, {}, want)
      BY <2>2, <2>3, SettersMake
    <2> QED  BY <2>1, <2>3, OneTurns
  <1>3. ASSUME NEW ms, SetDebounceTime(ms) PROVE GoodCall
    <2>1. ASSUME NEW want, want[<<"debounce_time", 0>>] = ms
          PROVE  Makes(set_debounce_time(ms), {<<"debounce_time", 0>>}, {}, want)
      BY <2>1, SettersMake
    <2>2. Call(set_debounce_time(ms), Asking("debounce_time", 0, ms))  BY <1>3 DEF SetDebounceTime
    <2> QED  BY <2>1, <2>2, OneTurns
  <1>4. ASSUME NEW time, SetMovingOffLightTime(time) PROVE GoodCall
    <2>1. ASSUME NEW want, want[<<"moving_off_light_time", 0>>] = time
          PROVE  Makes(set_moving_off_light_time(time), {<<"moving_off_light_time", 0>>}, {}, want)
      BY <2>1, SettersMake
    <2>2. Call(set_moving_off_light_time(time), Asking("moving_off_light_time", 0, time))
      BY <1>4 DEF SetMovingOffLightTime
    <2> QED  BY <2>1, <2>2, OneTurns
  <1>5. ASSUME NEW p, SetCurrentProfile(p) PROVE GoodCall
    <2>0. Profile = <<"profile", 0>>  BY DEF Profile, Single
    <2>1. ASSUME NEW want, want[<<"profile", 0>>] = p
          PROVE  Makes(set_current_profile(p), {<<"profile", 0>>}, {}, want)
      BY <2>1, <2>0, SettersMake
    <2>2. Call(set_current_profile(p), Asking("profile", 0, p))  BY <1>5 DEF SetCurrentProfile
    <2> QED  BY <2>1, <2>2, OneTurns
  <1>6. ASSUME NEW mode \in SensorMode, SetSensorMode(mode) PROVE GoodCall
    <2>1. ASSUME NEW want, want[<<"sensor_mode", 0>>] = mode
          PROVE  Makes(set_sensor_mode(mode), {<<"sensor_mode", 0>>}, {}, want)
      BY <2>1, SettersMake
    <2>2. Call(set_sensor_mode(mode), Asking("sensor_mode", 0, mode))  BY <1>6 DEF SetSensorMode
    <2> QED  BY <2>1, <2>2, OneTurns
  <1>7. ASSUME NEW time \in SleepTime, SetPerformanceTime(time) PROVE GoodCall
    <2>1. ASSUME NEW want, want[<<"performance_time", 0>>] = time
          PROVE  Makes(set_performance_time(time), {<<"performance_time", 0>>}, {}, want)
      BY <2>1, SettersMake
    <2>2. Call(set_performance_time(time), Asking("performance_time", 0, time))
      BY <1>7 DEF SetPerformanceTime
    <2> QED  BY <2>1, <2>2, OneTurns
  <1>8. ASSUME NEW light \in Lights, SetLightSettings(light) PROVE GoodCall
    <2>1. light \in [mode : LightMode, color : Color, speed : Byte, brightness : Byte,
                     enabled : BOOLEAN]
      BY ValuesAssumption
    <2>2. ASSUME NEW want, want[<<"light", 0>>] = light
          PROVE  Makes(set_light_settings(light), {<<"light", 0>>}, {}, want)
      BY <2>1, <2>2, LightMakes
    <2>3. Call(set_light_settings(light), Asking("light", 0, light))
      BY <1>8 DEF SetLightSettings
    <2> QED  BY <2>2, <2>3, OneTurns
  <1>9. ASSUME NEW effect \in Effects, SetDpiEffect(effect) PROVE GoodCall
    <2> DEFINE shown == [effect EXCEPT !.brightness = Clamp(@, 1, 10), !.speed = Clamp(@, 1, 10)]
    <2>1. effect \in [mode : DpiEffectMode, brightness : Byte, speed : Byte, enabled : BOOLEAN]
      BY ValuesAssumption
    <2>2. ASSUME NEW want, want[<<"dpi_effect", 0>>] = shown
          PROVE  Makes(set_dpi_effect_settings(effect), {<<"dpi_effect", 0>>}, {}, want)
      BY <2>1, <2>2, EffectMakes
    <2>3. Call(set_dpi_effect_settings(effect), Asking("dpi_effect", 0, shown))
      BY <1>9 DEF SetDpiEffect
    <2> HIDE DEF shown
    <2> QED  BY <2>2, <2>3, OneTurns
  <1>10. ASSUME NEW index \in Stages \cup {8}, NEW key \in Keys, SetKeyFunction(index, key)
         PROVE  GoodCall
    <2>1. index \in Nat /\ key \in KeyFunction  BY IndicesAre, RequestsAssumption
    <2>2. ASSUME NEW want, want[<<"key_function", index>>] = key
          PROVE  Makes(set_key_function(index, key), {<<"key_function", index>>}, {}, want)
      BY <2>1, <2>2, DpiTurns
    <2>3. Call(set_key_function(index, key), Asking("key_function", index, key))
      BY <1>10 DEF SetKeyFunction
    <2> QED  BY <2>2, <2>3, OneTurns
  <1>11. ASSUME NEW slot \in Slots \cup {8}, NEW events \in Shortcuts,
                SetShortcutKey(slot, events)
         PROVE  GoodCall
    <2>1. slot \in Nat /\ events \in Seq(ShortcutEvent)  BY IndicesAre, ValuesAssumption
    <2>2. Len(events) <= MAX_SHORTCUT_EVENTS  BY DEF RequestsFit
    <2>3. ASSUME NEW want, want[<<"shortcut", slot>>] = events
          PROVE  Makes(set_shortcut_key(slot, events), {<<"shortcut", slot>>}, {}, want)
      BY <2>1, <2>2, <2>3, ShortcutMakes
    <2>4. Call(set_shortcut_key(slot, events), Asking("shortcut", slot, events))
      BY <1>11 DEF SetShortcutKey
    <2> QED  BY <2>3, <2>4, OneTurns
  <1>12. ASSUME NEW slot \in Slots \cup {8}, NEW macro \in Macros, SetMacro(slot, macro)
         PROVE  GoodCall
    <2>1. /\ slot \in Nat /\ macro \in [name : Seq(Byte), events : Seq(MacroEvent)]
          /\ IsText(macro.name)
      BY IndicesAre, ValuesAssumption
    <2>2. /\ macro.name \in Seq(1..255) /\ Len(macro.name) <= 30
          /\ Len(macro.events) <= 70
      BY DEF RequestsFit
    <2>3. ASSUME NEW want, want[<<"macro", slot>>] = macro
          PROVE  Makes(set_macro(slot, macro), {<<"macro", slot>>}, {}, want)
      BY <2>1, <2>2, <2>3, MacroMakes
    <2>4. Call(set_macro(slot, macro), Asking("macro", slot, macro))  BY <1>12 DEF SetMacro
    <2> QED  BY <2>3, <2>4, OneTurns
  <1>13. ASSUME FactoryReset PROVE GoodCall
    BY <1>0, <1>13, ResetTurns DEF FactoryReset
  <1> QED
    BY <1>1, <1>2, <1>3, <1>4, <1>5, <1>6, <1>7, <1>8, <1>9, <1>10, <1>11, <1>12, <1>13
       DEF LibraryCall

-----------------------------------------------------------------------------
(* What is still to be sent leads to what was asked. *)

Done(dev) ==
    \A s \in Setting : Seen(dev, s) = IF s \in DOMAIN asked THEN asked[s] ELSE Seen(start, s)

Pending ==
    /\ AcceptableIn(start.memory)
    /\ result = "running" /\ ~unseen =>
         \/ RejectStep \in Packets(steps)
         \/ \E goal : Leads(steps, device, goal) /\ Done(goal)
    /\ result = "ok" /\ ~unseen => Done(device)

LEMMA HeadOrTail ==
    ASSUME NEW script, IsScript(script), script # << >>, NEW p \in Packets(script),
           p # Head(script)
    PROVE  p \in Packets(Tail(script))
  <1> DEFINE S == Packets(script)
             n == Len(script)
  <1>1. script \in Seq(S)  BY DEF IsScript
  <1>2. PICK i \in DOMAIN script : p = script[i]  BY DEF Packets
  <1> HIDE DEF S
  <1>3. /\ n \in Nat /\ n >= 1 /\ DOMAIN script = 1..n /\ Head(script) = script[1]
        /\ Tail(script) \in Seq(S) /\ Len(Tail(script)) = n - 1
        /\ \A j \in 1..(n - 1) : Tail(script)[j] = script[j + 1]
    BY <1>1
  <1>4. DOMAIN Tail(script) = 1..(n - 1)  BY <1>3
  <1>5. i \in 1..n /\ i # 1  BY <1>2, <1>3
  <1>6. i - 1 \in 1..(n - 1) /\ Tail(script)[i - 1] = p  BY <1>2, <1>3, <1>5
  <1> QED  BY <1>4, <1>6 DEF Packets

LEMMA GoodCallPends == ASSUME Inv, GoodCall PROVE Pending'
  <1>1. PICK script, want : Call(script, want) /\ Turns(script, want)  BY DEF GoodCall
  <1>2. /\ steps' = script /\ asked' = want /\ start' = device /\ device' = device
        /\ result' = "running"
    BY <1>1 DEF Call
  <1>3. AcceptableIn(device.memory) /\ IsDevice(device)  BY DEF Inv, IsDevice
  <1>4. ASSUME RejectStep \notin Packets(script)
        PROVE  \E goal : Leads(script, device, goal) /\ Done(goal)'
    <2>1. PICK goal : Leads(script, device, goal) /\ Reaches(device, goal, DOMAIN want, {}, want)
      BY <1>1, <1>3, <1>4 DEF Turns, Makes
    <2>2. \A s \in Setting : Seen(goal, s) = IF s \in DOMAIN want THEN want[s] ELSE Seen(device, s)
      BY <2>1 DEF Reaches
    <2>3. Done(goal)'  BY <1>2, <2>2 DEF Done
    <2> QED  BY <2>1, <2>3
  <1> QED  BY <1>2, <1>3, <1>4 DEF Pending

LEMMA PendingInit == Init => Pending
  BY FactoryAssumption DEF Init, Pending

LEMMA PendingNext == ASSUME RequestsFit, Inv, Pending, [Next]_vars PROVE Pending'
  <1>0. IsScript(steps)  BY DEF Inv, SafeScript
  <1>1. CASE DaemonCall  BY <1>1, DaemonTurns, GoodCallPends
  <1>2. CASE LibraryCall  BY <1>2, LibraryTurns, GoodCallPends
  <1>3. CASE Accepted
    <2> DEFINE step == Head(steps)
    <2>1. /\ steps # << >> /\ step.op # "reject" /\ result = "running"
          /\ device' = Taken(step) /\ steps' = Tail(steps)
          /\ UNCHANGED <<start, asked, result, unseen>>
      BY <1>3 DEF Accepted, Sending
    <2>2. Taken(step) = After(device, step)  BY DEF Taken, After
    <2>3. RejectStep # step
      <3>1. RejectStep.op = "reject"  BY DEF RejectStep, Step
      <3> QED  BY <2>1, <3>1
    <2> HIDE DEF step
    <2>4. RejectStep \in Packets(steps) => RejectStep \in Packets(Tail(steps))
      BY <1>0, <2>1, <2>3, HeadOrTail DEF step
    <2>5. ASSUME NEW goal, Leads(steps, device, goal), Done(goal)
          PROVE  Leads(Tail(steps), device', goal) /\ Done(goal)'
      <3>1. Leads(Tail(steps), After(device, Head(steps)), goal)
        BY <1>0, <2>1, <2>5, LeadsFromTail
      <3>2. Done(goal)'  BY <2>1, <2>5 DEF Done
      <3> QED  BY <2>1, <2>2, <3>1, <3>2 DEF step
    <2> QED  BY <2>1, <2>4, <2>5 DEF Pending
  <1>4. CASE Refused
    BY <1>4 DEF Refused, Fail, Pending
  <1>5. CASE Interrupted
    BY <1>5 DEF Interrupted, Fail, Pending
  <1>6. CASE Rejected
    BY <1>6 DEF Rejected, Fail, Pending
  <1>7. CASE Finish
    <2>1. /\ result = "running" /\ steps = << >> /\ result' = "ok"
          /\ UNCHANGED <<device, start, asked, unseen>>
      BY <1>7 DEF Finish
    <2>2. ~unseen => Done(device)
      BY <2>1, NoPacket, LeadsNowhere DEF Pending
    <2>3. ~unseen' => Done(device)'  BY <2>1, <2>2 DEF Done
    <2> QED  BY <2>1, <2>3 DEF Pending
  <1>8. CASE UNCHANGED vars
    <2>1. UNCHANGED <<device, start, steps, asked, result, unseen>>  BY <1>8 DEF vars
    <2>2. \A dev : Done(dev)' = Done(dev)  BY <2>1 DEF Done
    <2> QED  BY <2>1, <2>2 DEF Pending
  <1> QED  BY <1>1, <1>2, <1>3, <1>4, <1>5, <1>6, <1>7, <1>8 DEF Next

\* A call that reports success, and met no refusal that it did not look at, has done all it
\* was asked, and nothing else (mouse.rs, set_config and the setters; a setting that shares
\* bytes, a sum or a slot with another included).  The hypothesis is needed: a shortcut or
\* macro longer than its slot is cut, and a zero byte ends a macro's name.
THEOREM OkMeansAppliedCorrect ==
  ASSUME RequestsFit
  PROVE  Spec => []OkMeansApplied
  <1>1. Inv /\ Pending => OkMeansApplied
    <2> SUFFICES ASSUME Inv, Pending, result = "ok", ~unseen, NEW s \in Setting
                 PROVE  Readings(device, Setting)[s]
                          = IF s \in DOMAIN asked THEN asked[s]
                            ELSE Readings(start, Setting \ DOMAIN asked)[s]
      BY DEF OkMeansApplied
    <2>1. Readings(device, Setting)[s] = Seen(device, s)
      BY GotSeen DEF Readings, Inv
    <2>2. s \notin DOMAIN asked => Readings(start, Setting \ DOMAIN asked)[s] = Seen(start, s)
      BY GotSeen DEF Readings, Pending
    <2>3. Seen(device, s) = IF s \in DOMAIN asked THEN asked[s] ELSE Seen(start, s)
      BY DEF Pending, Done
    <2> QED  BY <2>1, <2>2, <2>3
  <1>2. Init => Inv /\ Pending  BY InvInit, PendingInit
  <1>3. Inv /\ Pending /\ [Next]_vars => (Inv /\ Pending)'
    BY InvNext, PendingNext
  <1> QED  BY <1>1, <1>2, <1>3, PTL DEF Spec
=============================================================================
