-------------------------- MODULE MCMouseSettings --------------------------
(* TLC instance of MouseSettings: two calls, one packet refused or lost, and requests on   *)
(* both sides of every limit a setter checks.                                              *)
EXTENDS MouseSettings

MCStages == {0, 1, 7}
MCSlots  == {7}

\* Two stages, the second one current.
MCFactory ==
    LET first  == Overlay(<<1>>, OFFSET_DPI_VALUES, encode_dpi(800))
        second == Overlay(first, OFFSET_DPI_VALUES + 4, encode_dpi(26000))
        base   == [a \in DOMAIN second \ {1} |-> second[a]]
        single == [a \in {OFFSET_REPORT_RATE, OFFSET_MAX_DPI, OFFSET_CURRENT_DPI,
                          OFFSET_LIFT_OFF_DISTANCE, OFFSET_SLEEP_TIMEOUT, OFFSET_PERFORMANCE_TIME,
                          OFFSET_DPI_EFFECT_BRIGHTNESS} |->
                     CASE a = OFFSET_MAX_DPI -> 2 [] a = OFFSET_SLEEP_TIMEOUT -> 30
                       [] a = OFFSET_PERFORMANCE_TIME -> 6 [] OTHER -> 1]
    IN Both(single, base)

MCNumbers == {0, 1, 8, 31, 2551, 26050, 65546}

Stage(value, color) == [value |-> value, color |-> color]
TwoStages  == <<Stage(400, <<0, 9, 0>>), Stage(1649, <<255, 0, 1>>)>>
NineStages == [i \in 1..9 |-> Stage(50 * i, <<i, i, i>>)]

Switched(on) == [s \in Switches |-> on]

Proto(stages, index, seconds) ==
    [polling_rate |-> 7, lift_off_distance |-> 3, sleep_timeout_seconds |-> seconds,
     switches |-> Switched(TRUE), dpi_stages |-> stages, current_dpi_index |-> index]

MCProtos ==
    {Proto(<< >>, 0, 65546), Proto(TwoStages, 0, 605), Proto(NineStages, 0, 600),
     Proto(TwoStages, 8, 600), Proto(<<Stage(70000, <<0, 0, 0>>)>>, 0, 600)}

\* Every setting differs from its factory value; then a value out of range in the middle.
Full == [WithDefaults([dpi_stages |-> TwoStages], Switched(TRUE)) EXCEPT
            !.debounce_time = 30, !.motion_sync = TRUE, !.moving_off_light_time = 255,
            !.performance_time = 1800, !.sensor_20k = TRUE]
MCConfigs ==
    {Full, [Full EXCEPT !.debounce_time = 31],
     [Full EXCEPT !.dpi_stages = <<Stage(100, <<1, 2, 3>>), Stage(40, <<1, 2, 3>>)>>]}

MCColors    == {<<1, 2, 255>>, <<1, 2, 256>>}
MCKeys      == {macro_key(7, 254)}
MCLights    == {[mode |-> 6, color |-> <<1, 2, 3>>, speed |-> 4, brightness |-> 255, enabled |-> TRUE]}
MCEffects   == {[mode |-> 2, brightness |-> 11, speed |-> 0, enabled |-> TRUE]}
MCShortcuts == {AddKeyPress(AddKeyPress(<< >>, 0, 2), 2, 549)}
MCMacros    ==
    {[name |-> <<65, 66>>,
      events |-> [i \in 1..70 |-> [key_down |-> i % 2 = 1, key_type |-> 1, key_code |-> 3 + i,
                                   delay_ms |-> 300 + i]]]}
=============================================================================
