SPECIFICATION Spec
CONSTANTS
    Invalid = Invalid
    Factory <- MCFactory
    Numbers <- MCNumbers
    Protos <- MCProtos
    Configs <- MCConfigs
    Colors <- MCColors
    Keys <- MCKeys
    Lights <- MCLights
    Effects <- MCEffects
    Shortcuts <- MCShortcuts
    Macros <- MCMacros
    Stages <- MCStages
    Slots <- MCSlots
    MaxCalls = 2
    MaxFaults = 1
INVARIANTS
    Readable
    OkMeansApplied
    OldOrNew
    Reapplicable
CHECK_DEADLOCK FALSE
