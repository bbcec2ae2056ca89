SPECIFICATION Spec
CONSTANTS
    Invalid = Invalid
    Nothing = Nothing
    Subjects <- MCSubjects
    KeyPresses <- MCKeyPresses
    Damages <- MCDamages
INVARIANTS
    ReadsBackWhatWasSent
    DamageDetected
    PercentFollowsVoltage
CHECK_DEADLOCK FALSE
