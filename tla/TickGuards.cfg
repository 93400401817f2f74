SPECIFICATION LiveSpec
CONSTANTS
    Values <- Readings
    NoPeak = NoPeak
    MaxPct = 10
PROPERTIES CalmEntries GuardSurvives TriggerIsApplied
