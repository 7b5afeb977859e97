CONSTANTS
    Sources = {"fresh", "prepared", "itself"}
    MaxKills = 2
SPECIFICATION Spec
INVARIANTS OneResult CleanSourceSuffices Repeatable
