\* Four device ids, two of them of lengths that are refused; three accounts,
\* two of them none. Restarts between any two steps.
SPECIFICATION ConfigSpec
CONSTANTS
  DeviceId <- DeviceFour
  NoDevice = "none"
  Length <- LengthFour
  Account <- AccountTwo
INVARIANTS
  SavedTogether
  AckedIsSaved
