\* Three users, two updates at a time, up to four versions.
SPECIFICATION KeysSpec
CONSTANTS
  Nothing = Nothing
  Users = {a, b, c}
  Updates = {c1, c2}
  LastVersion = 4
INVARIANTS
  OnlyMembersHoldCurrentKey
  MembersHoldSentKeys
  KeyFormatAgreed
SYMMETRY Symmetry
CHECK_DEADLOCK FALSE
