SPECIFICATION SettingsFairSpec
CONSTANTS
  Forms = {a}
  Keys = {good, bad}
  GoodKeys = {good}
  MaxSends = 4
INVARIANTS SettingsInvariant BadgesEarned
PROPERTIES FormSettles
CHECK_DEADLOCK FALSE
