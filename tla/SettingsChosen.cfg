SPECIFICATION SettingsSpec
CONSTANTS
  Nothing = Nothing
INVARIANTS
  ChosenThemeIsStored
