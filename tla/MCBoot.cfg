SPECIFICATION BootSpec
CONSTANTS
  EntrySize = 11
  KeySize = 6
  PageSize = 24
  SectorSize = 96
  Defaults <- MCDefaults
  Keys <- MCKeys
  End = ""
  Bad = "bad"
  NoType = "no type"
  Torn = "torn"
  Magic <- MCMagic
  AppDefaults <- MCAppDefaults
  BoosterDefaults <- MCBoosterDefaults
  BoosterCount = 8
  Settable <- MCSettable
  Interval = 3
  Timeout = 7
  MaxTurn = 2
  Unlinked = {"down", "badauth"}
INVARIANTS
  BootTypeOK
  ReportIsRight
  ServedMeanwhile
PROPERTIES
  LoadRecovers
  AppSettingsStay
  BootEnds
