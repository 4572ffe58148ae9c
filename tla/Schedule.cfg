SPECIFICATION Scheduling
CONSTANTS
  Calendars <- MCCalendars
  Unsupported <- MCUnsupported
  MaxEdits = 3
  MaxTrouble = 1
INVARIANTS RestoreIsExact
PROPERTIES UserDecides InheritedIsInstalled
