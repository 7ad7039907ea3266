SPECIFICATION Spec
CONSTANTS
  Threads = {t1}
  Host = host
  Requests <- MCRequests
  Legacy <- MCLegacy
  MaxRequests = 1
PROPERTIES
  SettingsPersist
