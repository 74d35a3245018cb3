SPECIFICATION Spec
CONSTANTS
  extruder = extruder
  bed = bed
  v1 = v1
  v2 = v2
  Absent = Absent
  NoCard = NoCard
  Objects <- MCObjects
  Sensors <- MCObjects
  Configured <- MCConfigured
  Values <- MCValues
  MaxFaults = 2
  MaxBacklog = 2
INVARIANT NoticeCoversOutage
