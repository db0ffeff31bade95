SPECIFICATION ServingSpec
CONSTANTS
  Process = {"inventory", "ordering"}
  Server = {"stock", "internal", "orders"}
  Servers <- MCServers
  Call = {"a", "b", "reserve", "release"}
  Messages <- MCMessages
  Loads <- MCLoads
INVARIANTS
  TypeOK
  CleanStop
  NoSenderStuck
  AnswersReadable
  ParamsNamed
  ArrivesAsSent
  OutageIsNotRefusal
PROPERTIES
  Stops
  PlacingEnds
CHECK_DEADLOCK FALSE
