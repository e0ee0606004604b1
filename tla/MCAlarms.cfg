SPECIFICATION FairAlarmsSpec
CONSTANTS
    Robots <- MCRobots
    Park <- MCPark
    Places <- MCPlaces
    Types = {"fire", "vacuum"}
    Recipe <- MCRecipe
    Sensors = {0, 1}
    NoSensor = NoSensor
    Tags = {1}
    NoTag = NoTag
    Endless = {}
    NoRAB = NoRAB
    NoRobot = NoRobot
    Stops = FALSE
    RemoteFaults = TRUE
    StoreFaults = FALSE
    ActionOf <- MCActionOf
    PlaceOf <- MCPlaceOf
    MaxTrips = 2
CHECK_DEADLOCK FALSE
INVARIANTS
    AlarmsTypeOK
    AlarmNeverLost
PROPERTIES
    EveryAlarmAnswered
