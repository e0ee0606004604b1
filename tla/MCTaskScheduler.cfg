SPECIFICATION FairTSSpec
CONSTANTS
    Robots <- MCRobots
    Park <- MCPark
    Places <- MCPlaces
    Types = {"fire", "piping"}
    Recipe <- MCRecipe
    Sensors = {s1}
    NoSensor = NoSensor
    Tags = {1, 2}
    NoTag = NoTag
    Endless <- MCEndless
    NoRAB = NoRAB
    NoRobot = NoRobot
    Stops = TRUE
    RemoteFaults = TRUE
    StoreFaults = TRUE
CHECK_DEADLOCK FALSE
INVARIANTS
    RobotsComeHome
    ReportTellsTruth
PROPERTIES
    ImplementsRABService
    EveryRABHasItsTurn
    StoppedConsumerEnds
