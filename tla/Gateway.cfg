\* Two declarations and one modifier, published while another version of
\* the service publishes to the same keys, with two faults.
SPECIFICATION Spec
CONSTANTS
    Nil = Nil
    Service <- MCService
    Ids <- MCIds
    RPCs <- MCRPCs
    Methods <- MCMethods
    HTTPMethods = {"GET", "*"}
    Paths <- MCPaths
    MaxSpecs = 2
    MaxMods = 1
    Old <- MCOld
    MaxFaults = 2
INVARIANTS
    PublicationIsExact
    RouteHasDescriptor
PROPERTIES
    RoutesAreIsolated
    StoppedIsSilent
    Converges
CHECK_DEADLOCK FALSE
