\* The route builder without links: which selection the route shown is for.
SPECIFICATION RouteSpec
CONSTANTS
    Stops = {"muir", "erc"}
    Drivers = {"dee"}
    Shared = {}
    MaxAsked = 2
INVARIANT QuietRouteIsCurrent
CHECK_DEADLOCK FALSE
