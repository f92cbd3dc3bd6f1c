SPECIFICATION SnapshotSpec
CONSTANTS
    MaxStores = 2
    StoreFaults = {"brokenOff"}
PROPERTIES
    PartialStreamReplacesNothing
CHECK_DEADLOCK FALSE
