SPECIFICATION Spec
CONSTANTS
    Width = 3
    Height = 2
    Areas <- MCAreas
    Sizes <- MCSizes
    Rasters <- MCRasters
INVARIANTS SidecarDescribesRun
CHECK_DEADLOCK FALSE
