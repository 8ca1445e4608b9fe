CONSTANTS
    Versions = {1, 2, 3}
    NumFiles = 4
    ManifestFile = 2
    PackageFiles <- MCPackageFiles
    Faults = {"reject", "lost", "corrupt", "deadline", "crash", "upgrade"}
SPECIFICATION FairSpec
INVARIANTS TypeOK OldOrNew SuccessMeansInstalled RefusalPreserves
PROPERTIES ForeignTreeUntouched ImplementsSlot RetrySucceeds DeploymentEnds
