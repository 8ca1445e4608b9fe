CONSTANTS
    Versions = {1, 2}
    NumFiles = 4
    ManifestFile = 2
    PackageFiles <- MCPackageFiles
    Faults = {"reject"}
SPECIFICATION Spec
INVARIANT CleanupIncompleteReconciles
