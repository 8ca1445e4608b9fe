CONSTANTS
    Versions = {1, 2, 3}
    NumFiles = 4
    ManifestFile = 2
    PackageFiles <- MCPackageFiles
    Faults = {"deadline"}
SPECIFICATION Spec
INVARIANT DeadlineLeavesReconcilable
