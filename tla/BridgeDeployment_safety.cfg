\* Two runs of the scripts, three revisions of the source, two faults.
CONSTANTS
    Revisions = {1, 2, 3}
    TTLs = {1}
    Zips = {"none"}
    MaxFaults = 2
    Attempts = 2
    MaxScripts = 2
    MaxDownloads = 2
SPECIFICATION DeploymentSpec
CHECK_DEADLOCK FALSE
INVARIANTS
    OkMeansDeployed
    SettingsComeBack
