SPECIFICATION ExportFairSpec
CONSTANTS
    MaxTasks = 3
    ApiStatuses = {"queued", "exporting", "failed"}
    MaxUpdates = 2
    MaxExportCrashes = 2
INVARIANTS InOrder ExportingAccounted
PROPERTIES ClaimedOnce QueuedClaimed
