CONSTANTS
    read = read
    write = write
    metrics = metrics
    cleanDisk = cleanDisk
    updateDiskStats = updateDiskStats
    Servers <- ServerServers
    Jobs = {cleanDisk, updateDiskStats}
    MaxRequests = 2
SPECIFICATION Spec
CHECK_DEADLOCK FALSE
INVARIANTS
    ActiveRequestsFinish
