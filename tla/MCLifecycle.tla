---------------------------- MODULE MCLifecycle ----------------------------
EXTENDS Lifecycle

CONSTANTS read, write, metrics, cleanDisk, updateDiskStats

ServerServers == <<read, write, metrics>>
=============================================================================
