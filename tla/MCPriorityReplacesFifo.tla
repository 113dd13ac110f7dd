---------------------- MODULE MCPriorityReplacesFifo ----------------------
EXTENDS PriorityReplacesFifo
============================================================================
