------------------------ MODULE MCPohTickProducer ------------------------
EXTENDS PohTickProducer
============================================================================
