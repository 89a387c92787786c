-------------------------- MODULE MCPipelineSocket --------------------------
EXTENDS PipelineSocket, TLC
=============================================================================
