------------------------------- MODULE MCPipeline -------------------------------
EXTENDS Pipeline
================================================================================
