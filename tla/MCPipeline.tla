------------------------------ MODULE MCPipeline ------------------------------
EXTENDS Pipeline

CONSTANTS d1, d2

\* One chunk; two of which the first does not shrink.
MCStreams == {<<d1>>, <<d2, d1>>}
=============================================================================
