--------------------------- MODULE MCQueuedThread ---------------------------
\* Three requests for TLC, the last of them completed by the worker.
EXTENDS QueuedThread

ThreeRequests == 1 .. 3
LastOne == {3}
=============================================================================
