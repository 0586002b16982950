------------------------------- MODULE MCPipe -------------------------------
\* Two blocking processes with both ends to choose from, and one that polls.
EXTENDS Pipe, TLC

CONSTANTS r, w, x, b0, b1
=============================================================================
