--------------------------- MODULE MCTerminalBridge ---------------------------
EXTENDS TerminalBridge
=============================================================================
