----------------------- MODULE MCSequencedCommands -----------------------
EXTENDS SequencedCommands
=============================================================================
