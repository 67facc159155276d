----------------------------- MODULE MCHotKeys -----------------------------
EXTENDS HotKeys

=============================================================================
