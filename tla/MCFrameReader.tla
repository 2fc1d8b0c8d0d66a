--------------------------- MODULE MCFrameReader ---------------------------
EXTENDS FrameReader
=============================================================================
