--------------------------- MODULE MC_FileSyscalls ---------------------------
EXTENDS FileSyscalls
=============================================================================
