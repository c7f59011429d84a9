---------------------------- MODULE MC_KernelPages ----------------------------
EXTENDS KernelPages

MCFrames == 0..5
=============================================================================
