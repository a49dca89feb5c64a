---------------------------- MODULE MCRangeMaps -----------------------------
EXTENDS RangeMaps, TLC

CONSTANTS v1, v2

MCKeys == 0..6
MCOperandRanges == {Rng(0, 2), Rng(1, 4), Rng(4, 6)}
=============================================================================
