------------------------ MODULE MC_GpuWriteBackScan ------------------------
EXTENDS GpuWriteBackScan

DataSymmetry == Permutations(Data)
=============================================================================
