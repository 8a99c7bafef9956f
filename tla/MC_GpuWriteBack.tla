-------------------------- MODULE MC_GpuWriteBack --------------------------
(* Model-checking instance of GpuWriteBack: two data blocks, the host and  *)
(* one or two GPUs given as model values in the .cfg files.                *)
EXTENDS GpuWriteBack

\* Symmetry over the data blocks: nothing in the engine tells them apart.
DataSymmetry == Permutations(Data)
=============================================================================
