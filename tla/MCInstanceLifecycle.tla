------------------------ MODULE MCInstanceLifecycle ------------------------
\* The instance of InstanceLifecycle that TLC checks for safety.  Images and
\* quotas are only compared, never ordered: permuting them is a symmetry.
EXTENDS InstanceLifecycle, TLC

Symmetry == Permutations(Images) \cup Permutations(Quotas)
=============================================================================
