---------------------------- MODULE MCKernelPool ----------------------------
\* Instances of the kernel task pool for TLC.
EXTENDS KernelPool

CONSTANTS a1, a2, bsp

OneAP == {a1}
TwoAPs == {a1, a2}

\* Equal sizes with an empty call between them, then a smaller one.
MixedSizes == <<2, 0, 2, 1>>
SmallerNext == <<2, 1>>
=============================================================================
