--------------------------- MODULE MCAsyncCompile ---------------------------
(* Two kernels, one of which may fail, two devices, two blocks.            *)
EXTENDS AsyncCompile

CONSTANTS k1, k2, d1, d2

MCKernels == {k1, k2}
MCDevices == {d1, d2}
MCMayFail == {k2}
MCIgnoreErrors == {1}
=============================================================================
