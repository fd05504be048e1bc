--------------------------- MODULE MCDownloadQuota ---------------------------
EXTENDS DownloadQuota, TLC

MCSizes == {-1, 0, 1, 2}

Symmetry == Permutations(Downloaders)
=============================================================================
