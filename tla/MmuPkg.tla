------------------------------- MODULE MmuPkg -------------------------------
(***************************************************************************)
(* mmu_pkg.sv: the tile C[M][N] = A[M][K] * B[K][N].                       *)
(***************************************************************************)
EXTENDS Integers

CONSTANTS
  M,   \* MMU_M: rows of A and C
  N,   \* MMU_N: columns of B and C, and of the mesh
  K    \* MMU_K: columns of A, rows of B and of the mesh

ASSUME TileAssumption == {M, N, K} \subseteq Nat \ {0}
=============================================================================
