--------------------------- MODULE UploadStagingMC ---------------------------
(***************************************************************************)
(* Instances of UploadStaging for TLC: one session without a declared size  *)
(* and one that declares it, contents of equal or of different size.        *)
(***************************************************************************)
EXTENDS UploadStaging, TLC

Uploads == {"free", "declared"}
Contents == {"short", "long"}
Sizes == [c \in Content |-> IF c = "long" THEN 2 ELSE 1]
AcceptsOf == [u \in Upload |-> IF u = "declared" THEN {"short"} ELSE Content]
Reserves == [u \in Upload |-> IF u = "declared" THEN 1 ELSE 2]

Symmetry == Permutations(Put)

=============================================================================
