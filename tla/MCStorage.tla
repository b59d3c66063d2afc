------------------------------ MODULE MCStorage ------------------------------
(* Model values for the run of Storage.                                    *)
EXTENDS Storage, TLC

CONSTANTS k1, a1, a2, a3

\* An artifact and an attachment of the same bytes share their object.
SharedContent == k1 :> "x" @@ a1 :> "x" @@ a2 :> "y" @@ a3 :> "z"
=============================================================================
