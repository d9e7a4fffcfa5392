------------------------ MODULE MCEmbeddingPipeline ------------------------
(* Small instances of EmbeddingPipeline: both roots live in the first database;
   the second only competes for the model. *)
EXTENDS EmbeddingPipeline, TLC

CONSTANTS d1, d2, r1, r2, s1, s2, s3

MCHomeOf == r1 :> d1 @@ r2 :> d1 @@ s1 :> d1 @@ s2 :> d1 @@ s3 :> d2

=============================================================================
