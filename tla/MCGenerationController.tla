------------------------ MODULE MCGenerationController ------------------------
(* Small instances of GenerationController: three requests, four generations.  *)
EXTENDS GenerationController
=============================================================================
