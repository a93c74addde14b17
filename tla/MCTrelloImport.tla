--------------------------- MODULE MCTrelloImport ---------------------------
(* TrelloImport on small files: the sizes are given by the .cfg.           *)
EXTENDS TrelloImport

=============================================================================
