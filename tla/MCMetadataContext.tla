-------------------------- MODULE MCMetadataContext --------------------------
(* Small instances of MetadataContext: three tables, whose pieces have     *)
(* weights that let each reduction stop at a different piece.              *)
EXTENDS MetadataContext

MCForeignKeys == {{}, {<<1, 2>>}, {<<3, 2>>}, {<<1, 2>>, <<1, 3>>}}
MCRelevantTables == {{}, {3}}
MCWeight ==
  [base |-> 40, table |-> 15, column |-> 12, row |-> 20, relationship |-> 13,
   warning |-> 9, name |-> 3, columnEntry |-> 4]
=============================================================================
