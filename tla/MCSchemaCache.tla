--------------------------- MODULE MCSchemaCache ---------------------------
(* SchemaCache on small instances: two threads of one connection, so that  *)
(* two calls can miss together; documents whose kinds give every schema.   *)
EXTENDS SchemaCache
=============================================================================
