------------------------------ MODULE Catalog ------------------------------
(***************************************************************************)
(* The shared catalog and its Catalog Mutator (spec section 4.3).          *)
(*                                                                         *)
(* The catalog store and the mutator client are not part of src/ (the     *)
(* mutator is catalog::mutator::CatalogMutator, consumed by               *)
(* alter_table.rs), so this module is written from the spec: the catalog *)
(* is a version number and the set of table names that exist; a           *)
(* mutation batch is applied by mutate_and_commit only if the caller's     *)
(* expected version is the current one, and then all at once.              *)
(***************************************************************************)
EXTENDS Naturals, Sequences, SequencesExt

CONSTANTS
  Tables,       \* table names (model values)
  MaxVersion    \* bound on the catalog version, i.e. on the number of commits

ASSUME MaxVersion \in Nat

CatalogState == [version : 0..MaxVersion, tables : SUBSET Tables]

(* A Mutation (protogen service::Mutation), abstracted to its effect on   *)
(* which table names exist.  AlterTable{schema, name, operation} with a    *)
(* rename operation becomes [op |-> "rename", name, new].                 *)
Mutation ==
       [op : {"create", "drop"}, name : Tables, new : {"none"}]
  \cup [op : {"rename"}, name : Tables, new : Tables]

(* The metastore's validation of one mutation against the tables it is    *)
(* applied to: the object must exist (drop, rename) or must not (create,  *)
(* the rename target).                                                     *)
Valid(ts, m) ==
  CASE m.op = "create" -> m.name \notin ts
    [] m.op = "drop"   -> m.name \in ts
    [] m.op = "rename" -> m.name \in ts /\ m.new \notin ts

Apply(ts, m) ==
  CASE m.op = "create" -> ts \cup {m.name}
    [] m.op = "drop"   -> ts \ {m.name}
    [] m.op = "rename" -> (ts \ {m.name}) \cup {m.new}

(* A batch is valid when each mutation is valid on the tables left by the *)
(* mutations before it.                                                    *)
RECURSIVE BatchValid(_, _)
BatchValid(ts, muts) ==
  \/ muts = <<>>
  \/ /\ Valid(ts, Head(muts))
     /\ BatchValid(Apply(ts, Head(muts)), Tail(muts))

ApplyBatch(ts, muts) == FoldLeft(Apply, ts, muts)

(***************************************************************************)
(* mutate_and_commit(expected_version, mutations): the outcome and the     *)
(* catalog it leaves.  A stale expected version is a conflict and leaves   *)
(* the catalog as it was; an invalid batch is refused as a whole; a valid *)
(* batch is applied atomically and the version is bumped by one.          *)
(***************************************************************************)
MutateAndCommit(c, expected, muts) ==
  CASE expected # c.version        -> [status |-> "conflict", catalog |-> c]
    [] ~BatchValid(c.tables, muts) -> [status |-> "invalid", catalog |-> c]
    [] OTHER -> [status  |-> "ok",
                 catalog |-> [version |-> c.version + 1,
                              tables  |-> ApplyBatch(c.tables, muts)]]

=============================================================================
