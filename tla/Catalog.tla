------------------------------- MODULE Catalog -------------------------------
(***************************************************************************)
(* What the index promises to its readers (search, embedding, status): a   *)
(* sequence of generations, each installed in one step as a whole, each    *)
(* the complete index of some contents under one configuration.  How the   *)
(* pipeline gets there - locks, plans, incremental writes - is not visible.*)
(***************************************************************************)
EXTENDS IndexContents

VARIABLES meta, files, segments

catalogVars == <<meta, files, segments>>

(* A new database, or the last index a previous release installed.         *)
CatalogInit ==
  \/ /\ \E c \in Desired : meta = [generation |-> 0, manifest |-> NoManifest,
                                   profiles |-> c, serving |-> c.storage]
     /\ files = [p \in Paths |-> Absent]
     /\ segments = {}
  \/ \E c \in Retired : \E table \in Indexable(c) :
       /\ meta = [generation |-> 1, manifest |-> ManifestOf(table),
                  profiles |-> c, serving |-> c.storage]
       /\ files = table
       /\ segments = Rebuilt(table, c)

InstallAs(cfg, table) ==
  /\ files' = table
  /\ segments' = Rebuilt(table, cfg)
  /\ meta' = [generation |-> meta.generation + 1,
              manifest   |-> ManifestOf(table),
              profiles   |-> cfg,
              serving    |-> cfg.storage]

Install == \E cfg \in Desired : \E table \in Indexable(cfg) : InstallAs(cfg, table)

CatalogSpec == CatalogInit /\ [][Install]_catalogVars

=============================================================================
