--------------------------- MODULE AnalyzerCatalog ---------------------------
(***************************************************************************)
(* What writes the catalog of tables: DDL imports (analyzer/pg_phase_ddl), *)
(* generated descriptions and inferred keys (pg_metadata_service), edits   *)
(* by users (pg_schema_manage_service), and the clean-up of everything     *)
(* (pg_graph_query_service).                                               *)
(***************************************************************************)
EXTENDS AnalyzerRows

(* A parsed DDL file: the data source if it has a name, schemas, tables    *)
(* with their descriptions, columns <<column, table>> and keys             *)
(* <<from, to>>, in the order of the file.  The table of a column, and     *)
(* both ends of a key, may be missing from it.                             *)
Ddl == [source: Source \cup {None}, schemas: Seq(SchemaRow), tables: Seq(Table),
        columns: Seq(Column \X Table), keys: Seq(Table \X Table), text: Text \cup {Empty}]

Each(S(_), seq) == [i \in DOMAIN seq |-> S(seq[i])]

Put(d, x) == Stmt("put", x, d.text, "ddl")

(* The id of a table the file does not define is selected.                 *)
LookUp(d, t) == IF t \in {d.tables[i] : i \in DOMAIN d.tables} THEN <<>> ELSE <<Do("look", t)>>

SourceScript(d) ==
  (IF d.source = None THEN <<>> ELSE <<Do("keep", d.source)>>)
  \o Each(LAMBDA s : Do("keep", s), d.schemas)

(* The table_id of a column is NULL, or stays, if its table is unknown.    *)
ColumnScript(d, c) == LookUp(d, c[2]) \o <<In(Put(d, c[1]), c[2])>>

(* A key needs both ids; an unknown table it leads to gets a bare row.     *)
KeyScript(d, k) ==
  LookUp(d, k[1]) \o LookUp(d, k[2])
  \o <<Do("bare", k[2]), Stmt("claim", <<k[1], k[2], "FK_TO_TABLE">>, Empty, "ddl")>>

TableScript(d) ==
  Each(LAMBDA t : Put(d, t), d.tables)
  \o FlattenSeq(Each(LAMBDA c : ColumnScript(d, c), d.columns))
  \o FlattenSeq(Each(LAMBDA k : KeyScript(d, k), d.keys))

(* Mutant: the row of the data source is written when its tables are.      *)
TablesFirst(d) == TableScript(d) \o SourceScript(d)

(* save_ddl_results: the data source, the schemas, the tables and columns  *)
(* with their descriptions, and the keys.                                  *)
DdlScript(d) == SourceScript(d) \o TableScript(d)

(* Mutant: every statement commits on its own.                             *)
Autocommit == FALSE

InTransaction == TRUE

SaveDdlResults(r, d) == Begins(r, "import", d.source, InTransaction, DdlScript(d))

(* The tables of a name <<schema, name>>, in any database, and the columns *)
(* of a name; a column is matched by its table's id.                       *)
TablesOf(n) == {t \in Table : NameOf[t] = n}
Named(name) == {t \in Table : NameOf[t][2] = name}
Columns(name) == {c \in Column : NameOf[c][3] = name}

(* Of a description generated for what had none when it was read.          *)
UpdateTableDescription(r, n, text) ==
  Begins(r, "generate", None, FALSE, <<Sweep("fill", TablesOf(n), Owner, text, "generated")>>)

FillColumns(n, names, text) ==
  Each(LAMBDA c : Sweep("fill", Columns(c), TablesOf(n), text, "generated"), names)

(* Mutant: the descriptions of a table are one transaction.                *)
ColumnsAtOnce(r, n, names, text) ==
  Begins(r, "generate", None, TRUE, FillColumns(n, names, text))

UpdateColumnDescriptions(r, n, names, text) ==
  Begins(r, "generate", None, FALSE, FillColumns(n, names, text))

(* save_fk_relationship: both ids, each of any table of the name, the      *)
(* relationship, both columns and the relationship between these.          *)
SaveFkRelationship(r, t, u, c, d) ==
  Begins(r, "saveFk", None, TRUE,
    <<Do("find", t), Do("find", u),
      Stmt("claim", <<t, u, "FK_TO_TABLE">>, Empty, "generated"),
      In(Do("keep", c), t), In(Do("keep", d), u), Do("add", <<c, d>>)>>)

(* create_schema_relationship: each SELECT in a transaction of its own,    *)
(* and each of any table of the name.                                      *)
CreateSchemaRelationship(r, t, u, k) ==
  Begins(r, "createRel", None, FALSE,
    <<Do("find", t), Do("find", u), Stmt("put", <<t, u, k>>, Empty, "user")>>)

(* delete_schema_relationship: of every type, between all tables of these  *)
(* names, whatever their schema.                                           *)
DeleteSchemaRelationship(r, from, to) ==
  Begins(r, "deleteRel", None, FALSE, <<Drop(Named(from) \X Named(to) \X Kind)>>)

(* update_table_description, of the tables of a name and schema, in any    *)
(* database; none is without a schema, which is NOT NULL.                  *)
EditTables(r, n, text) ==
  Begins(r, "describe", None, FALSE, <<Sweep("set", TablesOf(n), Owner, text, "user")>>)

(* update_column_description, of the columns of a name in all tables of a  *)
(* name, whatever their schema.                                            *)
EditColumns(r, table, column, text) ==
  Begins(r, "describe", None, FALSE,
    <<Sweep("set", Columns(column), Named(table), text, "user")>>)

(* The tables in the order of the DELETE statements; references before     *)
(* what they refer to, but a schema after its tables.                      *)
CleanupScript ==
  <<Drop(Column \X Column), Drop(Table \X Table \X Kind), Drop(Column), Drop(Table),
    Drop(Flow), Drop(Node), Drop(SchemaRow)>>

CleanupGraph(r) == Begins(r, "cleanup", None, TRUE, CleanupScript)
=============================================================================
