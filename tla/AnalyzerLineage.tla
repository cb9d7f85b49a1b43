--------------------------- MODULE AnalyzerLineage ---------------------------
(***************************************************************************)
(* Lineage (analyzer/pg_lineage_service), glossaries                       *)
(* (pg_glossary_service) and calendars (pg_business_calendar_service).     *)
(***************************************************************************)
EXTENDS AnalyzerRows

Role(x, role) == Stmt("put", x, Empty, role)

(* save_lineage, one transaction: the process, each source with the flow   *)
(* out of it, each target with the flow into it, and all flows between.    *)
LineageScript(p, sources, targets) ==
  <<Do("keep", p)>>
  \o FlattenSeq([i \in DOMAIN sources |->
       <<Role(sources[i], "SOURCE"), Do("add", <<sources[i], p>>)>>])
  \o FlattenSeq([i \in DOMAIN targets |->
       <<Role(targets[i], "TARGET"), Do("add", <<p, targets[i]>>)>>])
  \o FlattenSeq([i \in DOMAIN sources |->
       [j \in DOMAIN targets |-> Do("add", <<sources[i], targets[j]>>)]])

SaveLineage(r, p, sources, targets) ==
  Begins(r, "lineage", None, TRUE, LineageScript(p, sources, targets))

Edits(r, s) == Begins(r, "edit", None, FALSE, <<s>>)

Inserted(does, x, text) ==
  In(Stmt(does, x, text, "user"), IF x \in Part THEN OwnerOf[x] ELSE None)

(* create_glossary, create_term, create_calendar: a term needs its         *)
(* glossary, the name of a calendar is unique; a glossary or a term is     *)
(* known by its id.                                                        *)
CreateRow(r, x, text) == Edits(r, Inserted("insert", x, text))

(* update_glossary, update_term, by id.                                    *)
UpdateRow(r, x, text) == Edits(r, Sweep("set", {x}, Owner, text, "user"))

(* delete_glossary, delete_term, delete_calendar, by id.                   *)
DeleteRow(r, x) == Edits(r, Drop({x}))

(* add_non_business_day, add_holiday: the last reason or name wins.        *)
AddDay(r, x, text) == Edits(r, Inserted("put", x, text))
=============================================================================
