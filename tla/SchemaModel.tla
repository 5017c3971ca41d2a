----------------------------- MODULE SchemaModel -----------------------------
(* The dictionary of tables, fields and concepts compiled from spreadsheets   *)
(* (internal/schemamodel, knowledge/schema.go): how it is read off the rows   *)
(* of a sheet, and how it is stored and loaded beside publications.           *)
(* A row has its number, a kind and a name: "header" names columns, "title"   *)
(* has one cell, "field" describes a field, "blank" has no text. Scores,      *)
(* aliases, types, enumerations and key hints are left out; a title stands in *)
(* the column of the field names.                                             *)
EXTENDS Naturals, FiniteSets, Sequences, SequencesExt

CONSTANTS
    Doc,
    Sheets,      \* the sheets a generation may have: sequences of rows
    ConceptsOf,  \* the concepts of each name
    MaxGen,      \* bound: generations of a document
    Nothing

VARIABLES
    row,         \* documents: active generation (0 before the first), sheet of each, live
    stored,      \* the schema tables of SQLite
    compiler,    \* CompileBaseSchema or CompileDocumentSchema
    reader,      \* activeSchemaModels
    cache        \* its cached models

\* Cells are compiled under a generation, the first one when none is active.
SchemaAssumption == MaxGen \in Nat \ {0}

vars == <<row, stored, compiler, reader, cache>>

-----------------------------------------------------------------------------
\* Compilation.

Flushed(s) ==
    IF s.current # Nothing /\ s.current.data # {} THEN s.regions \cup {s.current} ELSE s.regions

\* A region starts at a header and ends at the next one or at a missing row. A
\* title is only taken for one outside of regions or after a gap.
Scan(rows, s, i) ==
    LET this == rows[i]
        gap == s.last > 0 /\ this.at > s.last + 1
        title == IF this.kind = "title" THEN this.name ELSE s.title
        next == [s EXCEPT !.last = this.at]
    IN  CASE this.kind = "header" ->
                [next EXCEPT !.regions = Flushed(s), !.title = Nothing,
                             !.current = [header |-> i, title |-> s.title, data |-> {}]]
          [] this.kind # "header" /\ s.current = Nothing -> [next EXCEPT !.title = title]
          [] this.kind # "header" /\ s.current # Nothing /\ gap ->
                [next EXCEPT !.regions = Flushed(s), !.current = Nothing, !.title = title]
          [] OTHER -> [next EXCEPT !.current.data = @ \cup {i}]

detectSchemaRegions(rows) ==
    IF rows = <<>> THEN {}
    ELSE Flushed(FoldLeft(LAMBDA s, i : Scan(rows, s, i),
                          [regions |-> {}, current |-> Nothing, title |-> Nothing, last |-> 0],
                          [i \in DOMAIN rows |-> i]))

\* A region compiled without skipping repeated names.
compileRegionRepeating(rows, region) == \* mutant
    {[table |-> region.header, name |-> rows[i].name, at |-> i] :
        i \in {i \in region.data : rows[i].kind \in {"field", "title"}}}

\* The first row with a name is the field; later ones are diagnosed and skipped.
compileRegion(rows, region) ==
    LET named == {i \in region.data : rows[i].kind \in {"field", "title"}}
    IN  {[table |-> region.header, name |-> rows[i].name, at |-> i] :
            i \in {i \in named : \A j \in named : rows[j].name = rows[i].name => i <= j}}

buildConcepts(fields) ==
    {[concept |-> c, fields |-> {f \in fields : c \in ConceptsOf[f.name]}] :
        c \in UNION {ConceptsOf[f.name] : f \in fields}}

CompileDocument(rows) ==
    LET regions == detectSchemaRegions(rows)
        fields == UNION {compileRegion(rows, r) : r \in regions}
    IN  [tables |-> {[id |-> r.header, title |-> r.title] :
                        r \in {r \in regions : compileRegion(rows, r) # {}}},
         fields |-> fields, concepts |-> buildConcepts(fields)]

Detected(model) == model.tables # {}

Validate(model) ==
    /\ \A f, g \in model.fields : f.table = g.table /\ f.name = g.name => f = g
    /\ \A f \in model.fields : \E t \in model.tables : t.id = f.table
    /\ \A c \in model.concepts : c.fields # {} /\ c.fields \subseteq model.fields

Empty == [tables |-> {}, fields |-> {}, concepts |-> {}]

-----------------------------------------------------------------------------
\* Documents.

Publish(d) ==
    /\ row[d].live /\ row[d].active < MaxGen
    /\ \E rows \in Sheets :
        row' = [row EXCEPT ![d].active = @ + 1, ![d].sheets = Append(@, rows)]
    /\ UNCHANGED <<stored, compiler, reader, cache>>

\* Nothing removes the schema rows of a deleted document.
Delete(d) ==
    /\ row[d].live
    /\ row' = [row EXCEPT ![d].live = FALSE]
    /\ UNCHANGED <<stored, compiler, reader, cache>>

\* The cells of the active generation; none before there is one.
Rows(d) == IF row[d].active = 0 THEN <<>> ELSE row[d].sheets[row[d].active]

schemaGeneration(g) == IF g = 0 THEN 1 ELSE g

-----------------------------------------------------------------------------
\* Compiling: each document's row is read first, its cells later, and its schema
\* is replaced in one transaction.

CompileBaseSchema ==
    /\ compiler.pc = "idle"
    /\ compiler' = [pc |-> "next", todo |-> {[doc |-> d, gen |-> schemaGeneration(row[d].active)] :
                                                d \in {d \in Doc : row[d].live}},
                    base |-> TRUE, item |-> Nothing, rows |-> <<>>]
    /\ UNCHANGED <<row, stored, reader, cache>>

CompileDocumentSchema(d) ==
    /\ compiler.pc = "idle" /\ row[d].live
    /\ compiler' = [pc |-> "next", todo |-> {[doc |-> d, gen |-> schemaGeneration(row[d].active)]},
                    base |-> FALSE, item |-> Nothing, rows |-> <<>>]
    /\ UNCHANGED <<row, stored, reader, cache>>

Idle == [pc |-> "idle", todo |-> {}, base |-> FALSE, item |-> Nothing, rows |-> <<>>]

\* A document that is gone by now fails the whole compilation.
listSchemaSourceRows ==
    /\ compiler.pc = "next"
    /\ \E item \in compiler.todo :
        compiler' = IF row[item.doc].live
                    THEN [compiler EXCEPT !.pc = "replace", !.todo = @ \ {item}, !.item = item,
                                          !.rows = Rows(item.doc)]
                    ELSE Idle
    /\ UNCHANGED <<row, stored, reader, cache>>

\* The rows of every other generation go, except those of concepts.
ReplaceDocumentModel ==
    LET d == compiler.item.doc
        g == compiler.item.gen
        model == CompileDocument(compiler.rows)
        new == IF Detected(model) THEN model ELSE Empty
    IN  /\ compiler.pc = "replace"
        /\ IF Detected(model) /\ ~Validate(model)
           THEN compiler' = Idle /\ UNCHANGED <<stored, reader>>
           ELSE /\ stored' = [stored EXCEPT ![d] =
                      [gen |-> g, active |-> Detected(model), tables |-> new.tables, fields |-> new.fields,
                       concepts |-> [@.concepts EXCEPT ![g] = new.concepts]]]
                /\ reader' = IF reader.pc # "idle" THEN [reader EXCEPT !.disturbed = TRUE] ELSE reader
                /\ compiler' = [compiler EXCEPT !.pc = "next", !.item = Nothing, !.rows = <<>>]
        /\ UNCHANGED <<row, cache>>

\* CompileDocumentSchema leaves the cache as it is.
FinishCompile ==
    /\ compiler.pc = "next" /\ compiler.todo = {}
    /\ cache' = IF compiler.base THEN Nothing ELSE cache
    /\ compiler' = Idle
    /\ UNCHANGED <<row, stored, reader>>

-----------------------------------------------------------------------------
\* Reading: the active generations, and then for each of them its tables, its
\* fields and its concepts, each by a query of its own.

NotReading == [pc |-> "idle", todo |-> {}, item |-> Nothing, model |-> Empty, models |-> {},
               disturbed |-> FALSE]

ActiveModels ==
    /\ reader.pc = "idle" /\ cache = Nothing
    /\ reader' = [NotReading EXCEPT !.pc = "tables",
                      !.todo = {[doc |-> d, gen |-> stored[d].gen] : d \in {d \in Doc : stored[d].active}}]
    /\ UNCHANGED <<row, stored, compiler, cache>>

Of(d, g, field) == IF stored[d].gen = g THEN stored[d][field] ELSE {}

LoadTables ==
    /\ reader.pc = "tables"
    /\ \E item \in reader.todo :
        reader' = [reader EXCEPT !.pc = "fields", !.item = item, !.todo = @ \ {item},
                                 !.model = [Empty EXCEPT !.tables = Of(item.doc, item.gen, "tables")]]
    /\ UNCHANGED <<row, stored, compiler, cache>>

LoadFields ==
    /\ reader.pc = "fields"
    /\ reader' = [reader EXCEPT !.pc = "concepts",
                                !.model.fields = Of(reader.item.doc, reader.item.gen, "fields")]
    /\ UNCHANGED <<row, stored, compiler, cache>>

LoadConcepts ==
    LET d == reader.item.doc
        g == reader.item.gen
    IN  /\ reader.pc = "concepts"
        /\ reader' = [reader EXCEPT !.pc = "tables", !.item = Nothing, !.model = Empty,
                          !.models = @ \cup {[doc |-> d, model |->
                              [reader.model EXCEPT !.concepts = stored[d].concepts[g]]]}]
        /\ UNCHANGED <<row, stored, compiler, cache>>

\* Whatever was compiled meanwhile, the models are cached.
KeepModels ==
    /\ reader.pc = "tables" /\ reader.todo = {}
    /\ cache' = [models |-> reader.models, disturbed |-> reader.disturbed]
    /\ reader' = NotReading
    /\ UNCHANGED <<row, stored, compiler>>

-----------------------------------------------------------------------------

Init ==
    /\ row = [d \in Doc |-> [active |-> 0, sheets |-> <<>>, live |-> TRUE]]
    /\ stored = [d \in Doc |-> [gen |-> 0, active |-> FALSE, tables |-> {}, fields |-> {},
                                concepts |-> [g \in 1 .. MaxGen |-> {}]]]
    /\ compiler = Idle
    /\ reader = NotReading
    /\ cache = Nothing

Next ==
    \/ \E d \in Doc : Publish(d) \/ Delete(d) \/ CompileDocumentSchema(d)
    \/ CompileBaseSchema \/ listSchemaSourceRows \/ ReplaceDocumentModel \/ FinishCompile
    \/ ActiveModels \/ LoadTables \/ LoadFields \/ LoadConcepts \/ KeepModels

-----------------------------------------------------------------------------

TypeOK ==
    /\ \A d \in Doc : row[d].active \in 0 .. MaxGen /\ Len(row[d].sheets) = row[d].active
    /\ compiler.pc \in {"idle", "next", "replace"}
    /\ reader.pc \in {"idle", "tables", "fields", "concepts"}

\* Row i stands below header h, no row missing and no header between.
Below(rows, h, i) ==
    /\ h < i /\ rows[h].kind = "header"
    /\ \A k \in h + 1 .. i : rows[k].kind # "header" /\ rows[k].at = rows[k - 1].at + 1

CompiledRight(rows) ==
    LET model == CompileDocument(rows) IN
    /\ Validate(model)
    /\ {<<f.table, f.name>> : f \in model.fields} =
           {<<q[1], rows[q[2]].name>> : q \in
               {p \in (DOMAIN rows) \X (DOMAIN rows) :
                    Below(rows, p[1], p[2]) /\ rows[p[2]].kind \in {"field", "title"}}}
    /\ \A t \in model.tables :
           t.id > 1 /\ rows[t.id - 1].kind = "title"
               /\ (\A h \in DOMAIN rows : ~Below(rows, h, t.id - 1))
           => t.title = rows[t.id - 1].name

\* compile.go: the model of any published sheet has exactly the names that stand
\* below a header, each with the table of that header, once, and can be stored; a
\* table is called by the title right above its header, unless that title ended the
\* table before (it is then a field of that one).
CompiledIsSound == \A d \in Doc : \A g \in 1 .. row[d].active : CompiledRight(row[d].sheets[g])

\* store.go: what is stored of a document, and what was loaded while nothing was
\* replaced, is the model of one of its generations, or nothing.
Whole(d, model) ==
    model \in {Empty} \cup {CompileDocument(row[d].sheets[g]) : g \in 1 .. row[d].active}

SchemaIsWhole ==
    /\ \A d \in Doc : stored[d].gen > 0 =>
        Whole(d, [tables |-> stored[d].tables, fields |-> stored[d].fields,
                  concepts |-> stored[d].concepts[stored[d].gen]])
    /\ cache # Nothing => cache.disturbed \/ \A m \in cache.models : Whole(m.doc, m.model)
=============================================================================
