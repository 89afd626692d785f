---- MODULE RecordKeeping ----------------------------------------------------
(****************************************************************************)
(* Collections with their records, and the history of an entity.  These     *)
(* share no state; each has its own section.                                *)
(****************************************************************************)
EXTENDS Naturals, FiniteSets

(***************************************************************************)
(* One collection and its records (schema.rs, tools/schema_tools.rs,       *)
(* routes/data.rs).  Every call is a read, a decision in memory and a      *)
(* statement, and the collection may be redefined, deleted and made again  *)
(* in between.  A field holds nothing, a value of its type or a value of   *)
(* another type; a null is not told from nothing.                          *)
(***************************************************************************)
CONSTANTS
  Fields,       \* names of fields
  RecordIds,    \* records, each made at most once
  DataCalls,    \* callers of tools and routes
  MaxDefines    \* definitions of a run of the model

VARIABLES
  collection,  \* [id, edition, fields]; id 0 when there is none
  defines,     \* definitions so far
  rows,        \* per record: [id, edition, data, updated]; id 0: no such row
  written,     \* per record: what the last writer of each field wrote
  unused,      \* records never inserted
  dataCalls,   \* per caller: the statement it is about to run
  farewells    \* per record: RecordDeleted events sent

recordVars == <<collection, defines, rows, written, unused, dataCalls, farewells>>

FieldRules == {"optional", "required", "defaulted"}
Values == {"nothing", "right", "wrong"}
Blank == [f \in Fields |-> "nothing"]
NoCollection == [id |-> 0, edition |-> 0, fields |-> [f \in Fields |-> "optional"]]
NoRecord == [id |-> 0, edition |-> 0, data |-> Blank, updated |-> FALSE]
NoCall == [step |-> "none", record |-> {}, id |-> 0, edition |-> 0, data |-> Blank]

SchemaRecordsInit ==
  /\ collection = NoCollection /\ defines = 0
  /\ rows = [r \in RecordIds |-> NoRecord]
  /\ written = [r \in RecordIds |-> Blank]
  /\ unused = RecordIds
  /\ dataCalls = [c \in DataCalls |-> NoCall]
  /\ farewells = [r \in RecordIds |-> 0]

\* Insert, or replace the fields of the collection of that name; its records
\* are left as they are.
DefineCollection(fields) ==
  /\ defines < MaxDefines
  /\ defines' = defines + 1
  /\ collection' = [id |-> IF collection.id = 0 THEN defines + 1 ELSE collection.id,
                    edition |-> defines + 1, fields |-> fields]
  /\ UNCHANGED <<rows, written, unused, dataCalls, farewells>>

\* The records go with their collection (ON DELETE CASCADE), without events.
DeleteCollection ==
  /\ collection.id # 0
  /\ collection' = NoCollection
  /\ rows' = [r \in RecordIds |-> NoRecord]
  /\ UNCHANGED <<defines, written, unused, dataCalls, farewells>>

Valid(fields, data) ==
  \A f \in Fields : /\ fields[f] = "required" => data[f] # "nothing"
                    /\ data[f] # "wrong"

WithDefaults(fields, data) ==
  [f \in Fields |-> IF data[f] = "nothing" /\ fields[f] = "defaulted"
                      THEN "right" ELSE data[f]]

Merged(old, new) == [f \in Fields |-> IF new[f] = "nothing" THEN old[f] ELSE new[f]]

Call(c, step, r, id, edition, data) ==
  dataCalls' = [dataCalls EXCEPT ![c] = [step |-> step, record |-> {r},
                  id |-> id, edition |-> edition, data |-> data]]

\* The fields are read, the defaults filled in, the data validated.
CreateRecord(c, r, data) ==
  /\ dataCalls[c].step = "none" /\ collection.id # 0 /\ r \in unused
  /\ Valid(collection.fields, WithDefaults(collection.fields, data))
  /\ Call(c, "insert", r, collection.id, collection.edition,
          WithDefaults(collection.fields, data))
  /\ unused' = unused \ {r}
  /\ UNCHANGED <<collection, defines, rows, written, farewells>>

\* The foreign key refuses the row when the collection is gone.
InsertRecord(c) ==
  /\ dataCalls[c].step = "insert"
  /\ dataCalls' = [dataCalls EXCEPT ![c] = NoCall]
  /\ IF collection.id # dataCalls[c].id THEN UNCHANGED <<rows, written>>
     ELSE \E r \in dataCalls[c].record :
            /\ rows' = [rows EXCEPT ![r] =
                 [id |-> dataCalls[c].id, edition |-> dataCalls[c].edition,
                  data |-> dataCalls[c].data, updated |-> FALSE]]
            /\ written' = [written EXCEPT ![r] = dataCalls[c].data]
  /\ UNCHANGED <<collection, defines, unused, farewells>>

\* The row is looked up for the name of its collection; the data of the caller
\* is not validated.
UpdateRecord(c, r, data) ==
  /\ dataCalls[c].step = "none" /\ rows[r].id # 0
  /\ Call(c, "update", r, rows[r].id, rows[r].edition, data)
  /\ UNCHANGED <<collection, defines, rows, written, unused, farewells>>

\* data || $1 in the statement.  A row deleted meanwhile is an error.
MergeRecord(c) ==
  /\ dataCalls[c].step = "update"
  /\ dataCalls' = [dataCalls EXCEPT ![c] = NoCall]
  /\ \E r \in dataCalls[c].record :
       IF rows[r].id = 0 THEN UNCHANGED <<rows, written>>
       ELSE /\ rows' = [rows EXCEPT ![r].data = Merged(@, dataCalls[c].data),
                                    ![r].updated = TRUE]
            /\ written' = [written EXCEPT ![r] = Merged(@, dataCalls[c].data)]
  /\ UNCHANGED <<collection, defines, unused, farewells>>

\* The row is read for the event first.
DeleteRecord(c, r) ==
  /\ dataCalls[c].step = "none" /\ rows[r].id # 0
  /\ Call(c, "delete", r, rows[r].id, rows[r].edition, rows[r].data)
  /\ UNCHANGED <<collection, defines, rows, written, unused, farewells>>

\* No row deleted: an error and no event.
RemoveRecord(c) ==
  /\ dataCalls[c].step = "delete"
  /\ dataCalls' = [dataCalls EXCEPT ![c] = NoCall]
  /\ \E r \in dataCalls[c].record :
       /\ rows' = [rows EXCEPT ![r] = NoRecord]
       /\ farewells' = [farewells EXCEPT ![r] = IF rows[r].id = 0 THEN @ ELSE @ + 1]
  /\ UNCHANGED <<collection, defines, written, unused>>

SchemaRecordsNext ==
  \/ \E fields \in [Fields -> FieldRules] : DefineCollection(fields)
  \/ DeleteCollection
  \/ \E c \in DataCalls :
       \/ InsertRecord(c) \/ MergeRecord(c) \/ RemoveRecord(c)
       \/ \E r \in RecordIds :
            \/ DeleteRecord(c, r)
            \/ \E data \in [Fields -> Values] :
                 CreateRecord(c, r, data) \/ UpdateRecord(c, r, data)

SchemaRecordsTypeOK ==
  /\ collection.id \in 0 .. MaxDefines /\ collection.fields \in [Fields -> FieldRules]
  /\ defines \in 0 .. MaxDefines
  /\ \A r \in RecordIds : rows[r].data \in [Fields -> Values]
  /\ unused \subseteq RecordIds
  /\ \A c \in DataCalls :
       dataCalls[c].step \in {"none", "insert", "update", "delete"}

\* Only an update or a new definition leaves a record that the fields of its
\* collection would refuse: what was created under them satisfies them, required
\* fields and defaults included, and belongs to the collection that stands
\* (create_record).
InvalidOnlyLater ==
  \A r \in RecordIds : rows[r].id # 0 =>
    /\ rows[r].id = collection.id
    /\ rows[r].edition = collection.edition /\ ~rows[r].updated =>
         /\ Valid(collection.fields, rows[r].data)
         /\ \A f \in Fields : collection.fields[f] = "defaulted" =>
              rows[r].data[f] # "nothing"

\* Updates of two callers merge field by field: each field holds what its last
\* writer wrote, although each caller looked at the row before (update_record).
UpdatesMerge ==
  \A r \in RecordIds : rows[r].id # 0 => rows[r].data = written[r]

\* However many callers delete a record, automations hear of its end at most
\* once, and only when it is gone (delete_record).
DeletedOnce ==
  \A r \in RecordIds : farewells[r] <= 1 /\ (farewells[r] = 1 => rows[r].id = 0)

(***************************************************************************)
(* The history of one entity (revisions.rs, routes/revisions.rs,           *)
(* tools/revision_tools.rs).  A revision is made in three statements: read *)
(* the highest version, read the snapshot of that version, insert.  The    *)
(* unique index on the version (migration 25) is all that keeps writers    *)
(* apart.  A revert copies an old snapshot into a new revision; the entity *)
(* itself is not touched.                                                  *)
(***************************************************************************)
CONSTANTS
  Writers,       \* calls of create_revision and revert_to_version
  Snapshots,     \* contents
  MaxRevisions,  \* revisions of a run of the model
  NoSnapshot     \* nothing read

VARIABLES
  revisions,  \* rows: [version, snapshot, base]; base is what the diff is from
  writing,    \* per writer: what it is about to write
  told        \* per writer: the version the call answered, 0 before

revisionVars == <<revisions, writing, told>>

Idle == [stage |-> "idle", snapshot |-> NoSnapshot, next |-> 0,
         base |-> NoSnapshot]

RevisionsInit ==
  /\ revisions = {}
  /\ writing = [w \in Writers |-> Idle]
  /\ told = [w \in Writers |-> 0]

Versions == {r.version : r \in revisions}
Latest == IF revisions = {} THEN 0
          ELSE CHOOSE v \in Versions : \A u \in Versions : u <= v

\* The next version is one above the highest.
Begin(w, s) ==
  /\ writing[w].stage = "idle"
  /\ Latest < MaxRevisions
  /\ writing' = [writing EXCEPT ![w] =
       [stage |-> "previous", snapshot |-> s, next |-> Latest + 1,
        base |-> NoSnapshot]]
  /\ told' = [told EXCEPT ![w] = 0]
  /\ UNCHANGED revisions

CreateRevision(w, s) == Begin(w, s)

\* get_revision of the target, whose snapshot is written again.
RevertToVersion(w, r) == r \in revisions /\ Begin(w, r.snapshot)

\* The snapshot before the next version is what the diff is computed from.
ReadPrevious(w) ==
  /\ writing[w].stage = "previous"
  /\ writing' = [writing EXCEPT ![w].stage = "insert",
       ![w].base = IF writing[w].next = 1 THEN NoSnapshot
                   ELSE (CHOOSE r \in revisions :
                           r.version = writing[w].next - 1).snapshot]
  /\ UNCHANGED <<revisions, told>>

\* The index refuses a version that another writer took meanwhile; the call
\* fails and is not repeated.
Insert(w) ==
  /\ writing[w].stage = "insert"
  /\ IF writing[w].next \in Versions
       THEN UNCHANGED <<revisions, told>>
       ELSE /\ revisions' = revisions \union
                 {[version |-> writing[w].next, snapshot |-> writing[w].snapshot,
                   base |-> writing[w].base]}
            /\ told' = [told EXCEPT ![w] = writing[w].next]
  /\ writing' = [writing EXCEPT ![w] = Idle]

RevisionsNext ==
  \E w \in Writers :
    \/ ReadPrevious(w) \/ Insert(w)
    \/ \E s \in Snapshots : CreateRevision(w, s)
    \/ \E r \in revisions : RevertToVersion(w, r)

RevisionsTypeOK ==
  /\ \A r \in revisions : r.version \in 1 .. MaxRevisions
       /\ r.snapshot \in Snapshots /\ r.base \in Snapshots \union {NoSnapshot}
  /\ \A w \in Writers : writing[w].stage \in {"idle", "previous", "insert"}
  /\ told \in [Writers -> 0 .. MaxRevisions]

\* The history is a line, whoever writes at once: versions count from 1 without
\* gap or double, so two calls never answer the same version, and the diff of
\* each is from the snapshot of the one before it (create_revision).
HistoryIsALine ==
  /\ Versions = 1 .. Cardinality(revisions)
  /\ \A r, p \in revisions :
       p.version + 1 = r.version => r.base = p.snapshot

(****************************************************************************)
(* All of it.                                                               *)
(****************************************************************************)
recordKeepingVars == <<recordVars, revisionVars>>

Init ==
  /\ SchemaRecordsInit
  /\ RevisionsInit

Next ==
  \/ SchemaRecordsNext /\ UNCHANGED revisionVars
  \/ RevisionsNext /\ UNCHANGED recordVars

Spec == Init /\ [][Next]_recordKeepingVars

TypeOK ==
  /\ SchemaRecordsTypeOK
  /\ RevisionsTypeOK
==============================================================================
