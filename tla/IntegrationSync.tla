---- MODULE IntegrationSync --------------------------------------------------
(****************************************************************************)
(* Integrations, their calls, and the synchronisation of records.  These    *)
(* share no state; each has its own section.                                *)
(****************************************************************************)
EXTENDS Naturals, Sequences, FiniteSets

(***************************************************************************)
(* An integration, its operations, credentials and connections             *)
(* (tools/integration_tools.rs, routes/integrations.rs) and the executor's *)
(* calls (integrations/executor.rs).  The tool that deletes an integration *)
(* is five statements in no transaction, whose errors are ignored but for  *)
(* the last; an API call reads four tables one after the other.            *)
(*                                                                         *)
(* Foreign keys (migrations 20, 21, 22): rows go with their integration, a *)
(* connection whose credential goes keeps a NULL.                          *)
(***************************************************************************)
CONSTANTS
  Conns,       \* calls that create a connection, with its credential
  SameName,    \* those that ask for one and the same name
  ApiCalls     \* calls through the executor

VARIABLES
  integration, \* the row exists
  operations,  \* it has operations
  credential,  \* credentials that exist
  connection,  \* per creator: "none", "linked", "unlinked" (NULL) or "gone"
  creating,    \* creators between their two INSERTs
  deleting,    \* statements of delete_integration still to do, 0 for none
  apiCall,     \* stage of each call
  through,     \* the connection it goes through
  authorised,  \* the call found the credential it was to use
  spoilt       \* a statement failed or operations came back during a delete

integrationVars == <<integration, operations, credential, connection, creating,
                     deleting, apiCall, through, authorised, spoilt>>

calls == <<apiCall, through, authorised>>

Stages == {"idle", "connection", "credential", "sent", "error"}

IntegrationsInit ==
  /\ integration = FALSE /\ operations = FALSE
  /\ credential = {}
  /\ connection = [c \in Conns |-> "none"]
  /\ creating = {} /\ deleting = 0
  /\ apiCall = [x \in ApiCalls |-> "idle"]
  /\ through = [x \in ApiCalls |-> CHOOSE c \in Conns : TRUE]
  /\ authorised = [x \in ApiCalls |-> FALSE]
  /\ spoilt = FALSE

CreateIntegration ==
  /\ ~integration /\ deleting = 0
  /\ \A c \in Conns : connection[c] # "gone"
  /\ integration' = TRUE
  /\ UNCHANGED <<operations, credential, connection, creating, deleting, calls,
                 spoilt>>

\* Operations are upserted by create and update, each on its own.
UpsertOperations ==
  /\ integration /\ ~operations
  /\ operations' = TRUE
  /\ spoilt' = (spoilt \/ deleting # 0)
  /\ UNCHANGED <<integration, credential, connection, creating, deleting, calls>>

\* create_connection, tool and route: the credential,
StoreCredential(c) ==
  /\ integration /\ connection[c] = "none" /\ c \notin creating
  /\ credential' = credential \union {c}
  /\ creating' = creating \union {c}
  /\ UNCHANGED <<integration, operations, connection, deleting, calls, spoilt>>

NameTaken(c) ==
  \E d \in SameName : c \in SameName /\ connection[d] \in {"linked", "unlinked"}

\* then the connection.  A name that is taken or a credential that went makes
\* the second INSERT fail, and the credential stays behind.
InsertConnection(c) ==
  /\ c \in creating
  /\ connection' = [connection EXCEPT ![c] =
       IF c \in credential /\ ~NameTaken(c) THEN "linked" ELSE "gone"]
  /\ creating' = creating \ {c}
  /\ UNCHANGED <<integration, operations, credential, deleting, calls, spoilt>>

\* The route deletes the connection and leaves its credential.
DeleteConnection(c) ==
  /\ connection[c] \in {"linked", "unlinked"}
  /\ connection' = [connection EXCEPT ![c] = "gone"]
  /\ UNCHANGED <<integration, operations, credential, creating, deleting, calls,
                 spoilt>>

BeginDelete ==
  /\ integration /\ deleting = 0
  /\ deleting' = 5
  /\ UNCHANGED <<integration, operations, credential, connection, creating,
                 calls, spoilt>>

Unlink(f) == [c \in Conns |-> IF f[c] = "linked" THEN "unlinked" ELSE f[c]]
Drop(f) ==
  [c \in Conns |-> IF f[c] \in {"linked", "unlinked"} THEN "gone" ELSE f[c]]

\* Operations, sync configurations (not kept here), credentials, connections,
\* and the integration, which takes whatever is left of it along.
DeleteStep ==
  /\ deleting > 0
  /\ deleting' = deleting - 1
  /\ operations' = (operations /\ deleting \notin {1, 5})
  /\ credential' = IF deleting \in {1, 3} THEN {} ELSE credential
  /\ connection' = CASE deleting = 3 -> Unlink(connection)
                     [] deleting \in {1, 2} -> Drop(connection)
                     [] OTHER -> connection
  /\ integration' = (integration /\ deleting # 1)
  /\ UNCHANGED <<creating, calls, spoilt>>

\* A statement fails and the tool goes on; or it stops for good.
DeleteStepFails ==
  /\ deleting > 0
  /\ deleting' \in {deleting - 1, 0}
  /\ spoilt' = TRUE
  /\ UNCHANGED <<integration, operations, credential, connection, creating,
                 calls>>

To(x, stage) == apiCall' = [apiCall EXCEPT ![x] = stage]
rows == <<integration, operations, credential, connection, creating, deleting,
          spoilt>>

\* execute: the connection,
ReadConnection(x, c) ==
  /\ apiCall[x] = "idle"
  /\ connection[c] \in {"linked", "unlinked"}
  /\ To(x, "connection")
  /\ through' = [through EXCEPT ![x] = c]
  /\ authorised' = [authorised EXCEPT ![x] = connection[c] = "linked"]
  /\ UNCHANGED rows

\* the integration and the credential: one that is gone is like none,
ReadCredential(x) ==
  /\ apiCall[x] = "connection"
  /\ IF integration
       THEN /\ To(x, "credential")
            /\ authorised' = [authorised EXCEPT ![x] =
                                @ /\ through[x] \in credential]
       ELSE To(x, "error") /\ UNCHANGED authorised
  /\ UNCHANGED <<through, rows>>

\* and the operation, without which there is no call.
ReadOperation(x) ==
  /\ apiCall[x] = "credential"
  /\ To(x, IF operations THEN "sent" ELSE "error")
  /\ UNCHANGED <<through, authorised, rows>>

IntegrationsNext ==
  \/ CreateIntegration \/ UpsertOperations
  \/ BeginDelete \/ DeleteStep \/ DeleteStepFails
  \/ \E c \in Conns :
       StoreCredential(c) \/ InsertConnection(c) \/ DeleteConnection(c)
  \/ \E x \in ApiCalls :
       \/ ReadCredential(x) \/ ReadOperation(x)
       \/ \E c \in Conns : ReadConnection(x, c)

IntegrationsTypeOK ==
  /\ integration \in BOOLEAN /\ operations \in BOOLEAN /\ spoilt \in BOOLEAN
  /\ credential \subseteq Conns /\ creating \subseteq Conns
  /\ connection \in [Conns -> {"none", "linked", "unlinked", "gone"}]
  /\ deleting \in 0 .. 5
  /\ apiCall \in [ApiCalls -> Stages] /\ through \in [ApiCalls -> Conns]
  /\ authorised \in [ApiCalls -> BOOLEAN]

\* A call that was to carry a credential never goes out without it, although the
\* executor takes a missing credential row for none: while an integration is
\* deleted, its operations go before its credentials and are read after them.
\* Only a failed statement or operations upserted meanwhile break this.
NoBareCalls ==
  \A x \in ApiCalls : apiCall[x] = "sent" /\ ~authorised[x] => spoilt

\* A connection without credential is a deletion's: either it is between its
\* third and fourth statement or one of its statements failed.
UnlinkedByDeletion ==
  (\E c \in Conns : connection[c] = "unlinked") => spoilt \/ deleting = 2

(***************************************************************************)
(* A sync of an integration (integrations/etl.rs): fetch pages from where  *)
(* the cursor stands, save the cursor, then load record by record, each in *)
(* three statements in no transaction.  Runs are triggered by a tool and a *)
(* route; nothing keeps two of them apart.  Pages hold one record; the     *)
(* transformation of fields keeps a record's identity and version.         *)
(***************************************************************************)
CONSTANTS
  SyncRuns,          \* runs of the pipeline that may overlap
  RemoteTotal,         \* records the source ever has, in the order of the cursor
  MaxVersion,    \* versions a record goes through
  MaxPages,      \* the limit on pages of a run
  MaxFaults,     \* failed statements, and deletions by users
  NoRow          \* a record that was never synchronised

VARIABLES
  mode,          \* sync_mode of the configuration, "none" before it exists
  remote,        \* the source: the version of each record it has
  cursor,        \* cursor_value: the last record fetched, 0 for none
  phase, batch,  \* of each run; what it fetched: <<record, version>>
  from,          \* where its cursor stands
  found,         \* the sync row it read for the record at the head
  data,          \* dynamic records: <<record, id, version>>
  made,          \* ids given to them
  syncRow,       \* per record: [id |-> of the dynamic one, hash |-> version]
  lost,          \* records whose load failed
  overlapped,    \* two runs were under way at once
  etlFaults

etlVars == <<mode, remote, cursor, phase, batch, from, found, data,
             made, syncRow, lost, overlapped, etlFaults>>

Records == 1 .. RemoteTotal
Phases == {"idle", "fetch", "check", "insert", "link", "update", "hash"}

EtlSyncInit ==
  /\ mode = "none"
  /\ remote = <<>> /\ cursor = 0
  /\ phase = [r \in SyncRuns |-> "idle"] /\ batch = [r \in SyncRuns |-> <<>>]
  /\ from = [r \in SyncRuns |-> 0]
  /\ found = [r \in SyncRuns |-> NoRow]
  /\ data = {} /\ made = 0 /\ syncRow = [i \in Records |-> NoRow]
  /\ lost = {} /\ overlapped = FALSE /\ etlFaults = 0

run == <<phase, batch, from, found>>
tables == <<data, made, syncRow>>

CreateSyncConfig(m) ==
  /\ mode = "none" /\ mode' = m
  /\ UNCHANGED <<remote, cursor, run, tables, lost, overlapped, etlFaults>>

\* The source gains a record, or one of its records changes.
SourceChanges ==
  /\ \/ Len(remote) < RemoteTotal /\ remote' = Append(remote, 1)
     \/ \E i \in DOMAIN remote :
          remote[i] < MaxVersion /\ remote' = [remote EXCEPT ![i] = @ + 1]
  /\ UNCHANGED <<mode, cursor, run, tables, lost, overlapped, etlFaults>>

Moves(r, p) == phase' = [phase EXCEPT ![r] = p]

\* run, and load_or_create_cursor; full syncs ignore the cursor's value.
StartRun(r) ==
  /\ mode # "none" /\ phase[r] = "idle"
  /\ Moves(r, "fetch")
  /\ from' = [from EXCEPT ![r] = IF mode = "incremental" THEN cursor ELSE 0]
  /\ overlapped' = (overlapped \/ \E q \in SyncRuns : phase[q] # "idle")
  /\ UNCHANGED <<mode, remote, cursor, batch, found, tables, lost, etlFaults>>

\* Another page: a full sync takes one, an incremental one up to the limit.
MorePages(r) ==
  /\ from[r] < Len(remote)
  /\ Len(batch[r]) < (IF mode = "full" THEN 1 ELSE MaxPages)

FetchPage(r) ==
  /\ phase[r] = "fetch" /\ MorePages(r)
  /\ batch' = [batch EXCEPT ![r] = Append(@, <<from[r] + 1, remote[from[r] + 1]>>)]
  /\ from' = [from EXCEPT ![r] = @ + 1]
  /\ UNCHANGED <<mode, remote, cursor, phase, found, tables, lost, overlapped,
                 etlFaults>>

Abort(r) ==
  /\ Moves(r, "idle")
  /\ batch' = [batch EXCEPT ![r] = <<>>]
  /\ from' = [from EXCEPT ![r] = 0]
  /\ found' = [found EXCEPT ![r] = NoRow]

\* A request fails: the run ends, its pages are dropped, the cursor stays.
FetchFails(r) ==
  /\ phase[r] = "fetch"
  /\ Abort(r)
  /\ UNCHANGED <<mode, remote, cursor, tables, lost, overlapped, etlFaults>>

\* Mutant of SaveCursor: the cursor moves past the page not fetched.
SaveCursorBeyond(r) ==
  /\ phase[r] = "fetch" /\ Len(batch[r]) > 0 /\ ~MorePages(r)
  /\ cursor' = from[r] + 1
  /\ Moves(r, "check")
  /\ UNCHANGED <<mode, remote, batch, from, found, tables, lost,
                 overlapped, etlFaults>>

\* update_cursor, before anything is loaded.
SaveCursor(r) ==
  /\ phase[r] = "fetch"
  /\ Len(batch[r]) > 0 => ~MorePages(r)
  /\ from[r] = Len(remote) \/ Len(batch[r]) > 0
  /\ cursor' = IF Len(batch[r]) > 0 THEN from[r] ELSE cursor
  /\ Moves(r, "check")
  /\ from' = [from EXCEPT ![r] = 0]
  /\ UNCHANGED <<mode, remote, batch, found, tables, lost,
                 overlapped, etlFaults>>

Id(r) == Head(batch[r])[1]
Version(r) == Head(batch[r])[2]
NextRecord(r) ==
  /\ Moves(r, "check")
  /\ batch' = [batch EXCEPT ![r] = Tail(@)]
  /\ found' = [found EXCEPT ![r] = NoRow]

\* upsert_record reads the sync row; equal hashes end it.
Check(r) ==
  /\ phase[r] = "check" /\ batch[r] # <<>>
  /\ LET row == syncRow[Id(r)]
     IN \/ row = NoRow /\ Moves(r, "insert") /\ UNCHANGED <<batch, found>>
        \/ row # NoRow /\ row.hash = Version(r) /\ NextRecord(r)
        \/ /\ row # NoRow /\ row.hash # Version(r)
           /\ found' = [found EXCEPT ![r] = row]
           /\ Moves(r, "update") /\ UNCHANGED batch
  /\ UNCHANGED <<mode, remote, cursor, from, tables, lost, overlapped,
                 etlFaults>>

KeepCursor == UNCHANGED <<mode, remote, cursor, overlapped, made>>
Keep == KeepCursor /\ UNCHANGED from

InsertData(r) ==
  /\ phase[r] = "insert"
  /\ made' = made + 1
  /\ data' = data \union {<<Id(r), made', Version(r)>>}
  /\ found' = [found EXCEPT ![r] = [id |-> made', hash |-> Version(r)]]
  /\ Moves(r, "link")
  /\ UNCHANGED <<mode, remote, cursor, from, overlapped, batch, syncRow,
                 lost, etlFaults>>

\* The unique index refuses a second sync row; the record stays, unlinked.
InsertSyncRow(r) ==
  /\ phase[r] = "link"
  /\ IF syncRow[Id(r)] = NoRow
       THEN /\ syncRow' = [syncRow EXCEPT ![Id(r)] = found[r]]
            /\ UNCHANGED lost
       ELSE lost' = lost \union {Id(r)} /\ UNCHANGED syncRow
  /\ NextRecord(r)
  /\ Keep /\ UNCHANGED <<data, etlFaults>>

\* The internal record, if it is still there,
Updated(r) ==
  {IF d[2] = found[r].id THEN <<d[1], d[2], Version(r)>> ELSE d :
     d \in data}

\* Mutant of UpdateData: the hash is written first.
UpdateHashFirst(r) ==
  /\ phase[r] = "update"
  /\ syncRow' = [syncRow EXCEPT ![Id(r)].hash = Version(r)]
  /\ Moves(r, "hash")
  /\ Keep /\ UNCHANGED <<found, data, batch, lost, etlFaults>>

UpdateData(r) ==
  /\ phase[r] = "update"
  /\ data' = Updated(r)
  /\ Moves(r, "hash")
  /\ Keep /\ UNCHANGED <<found, batch, syncRow, lost, etlFaults>>

\* then the hash of what it holds.
UpdateHash(r) ==
  /\ phase[r] = "hash"
  /\ syncRow' = [syncRow EXCEPT ![Id(r)].hash = Version(r)]
  /\ NextRecord(r)
  /\ Keep /\ UNCHANGED <<data, lost, etlFaults>>

\* Any statement of a record fails: the run notes it and goes on.
StatementFails(r) ==
  /\ phase[r] \in {"insert", "link", "update", "hash"}
  /\ etlFaults < MaxFaults /\ etlFaults' = etlFaults + 1
  /\ lost' = lost \union {Id(r)}
  /\ NextRecord(r)
  /\ Keep /\ UNCHANGED <<data, syncRow>>

\* The process dies, or the table of the target is gone: nothing is loaded.
RunDies(r) ==
  /\ phase[r] \notin {"idle", "fetch"}
  /\ etlFaults < MaxFaults /\ etlFaults' = etlFaults + 1
  /\ lost' = lost \union {batch[r][i][1] : i \in DOMAIN batch[r]}
  /\ Abort(r)
  /\ KeepCursor /\ UNCHANGED <<data, syncRow>>

\* update_sync_config_status: the outcome is noted on the configuration.
RunEnds(r) ==
  /\ phase[r] = "check" /\ batch[r] = <<>>
  /\ Abort(r)
  /\ KeepCursor /\ UNCHANGED <<data, syncRow, lost, etlFaults>>

\* Users delete internal records; the sync row keeps the id.
DeleteRecord ==
  /\ etlFaults < MaxFaults /\ etlFaults' = etlFaults + 1
  /\ \E d \in data : data' = data \ {d}
  /\ UNCHANGED <<mode, remote, cursor, run, made, syncRow, lost, overlapped>>

EtlSyncNext ==
  \/ \E m \in {"full", "incremental"} : CreateSyncConfig(m)
  \/ SourceChanges \/ DeleteRecord
  \/ \E r \in SyncRuns :
       \/ StartRun(r) \/ FetchPage(r) \/ FetchFails(r) \/ SaveCursor(r)
       \/ Check(r) \/ InsertData(r) \/ InsertSyncRow(r) \/ UpdateData(r)
       \/ UpdateHash(r) \/ StatementFails(r) \/ RunDies(r) \/ RunEnds(r)

EtlSyncTypeOK ==
  /\ mode \in {"none", "full", "incremental"}
  /\ Len(remote) <= RemoteTotal /\ cursor \in 0 .. RemoteTotal
  /\ phase \in [SyncRuns -> Phases]
  /\ data \subseteq Records \X (1 .. made) \X (1 .. MaxVersion)
  /\ lost \subseteq Records /\ etlFaults \in 0 .. MaxFaults
  /\ \A i \in Records :
       syncRow[i] # NoRow => syncRow[i] \in [id : 1 .. made, hash : 1 .. MaxVersion]

\* The cursor is saved before the load: a record behind it is synchronised, in
\* the batch of a run, or its load failed, in which case no incremental run
\* meets it again.
NothingSkipped ==
  \A i \in 1 .. cursor :
    \/ syncRow[i] # NoRow
    \/ i \in lost
    \/ \E r \in SyncRuns : \E k \in DOMAIN batch[r] : batch[r][k][1] = i

\* One internal record per record of the source, unless runs overlapped or a
\* statement was lost between the record and its sync row.
SyncedOnce ==
  ~overlapped /\ lost = {} =>
    \A d, e \in data : d[1] = e[1] => d = e

\* A hash that says "nothing new" is never ahead of the data it stands for: the
\* record is updated before its hash, so a crash in between is repaired by the
\* next run that meets the record.
HashNotAhead ==
  ~overlapped =>
    \A d \in data : LET row == syncRow[d[1]]
                    IN row # NoRow /\ row.id = d[2] => row.hash <= d[3]

(****************************************************************************)
(* All of it.                                                               *)
(****************************************************************************)
integrationSyncVars == <<integrationVars, etlVars>>

Init ==
  /\ IntegrationsInit
  /\ EtlSyncInit

Next ==
  \/ IntegrationsNext /\ UNCHANGED etlVars
  \/ EtlSyncNext /\ UNCHANGED integrationVars

Spec == Init /\ [][Next]_integrationSyncVars

TypeOK ==
  /\ IntegrationsTypeOK
  /\ EtlSyncTypeOK
==============================================================================
