--------------------------- MODULE AgentRegistry ---------------------------
(***************************************************************************)
(* api-server/src/agents/repository.ts and the handlers over it: the rows  *)
(* of one (namespace, name) in the tables agents and agent_versions, and   *)
(* the requests that read and change them.  Every SQL statement is a step; *)
(* no request uses a transaction, so others run between its statements.    *)
(*                                                                         *)
(* The spec, labels and annotations of a row are one content: under each   *)
(* of their top-level keys the request whose value it has.                 *)
(***************************************************************************)
EXTENDS Naturals, Sequences, FiniteSets

CONSTANTS
  Requests,   \* the requests for this agent
  Failing,    \* those whose statements the database may reject
  Keys        \* the top-level keys of a content

VARIABLES
  agents,     \* table agents: the rows in the order of their insertion
  versions,   \* table agent_versions
  request,    \* what each request does and has read
  past        \* every content a version of a row has had

registryVars == <<agents, versions, request, past>>

Ops  == {"create", "get", "update", "rollback", "delete", "run", "version"}
Done == {"ok", "notFound", "conflict", "failed"}

\* Values that none of Requests wrote, and a content of them.
Contents == [Keys -> Requests \cup {"other"}]
First    == [k \in Keys |-> "other"]

\* A row as a request holds it: id is its place in the table.
NoRow == [id |-> 0, version |-> 0, content |-> First]

\* The row that WHERE deleted_at IS NULL selects, at most one: partial unique index.
Live == {i \in DOMAIN agents : agents[i].live}
Selected ==
  IF Live = {} THEN NoRow
  ELSE LET i == CHOOSE i \in Live : TRUE
       IN [id |-> i, version |-> agents[i].version, content |-> agents[i].content]

\* One agent exists, created by nobody of Requests.
RegistryInit ==
  /\ agents = <<[version |-> 1, content |-> First, live |-> TRUE]>>
  /\ versions = {}
  /\ past = {[id |-> 1, version |-> 1, content |-> First]}
  /\ request \in [Requests -> [op : Ops, at : {"start"}, row : {NoRow}, target : {NoRow}]]

\* "spec || $n": a key of the patch replaces the value under the same key, whole.
Merged(content, r, patch) == [k \in Keys |-> IF k \in patch THEN r ELSE content[k]]

Goes(r, at) == request' = [request EXCEPT ![r].at = at]

At(r, op, at) == request[r].op = op /\ request[r].at = at
-----------------------------------------------------------------------------
\* CreateAgent: the name is free, then INSERT, which the index may still refuse.
CreateFinds(r) ==
  /\ At(r, "create", "start")
  /\ Goes(r, IF Live = {} THEN "insert" ELSE "conflict")
  /\ UNCHANGED <<agents, versions, past>>

Insert(r) ==
  /\ At(r, "create", "insert")
  /\ Live = {}
  /\ agents' = Append(agents, [version |-> 1, content |-> Merged(First, r, Keys), live |-> TRUE])
  /\ past' = past \cup {[id |-> Len(agents) + 1, version |-> 1,
                         content |-> Merged(First, r, Keys)]}
  /\ Goes(r, "ok")
  /\ UNCHANGED versions

\* GetAgent, and the first half of a run: the live row.
Get(r) ==
  /\ request[r].op \in {"get", "run"} /\ request[r].at = "start"
  /\ request' = [request EXCEPT ![r].row = Selected,
                                ![r].at = IF Live = {} THEN "notFound"
                                          ELSE IF request[r].op = "run" THEN "begin" ELSE "ok"]
  /\ UNCHANGED <<agents, versions, past>>

\* POST run: the workflow starts with what was read, under an id of its own.
StartWorkflow(r) ==
  /\ At(r, "run", "begin")
  /\ Goes(r, "ok")
  /\ UNCHANGED <<agents, versions, past>>

\* softDelete.
Delete(r) ==
  /\ At(r, "delete", "start")
  /\ agents' = [i \in DOMAIN agents |-> [agents[i] EXCEPT !.live = FALSE]]
  /\ Goes(r, IF Live = {} THEN "notFound" ELSE "ok")
  /\ UNCHANGED <<versions, past>>
-----------------------------------------------------------------------------
\* getVersion: any row of the name with the version, whichever agent's it was.
GetVersion(r) ==
  /\ request[r].op \in {"rollback", "version"} /\ request[r].at = "start"
  /\ \/ \E s \in versions :
          request' = IF request[r].op = "version"
                     THEN [request EXCEPT ![r].row = s, ![r].at = "ok"]
                     ELSE [request EXCEPT ![r].target = s, ![r].at = "find"]
     \/ Goes(r, "notFound")   \* of a version nobody stored
  /\ UNCHANGED <<agents, versions, past>>

\* findByNamespaceAndName of update and of rollbackToVersion.
FindCurrent(r) ==
  /\ At(r, "update", "start") \/ At(r, "rollback", "find")
  /\ request' = [request EXCEPT ![r].row = Selected,
                                ![r].at = IF Live /= {} THEN "snapshot"
                                          ELSE IF request[r].op = "update" THEN "write"
                                          ELSE "notFound"]
  /\ UNCHANGED <<agents, versions, past>>

SnapshotOfLatest(r) ==
  /\ request[r].at = "snapshot"
  /\ versions' = versions \cup
       {[request[r].row EXCEPT !.version = IF Live = {} THEN @ ELSE Selected.version]}
  /\ Goes(r, "write")
  /\ UNCHANGED <<agents, past>>

\* createVersionSnapshot of the row that was read.
Snapshot(r) ==
  /\ request[r].at = "snapshot"
  /\ versions' = versions \cup {request[r].row}
  /\ Goes(r, "write")
  /\ UNCHANGED <<agents, past>>

\* It fails: an update goes on, a rollback does not.
SnapshotFails(r) ==
  /\ r \in Failing
  /\ request[r].at = "snapshot"
  /\ Goes(r, IF request[r].op = "update" THEN "write" ELSE "failed")
  /\ UNCHANGED <<agents, versions, past>>

\* UPDATE ... SET version = version + 1 WHERE deleted_at IS NULL.
Write(r, content) ==
  LET i == Selected.id
  IN IF Live = {} THEN Goes(r, "notFound") /\ UNCHANGED <<agents, past>>
     ELSE /\ agents' = [agents EXCEPT ![i].version = @ + 1, ![i].content = content]
          /\ past' = past \cup {[id |-> i, version |-> agents[i].version + 1,
                                 content |-> content]}
          /\ Goes(r, "ok")

\* The patch is merged into what the row holds now, not into what was read.
Update(r) ==
  /\ At(r, "update", "write")
  /\ \E patch \in SUBSET Keys : Write(r, Merged(Selected.content, r, patch))
  /\ UNCHANGED versions

\* With neither spec nor labels nor annotations the row is only read again.
NothingToSet(r) ==
  /\ At(r, "update", "write")
  /\ request' = [request EXCEPT ![r].row = Selected,
                                ![r].at = IF Live = {} THEN "notFound" ELSE "ok"]
  /\ UNCHANGED <<agents, versions, past>>

Restore(r) ==
  /\ At(r, "rollback", "write")
  /\ Write(r, request[r].target.content)
  /\ UNCHANGED versions

\* Any other statement is rejected: 500, and nothing of it happened.
QueryFails(r) ==
  /\ r \in Failing
  /\ request[r].at \notin Done \cup {"snapshot"}
  /\ Goes(r, "failed")
  /\ UNCHANGED <<agents, versions, past>>

RegistryStep(r) ==
  \/ CreateFinds(r) \/ Insert(r) \/ Get(r) \/ StartWorkflow(r) \/ Delete(r)
  \/ GetVersion(r) \/ FindCurrent(r) \/ Snapshot(r) \/ SnapshotFails(r)
  \/ Update(r) \/ NothingToSet(r) \/ Restore(r) \/ QueryFails(r)

RegistryNext == \E r \in Requests : RegistryStep(r)

RegistrySpec == RegistryInit /\ [][RegistryNext]_registryVars
-----------------------------------------------------------------------------
Rows == [id : Nat, version : Nat, content : Contents]

RegistryTypeOK ==
  /\ \A i \in DOMAIN agents :
       agents[i] \in [version : Nat \ {0}, content : Contents, live : BOOLEAN]
  /\ Cardinality(Live) <= 1
  /\ versions \subseteq Rows /\ past \subseteq Rows
  /\ \A r \in Requests : request[r].row \in Rows /\ request[r].target \in Rows

\* A version of an agent is one content for ever: what the history keeps under a
\* version, and what any request read of it, is what that version really was,
\* however updates, rollbacks, deletions and creations interleave.
VersionsFaithful ==
  /\ versions \subseteq past
  /\ \A r \in Requests : request[r].row \in past \cup {NoRow}
  /\ \A p, q \in past : p.id = q.id /\ p.version = q.version => p = q

\* migrations/008_agent_versions.sql, line 2: "Tracks every version of an agent's
\* spec for rollback capability": a version that was superseded is in the history.
EveryVersionTracked ==
  \A p \in past : agents[p.id].version > p.version => p \in versions

\* The same line: what a rollback is about to write back is a version of the agent
\* it writes to; broken by a deletion and another agent of the name, since versions
\* are found by name.
RestoredIsOwn ==
  \A r \in Requests :
    At(r, "rollback", "write") /\ Live /= {} => request[r].target.id = Selected.id
=============================================================================
