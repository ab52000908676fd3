--------------------------- MODULE ApiServer_proofs ---------------------------
(***************************************************************************)
(* What holds of the api-server's components for every number of requests, *)
(* readers and effects: the rows of an agent and the pages that list them, *)
(* the lock of an account, and the console.  Each component is shown to    *)
(* take the steps of its own next-state relation only; its invariant is    *)
(* then about that relation.                                               *)
(***************************************************************************)
EXTENDS Platform, FiniteSetTheorems, SequenceTheorems, TLAPS

(***************************************************************************)
(* The rows of an agent.                                                   *)
(***************************************************************************)

RegistryPlaces ==
  {"start", "insert", "begin", "find", "snapshot", "write", "ok", "notFound", "conflict", "failed"}

RegistryRequests ==
  [op : Registry!Ops, at : RegistryPlaces, row : Registry!Rows, target : Registry!Rows]

\* What a row of the table is made of.
AgentRows == [version : Nat, content : Registry!Contents, live : BOOLEAN]

RegistryTyped ==
  /\ agents \in Seq(AgentRows)
  /\ versions \subseteq Registry!Rows /\ past \subseteq Registry!Rows
  /\ agentRequest \in [Requests -> RegistryRequests]

\* What row i of the table holds, as a request would read it.
RowOf(i) == [id |-> i, version |-> agents[i].version, content |-> agents[i].content]

\* past is a history: it has what every row holds, nothing of a row that does
\* not exist, and nothing newer than the row.
PastIsHistory ==
  /\ \A i \in 1 .. Len(agents) : RowOf(i) \in past
  /\ \A p \in past : p.id \in 1 .. Len(agents) /\ p.version <= agents[p.id].version

\* A request takes its snapshot only of a row it found.
SnapshotsFound ==
  \A r \in Requests : agentRequest[r].at = "snapshot" => agentRequest[r].row \in past

RegistryInv ==
  RegistryTyped /\ PastIsHistory /\ SnapshotsFound /\ Registry!VersionsFaithful

LEMMA RegistryMoves == [Next]_vars => [Registry!RegistryNext]_Registry!registryVars
  BY DEF Next, vars, ApiServerNext, ServiceNext, Rest, registryVars, Registry!registryVars

\* The row a statement selects is a live one, or there is none.
LEMMA SelectedIsRow ==
  ASSUME RegistryTyped, PastIsHistory
  PROVE  /\ Registry!Live = {} => Registry!Selected = Registry!NoRow
         /\ Registry!Live /= {} =>
              /\ Registry!Selected.id \in 1 .. Len(agents)
              /\ Registry!Selected = RowOf(Registry!Selected.id)
              /\ Registry!Selected \in past
         /\ Registry!NoRow \in Registry!Rows
<1>1. Registry!NoRow \in Registry!Rows
  BY DEF Registry!NoRow, Registry!Rows, Registry!First, Registry!Contents
<1>2. Registry!Live = {} => Registry!Selected = Registry!NoRow
  BY DEF Registry!Selected
<1>3. ASSUME Registry!Live /= {}
      PROVE  /\ Registry!Selected.id \in 1 .. Len(agents)
             /\ Registry!Selected = RowOf(Registry!Selected.id)
  <2> DEFINE i == CHOOSE i \in Registry!Live : TRUE
  <2>1. i \in 1 .. Len(agents)
    BY <1>3 DEF RegistryTyped, Registry!Live
  <2>2. Registry!Selected = RowOf(i)
    BY <1>3 DEF Registry!Selected, RowOf
  <2>3. RowOf(i).id = i
    BY DEF RowOf
  <2> QED
    BY <2>1, <2>2, <2>3
<1> QED
  BY <1>1, <1>2, <1>3 DEF PastIsHistory

\* The steps that write neither a row nor a version.
LEMMA ReadsKeep ==
  ASSUME RegistryInv, UNCHANGED <<agents, versions, past>>,
         agentRequest' \in [Requests -> RegistryRequests],
         \A r \in Requests : agentRequest'[r].row \in past \cup {Registry!NoRow},
         \A r \in Requests :
           agentRequest'[r].at = "snapshot" => agentRequest'[r].row \in past
  PROVE  RegistryInv'
  BY DEF RegistryInv, RegistryTyped, PastIsHistory, RowOf, SnapshotsFound, Registry!VersionsFaithful

\* A request that goes on to another place holds what it held.
LEMMA GoesOn ==
  ASSUME agentRequest \in [Requests -> RegistryRequests],
         NEW r \in Requests, NEW place \in RegistryPlaces, Registry!Goes(r, place)
  PROVE  /\ agentRequest' \in [Requests -> RegistryRequests]
         /\ \A q \in Requests : agentRequest'[q].row = agentRequest[q].row
         /\ \A q \in Requests :
              agentRequest'[q].at = IF q = r THEN place ELSE agentRequest[q].at
  BY DEF Registry!Goes, RegistryRequests

\* A request that has read a row goes on with that row.
LEMMA GoesOnWithRow ==
  ASSUME agentRequest \in [Requests -> RegistryRequests],
         NEW r \in Requests, NEW place \in RegistryPlaces, NEW row \in Registry!Rows,
         agentRequest' = [agentRequest EXCEPT ![r].row = row, ![r].at = place]
  PROVE  /\ agentRequest' \in [Requests -> RegistryRequests]
         /\ \A q \in Requests :
              agentRequest'[q].row = IF q = r THEN row ELSE agentRequest[q].row
         /\ \A q \in Requests :
              agentRequest'[q].at = IF q = r THEN place ELSE agentRequest[q].at
<1> DEFINE goes == [agentRequest[r] EXCEPT !.row = row, !.at = place]
<1>a. agentRequest' = [agentRequest EXCEPT ![r] = goes]
  OBVIOUS
<1>b. goes \in RegistryRequests
  BY DEF RegistryRequests
<1>1. agentRequest' \in [Requests -> RegistryRequests]
  BY <1>a, <1>b
<1>2. \A q \in Requests : agentRequest'[q].row = IF q = r THEN row ELSE agentRequest[q].row
  BY DEF RegistryRequests
<1>3. \A q \in Requests : agentRequest'[q].at = IF q = r THEN place ELSE agentRequest[q].at
  BY DEF RegistryRequests
<1> QED
  BY <1>1, <1>2, <1>3

\* A rollback that has read the version it is to restore goes on with it.
LEMMA GoesOnWithTarget ==
  ASSUME agentRequest \in [Requests -> RegistryRequests],
         NEW r \in Requests, NEW place \in RegistryPlaces, NEW target \in Registry!Rows,
         agentRequest' = [agentRequest EXCEPT ![r].target = target, ![r].at = place]
  PROVE  /\ agentRequest' \in [Requests -> RegistryRequests]
         /\ \A q \in Requests : agentRequest'[q].row = agentRequest[q].row
         /\ \A q \in Requests :
              agentRequest'[q].at = IF q = r THEN place ELSE agentRequest[q].at
<1> DEFINE goes == [agentRequest[r] EXCEPT !.target = target, !.at = place]
<1>a. agentRequest' = [agentRequest EXCEPT ![r] = goes]
  OBVIOUS
<1>b. goes \in RegistryRequests
  BY DEF RegistryRequests
<1>1. agentRequest' \in [Requests -> RegistryRequests]
  BY <1>a, <1>b
<1>2. \A q \in Requests : agentRequest'[q].row = agentRequest[q].row
  BY DEF RegistryRequests
<1>3. \A q \in Requests : agentRequest'[q].at = IF q = r THEN place ELSE agentRequest[q].at
  BY DEF RegistryRequests
<1> QED
  BY <1>1, <1>2, <1>3

\* The requests that look for a row, or fail, hold what the table held.
LEMMA ReadersKeep ==
  ASSUME RegistryInv, NEW r \in Requests,
         \/ Registry!CreateFinds(r) \/ Registry!Get(r) \/ Registry!StartWorkflow(r)
         \/ Registry!GetVersion(r) \/ Registry!FindCurrent(r) \/ Registry!SnapshotFails(r)
         \/ Registry!NothingToSet(r) \/ Registry!QueryFails(r)
  PROVE  RegistryInv'
<1>1. /\ agentRequest \in [Requests -> RegistryRequests]
      /\ \A q \in Requests : agentRequest[q].row \in past \cup {Registry!NoRow}
      /\ \A q \in Requests :
           agentRequest[q].at = "snapshot" => agentRequest[q].row \in past
      /\ versions \subseteq past /\ past \subseteq Registry!Rows
  BY DEF RegistryInv, RegistryTyped, SnapshotsFound, Registry!VersionsFaithful
<1>2. /\ Registry!Selected \in past \cup {Registry!NoRow}
      /\ Registry!Live /= {} => Registry!Selected \in past
      /\ Registry!NoRow \in Registry!Rows
  BY SelectedIsRow DEF RegistryInv
<1>3. UNCHANGED <<agents, versions, past>>
  BY DEF Registry!CreateFinds, Registry!Get, Registry!StartWorkflow, Registry!GetVersion,
         Registry!FindCurrent, Registry!SnapshotFails, Registry!NothingToSet, Registry!QueryFails
<1>4. ASSUME NEW place \in RegistryPlaces, place /= "snapshot", Registry!Goes(r, place)
      PROVE  RegistryInv'
  BY <1>1, <1>3, <1>4, GoesOn, ReadsKeep
<1>5. ASSUME NEW place \in RegistryPlaces, NEW row \in past \cup {Registry!NoRow},
             place = "snapshot" => row \in past,
             agentRequest' = [agentRequest EXCEPT ![r].row = row, ![r].at = place]
      PROVE  RegistryInv'
  <2>1. row \in Registry!Rows
    BY <1>1, <1>2, <1>5
  <2>2. /\ agentRequest' \in [Requests -> RegistryRequests]
        /\ \A q \in Requests :
             agentRequest'[q].row = IF q = r THEN row ELSE agentRequest[q].row
        /\ \A q \in Requests :
             agentRequest'[q].at = IF q = r THEN place ELSE agentRequest[q].at
    BY <1>1, <1>5, <2>1, GoesOnWithRow
  <2>3. \A q \in Requests : agentRequest'[q].row \in past \cup {Registry!NoRow}
    BY <1>1, <1>5, <2>2
  <2>4. \A q \in Requests :
          agentRequest'[q].at = "snapshot" => agentRequest'[q].row \in past
    BY <1>1, <1>5, <2>2
  <2> QED
    BY <1>3, <2>2, <2>3, <2>4, ReadsKeep
<1> USE DEF RegistryPlaces
<1>6. CASE Registry!CreateFinds(r)
  BY <1>4, <1>6 DEF Registry!CreateFinds
<1>7. CASE Registry!Get(r)
  BY <1>2, <1>5, <1>7 DEF Registry!Get
<1>8. CASE Registry!StartWorkflow(r)
  BY <1>4, <1>8 DEF Registry!StartWorkflow
<1>9. CASE Registry!GetVersion(r)
  <2>1. CASE Registry!Goes(r, "notFound")
    BY <1>4, <2>1
  <2>2. ASSUME NEW s \in versions,
               agentRequest' = [agentRequest EXCEPT ![r].row = s, ![r].at = "ok"]
        PROVE  RegistryInv'
    BY <1>1, <1>5, <2>2
  <2>3. ASSUME NEW s \in versions,
               agentRequest' = [agentRequest EXCEPT ![r].target = s, ![r].at = "find"]
        PROVE  RegistryInv'
    <3>1. s \in Registry!Rows
      BY <1>1
    <3>2. /\ agentRequest' \in [Requests -> RegistryRequests]
          /\ \A q \in Requests : agentRequest'[q].row = agentRequest[q].row
          /\ \A q \in Requests :
               agentRequest'[q].at = IF q = r THEN "find" ELSE agentRequest[q].at
      BY <1>1, <2>3, <3>1, GoesOnWithTarget
    <3> QED
      BY <1>1, <1>3, <3>2, ReadsKeep
  <2> QED
    BY <1>9, <2>1, <2>2, <2>3 DEF Registry!GetVersion
<1>10. CASE Registry!FindCurrent(r)
  BY <1>2, <1>5, <1>10 DEF Registry!FindCurrent
<1>11. CASE Registry!SnapshotFails(r)
  BY <1>4, <1>11 DEF Registry!SnapshotFails
<1>12. CASE Registry!QueryFails(r)
  BY <1>4, <1>12 DEF Registry!QueryFails
<1>13. CASE Registry!NothingToSet(r)
  BY <1>2, <1>5, <1>13 DEF Registry!NothingToSet
<1> QED
  BY <1>6, <1>7, <1>8, <1>9, <1>10, <1>11, <1>12, <1>13

\* A row that was inserted or written has a version of its own: it is the newest
\* of its agent, and the history gets its content.
LEMMA WritesKeep ==
  ASSUME RegistryInv, NEW i \in Nat, NEW v \in Nat, NEW content \in Registry!Contents,
         agents' \in Seq(AgentRows),
         Len(agents) <= Len(agents'), i \in 1 .. Len(agents'),
         \A j \in 1 .. Len(agents) : j /= i => RowOf(j)' = RowOf(j),
         1 .. Len(agents') = (1 .. Len(agents)) \cup {i},
         RowOf(i)' = [id |-> i, version |-> v, content |-> content],
         i \in 1 .. Len(agents) => agents[i].version < v,
         past' = past \cup {[id |-> i, version |-> v, content |-> content]},
         UNCHANGED versions,
         agentRequest' \in [Requests -> RegistryRequests],
         \A r \in Requests : agentRequest'[r].row \in past \cup {Registry!NoRow},
         \A r \in Requests :
           agentRequest'[r].at = "snapshot" => agentRequest'[r].row \in past
  PROVE  RegistryInv'
<1> DEFINE new == [id |-> i, version |-> v, content |-> content]
<1>1. RegistryTyped'
  BY DEF RegistryInv, RegistryTyped, Registry!Rows
<1>2. \A j \in 1 .. Len(agents') : RowOf(j)' \in past'
  BY DEF RegistryInv, PastIsHistory
<1>3. ASSUME NEW j \in 1 .. Len(agents), j /= i
      PROVE  agents'[j].version = agents[j].version
  <2>1. RowOf(j)'.version = RowOf(j).version
    BY <1>3
  <2> QED
    BY <2>1 DEF RowOf
<1>4. agents'[i].version = v
  <2>1. RowOf(i)'.version = v
    OBVIOUS
  <2> QED
    BY <2>1 DEF RowOf
<1>5. ASSUME NEW p \in past
      PROVE  /\ p.id \in 1 .. Len(agents')
             /\ p.version <= agents'[p.id].version
             /\ p.id = i => p.version < v
  <2>1. p.id \in 1 .. Len(agents) /\ p.version <= agents[p.id].version
    BY DEF RegistryInv, PastIsHistory
  <2>2. p.version \in Nat
    BY DEF RegistryInv, RegistryTyped, Registry!Rows
  <2> DEFINE k == p.id
  <2>3. agents[p.id] \in AgentRows
    <3>1. agents \in Seq(AgentRows)
      BY DEF RegistryInv, RegistryTyped
    <3>2. k \in 1 .. Len(agents)
      BY <2>1
    <3> HIDE DEF k
    <3>3. agents[k] \in AgentRows
      BY <3>1, <3>2
    <3> QED
      BY <3>3 DEF k
  <2>4. p.id \in 1 .. Len(agents')
    BY <2>1
  <2>5. CASE p.id = i
    <3>1. agents[p.id].version \in Nat
      BY <2>3 DEF AgentRows
    <3>2. agents[p.id].version < v
      BY <2>1, <2>5
    <3>3. p.version < v
      BY <2>1, <2>2, <3>1, <3>2
    <3> QED
      BY <1>4, <2>2, <2>4, <2>5, <3>3
  <2>6. CASE p.id /= i
    BY <1>3, <2>1, <2>4, <2>6
  <2> QED
    BY <2>5, <2>6
<1>6. PastIsHistory'
  BY <1>2, <1>4, <1>5 DEF PastIsHistory
<1>7. SnapshotsFound'
  BY DEF SnapshotsFound
<1>8. ASSUME NEW p \in past', NEW q \in past', p.id = q.id, p.version = q.version
      PROVE  p = q
  <2>1. CASE p \in past /\ q \in past
    BY <1>8, <2>1 DEF RegistryInv, Registry!VersionsFaithful
  <2>2. CASE p = new /\ q = new
    BY <2>2
  <2>3. CASE p \in past /\ q = new
    BY <1>5, <1>8, <2>3 DEF RegistryInv, RegistryTyped, Registry!Rows
  <2>4. CASE p = new /\ q \in past
    BY <1>5, <1>8, <2>4 DEF RegistryInv, RegistryTyped, Registry!Rows
  <2> QED
    BY <2>1, <2>2, <2>3, <2>4
<1>9. Registry!VersionsFaithful'
  BY <1>8 DEF RegistryInv, Registry!VersionsFaithful
<1> QED
  BY <1>1, <1>6, <1>7, <1>9 DEF RegistryInv

\* Every step of a request keeps it.
LEMMA RegistryStepKeeps ==
  ASSUME RegistryInv, NEW r \in Requests, Registry!RegistryStep(r)
  PROVE  RegistryInv'
<1>1. /\ agentRequest \in [Requests -> RegistryRequests]
      /\ agents \in Seq(AgentRows)
      /\ \A q \in Requests : agentRequest[q].row \in past \cup {Registry!NoRow}
      /\ \A q \in Requests :
           agentRequest[q].at = "snapshot" => agentRequest[q].row \in past
  BY DEF RegistryInv, RegistryTyped, SnapshotsFound, Registry!VersionsFaithful
<1>2. ASSUME NEW place \in RegistryPlaces, place /= "snapshot", Registry!Goes(r, place)
      PROVE  /\ agentRequest' \in [Requests -> RegistryRequests]
             /\ \A q \in Requests : agentRequest'[q].row \in past \cup {Registry!NoRow}
             /\ \A q \in Requests :
                  agentRequest'[q].at = "snapshot" => agentRequest'[q].row \in past
  <2>1. /\ agentRequest' \in [Requests -> RegistryRequests]
        /\ \A q \in Requests : agentRequest'[q].row = agentRequest[q].row
        /\ \A q \in Requests :
             agentRequest'[q].at = IF q = r THEN place ELSE agentRequest[q].at
    BY <1>1, <1>2, GoesOn
  <2> QED
    BY <1>1, <1>2, <2>1
<1>3. CASE Registry!Insert(r)
  <2> DEFINE fresh == Registry!Merged(Registry!First, r, Keys)
  <2> DEFINE new == [version |-> 1, content |-> fresh, live |-> TRUE]
  <2>9. fresh \in Registry!Contents /\ 1 \in Nat
    BY DEF Registry!Merged, Registry!Contents
  <2> PICK i \in Nat : i = Len(agents) + 1
    BY <1>1
  <2>1. /\ agents' = Append(agents, new) /\ UNCHANGED versions
        /\ past' = past \cup {[id |-> i, version |-> 1, content |-> fresh]}
    BY <1>3 DEF Registry!Insert
  <2> HIDE DEF fresh
  <2>7. new \in AgentRows
    BY <2>9 DEF AgentRows
  <2>2. /\ agents' \in Seq(AgentRows)
        /\ Len(agents') = i /\ i \in Nat /\ Len(agents) \in Nat
        /\ \A j \in 1 .. Len(agents) : agents'[j] = agents[j]
        /\ agents'[i] = new
    <3> HIDE DEF new
    <3> QED
      BY <1>1, <2>1, <2>7
  <2>3. RowOf(i)' = [id |-> i, version |-> 1, content |-> fresh]
    BY <2>2 DEF RowOf
  <2>4. \A j \in 1 .. Len(agents) : RowOf(j)' = RowOf(j)
    BY <2>2 DEF RowOf
  <2>5. Registry!Goes(r, "ok") /\ "ok" \in RegistryPlaces
    BY <1>3 DEF Registry!Insert, RegistryPlaces
  <2>6. /\ 1 .. Len(agents') = (1 .. Len(agents)) \cup {i} /\ i \in 1 .. Len(agents')
        /\ i \notin 1 .. Len(agents) /\ Len(agents) <= Len(agents')
    BY <2>2
  <2>8. /\ agentRequest' \in [Requests -> RegistryRequests]
        /\ \A q \in Requests : agentRequest'[q].row \in past \cup {Registry!NoRow}
        /\ \A q \in Requests :
             agentRequest'[q].at = "snapshot" => agentRequest'[q].row \in past
    BY <1>2, <2>5
  <2> QED
    BY <2>1, <2>2, <2>3, <2>4, <2>6, <2>8, <2>9, WritesKeep
<1>4. CASE Registry!Delete(r)
  <2>1. \/ Registry!Goes(r, "ok")
        \/ Registry!Goes(r, "notFound")
    BY <1>4 DEF Registry!Delete
  <2>2. /\ agentRequest' \in [Requests -> RegistryRequests]
        /\ \A q \in Requests : agentRequest'[q].row \in past \cup {Registry!NoRow}
        /\ \A q \in Requests :
             agentRequest'[q].at = "snapshot" => agentRequest'[q].row \in past
    BY <1>2, <2>1 DEF RegistryPlaces
  <2>3. /\ agents' = [i \in DOMAIN agents |-> [agents[i] EXCEPT !.live = FALSE]]
        /\ UNCHANGED <<versions, past>>
    BY <1>4 DEF Registry!Delete
  <2>4. /\ agents' \in Seq(AgentRows)
        /\ Len(agents') = Len(agents)
    <3>1. ASSUME NEW i \in 1 .. Len(agents)
          PROVE  [agents[i] EXCEPT !.live = FALSE] \in AgentRows
      <4>1. agents[i] \in AgentRows
        BY <1>1
      <4> QED
        BY <4>1 DEF AgentRows
    <3>2. DOMAIN agents = 1 .. Len(agents)
      BY <1>1
    <3>3. agents' = [i \in 1 .. Len(agents) |-> [agents[i] EXCEPT !.live = FALSE]]
      BY <2>3, <3>2
    <3>4. agents' \in [1 .. Len(agents) -> AgentRows] /\ Len(agents) \in Nat
      BY <1>1, <3>1, <3>3
    <3> QED
      BY <3>4
  <2>5. ASSUME NEW i \in 1 .. Len(agents)
        PROVE  RowOf(i)' = RowOf(i) /\ agents'[i].version = agents[i].version
    BY <1>1, <2>3, <2>5 DEF RowOf
  <2>6. RegistryTyped'
    BY <2>2, <2>3, <2>4 DEF RegistryInv, RegistryTyped
  <2>7. PastIsHistory'
    BY <2>3, <2>4, <2>5 DEF RegistryInv, PastIsHistory
  <2> QED
    BY <2>2, <2>3, <2>6, <2>7
       DEF RegistryInv, SnapshotsFound, Registry!VersionsFaithful
<1>5. CASE Registry!Snapshot(r)
  <2>1. /\ versions' = versions \cup {agentRequest[r].row}
        /\ agentRequest[r].row \in past
        /\ UNCHANGED <<agents, past>>
        /\ Registry!Goes(r, "write") /\ "write" \in RegistryPlaces
    BY <1>1, <1>5 DEF Registry!Snapshot, RegistryPlaces
  <2>2. /\ agentRequest' \in [Requests -> RegistryRequests]
        /\ \A q \in Requests : agentRequest'[q].row \in past \cup {Registry!NoRow}
        /\ \A q \in Requests :
             agentRequest'[q].at = "snapshot" => agentRequest'[q].row \in past
    BY <1>2, <2>1
  <2>3. versions' \subseteq past /\ versions' \subseteq Registry!Rows
    BY <2>1 DEF RegistryInv, RegistryTyped, Registry!VersionsFaithful
  <2> QED
    BY <2>1, <2>2, <2>3
       DEF RegistryInv, RegistryTyped, PastIsHistory, RowOf, SnapshotsFound,
           Registry!VersionsFaithful, Registry!Rows
<1>6. ASSUME NEW content \in Registry!Contents, Registry!Write(r, content), UNCHANGED versions
      PROVE  RegistryInv'
  <2>1. CASE Registry!Live = {}
    <3>1. Registry!Goes(r, "notFound") /\ "notFound" \in RegistryPlaces
          /\ UNCHANGED <<agents, past>>
      BY <1>6, <2>1 DEF Registry!Write, RegistryPlaces
    <3> QED
      BY <1>2, <1>6, <3>1, ReadsKeep
  <2>2. CASE Registry!Live /= {}
    <3> PICK i \in 1 .. Len(agents) : i = Registry!Selected.id
      BY <2>2, SelectedIsRow DEF RegistryInv
    <3>3. agents[i] \in AgentRows
      BY <1>1
    <3> PICK v \in Nat : v = agents[i].version + 1
      BY <3>3 DEF AgentRows
    <3>2. /\ agents' = [agents EXCEPT ![i].version = @ + 1, ![i].content = content]
          /\ past' = past \cup {[id |-> i, version |-> v, content |-> content]}
          /\ Registry!Goes(r, "ok") /\ "ok" \in RegistryPlaces
      BY <1>6, <2>2 DEF Registry!Write, RegistryPlaces
    <3> DEFINE written == [agents[i] EXCEPT !.version = @ + 1, !.content = content]
    <3>4. agents' = [agents EXCEPT ![i] = written]
      BY <3>2
    <3>5. /\ written \in AgentRows
          /\ written.version = v /\ written.content = content
      BY <3>3 DEF AgentRows
    <3> HIDE DEF written
    <3>6. /\ agents' \in Seq(AgentRows)
          /\ Len(agents') = Len(agents)
          /\ agents'[i] = written
          /\ \A j \in 1 .. Len(agents) : j /= i => agents'[j] = agents[j]
      BY <1>1, <3>4, <3>5
    <3>7. /\ RowOf(i)' = [id |-> i, version |-> v, content |-> content]
          /\ \A j \in 1 .. Len(agents) : j /= i => RowOf(j)' = RowOf(j)
      BY <3>5, <3>6 DEF RowOf
    <3>8. v \in Nat /\ agents[i].version < v /\ i \in Nat /\ Len(agents) \in Nat
      BY <1>1, <3>3 DEF AgentRows
    <3>9. 1 .. Len(agents') = (1 .. Len(agents)) \cup {i}
      BY <3>6, <3>8
    <3> QED
      BY <1>2, <1>6, <3>2, <3>6, <3>7, <3>8, <3>9, WritesKeep
  <2> QED
    BY <2>1, <2>2
<1>7. CASE Registry!Update(r)
  <2>1. Registry!Selected.content \in Registry!Contents
    BY SelectedIsRow DEF RegistryInv, RegistryTyped, Registry!Rows
  <2>2. \A patch \in SUBSET Keys :
          Registry!Merged(Registry!Selected.content, r, patch) \in Registry!Contents
    BY <2>1 DEF Registry!Merged, Registry!Contents
  <2> QED
    BY <1>6, <1>7, <2>2 DEF Registry!Update
<1>8. CASE Registry!Restore(r)
  <2>1. agentRequest[r].target.content \in Registry!Contents
    BY <1>1 DEF RegistryRequests, Registry!Rows
  <2> QED
    BY <1>6, <1>8, <2>1 DEF Registry!Restore
<1> QED
  BY <1>3, <1>4, <1>5, <1>7, <1>8, ReadersKeep DEF Registry!RegistryStep

LEMMA RegistryInvInvariant == PlatformSpec => []RegistryInv
<1>1. Init => RegistryInv
  <2> SUFFICES ASSUME Registry!RegistryInit
               PROVE  RegistryInv
    BY DEF Init
  <2> DEFINE first == [version |-> 1, content |-> Registry!First, live |-> TRUE]
  <2>0. Registry!First \in Registry!Contents
    BY DEF Registry!First, Registry!Contents
  <2>1. first \in AgentRows
    BY <2>0 DEF AgentRows
  <2>2. /\ agents = <<first>> /\ versions = {}
        /\ past = {[id |-> 1, version |-> 1, content |-> Registry!First]}
    BY DEF Registry!RegistryInit
  <2>3. Len(agents) = 1 /\ agents[1] = first /\ agents \in Seq(AgentRows)
    <3> HIDE DEF first
    <3> QED
      BY <2>1, <2>2
  <2> DEFINE firsts == [op : Registry!Ops, at : {"start"}, row : {Registry!NoRow},
                          target : {Registry!NoRow}]
  <2>4. /\ agentRequest \in [Requests -> RegistryRequests]
        /\ \A r \in Requests : agentRequest[r].row = Registry!NoRow
        /\ \A r \in Requests : agentRequest[r].at = "start"
    <3>1. agentRequest \in [Requests -> firsts]
      BY DEF Registry!RegistryInit
    <3>2. Registry!NoRow \in Registry!Rows
      BY <2>0 DEF Registry!NoRow, Registry!Rows
    <3>3. firsts \subseteq RegistryRequests
      BY <3>2 DEF RegistryRequests, RegistryPlaces
    <3>4. \A a \in firsts : a.row = Registry!NoRow /\ a.at = "start"
      OBVIOUS
    <3> HIDE DEF firsts
    <3> QED
      BY <3>1, <3>3, <3>4
  <2>5. RegistryTyped
    BY <2>0, <2>2, <2>3, <2>4 DEF RegistryTyped, Registry!Rows
  <2>6. PastIsHistory
    BY <2>2, <2>3 DEF PastIsHistory, RowOf
  <2>7. SnapshotsFound /\ Registry!VersionsFaithful
    BY <2>2, <2>4 DEF SnapshotsFound, Registry!VersionsFaithful
  <2> QED
    BY <2>5, <2>6, <2>7 DEF RegistryInv
<1>2. RegistryInv /\ [Next]_vars => RegistryInv'
  <2> SUFFICES ASSUME RegistryInv, [Registry!RegistryNext]_Registry!registryVars
               PROVE  RegistryInv'
    BY RegistryMoves
  <2>1. CASE Registry!RegistryNext
    BY <2>1, RegistryStepKeeps DEF Registry!RegistryNext
  <2>2. CASE UNCHANGED Registry!registryVars
    BY <2>2 DEF Registry!registryVars, RegistryInv, RegistryTyped, PastIsHistory, RowOf,
                SnapshotsFound, Registry!VersionsFaithful
  <2> QED
    BY <2>1, <2>2
<1> QED
  BY <1>1, <1>2, PTL DEF PlatformSpec

\* What the history keeps of an agent under a version, and what any request read
\* of it, is what that version was, for any number of requests.
THEOREM VersionsStayFaithful == PlatformSpec => []VersionsFaithful
<1>1. RegistryInv => VersionsFaithful
  BY DEF RegistryInv, VersionsFaithful
<1> QED
  BY <1>1, RegistryInvInvariant, PTL

(***************************************************************************)
(* The lock of an account.                                                 *)
(***************************************************************************)

AccountPlaces ==
  Users!ClientEnds \cup {"start", "insert", "lockCheck", "clear", "compare", "count", "lock",
                         "reset", "store", "logout"}

AccountRequests ==
  [op : Users!ClientOps, at : AccountPlaces, hash : {"none", "first", "changed"}]

AccountRows ==
  [exists : BOOLEAN, password : {"first", "changed"}, mustChange : BOOLEAN,
   attempts : Nat, lock : {"none", "set", "expired"}]

AccountInv ==
  /\ account \in AccountRows
  /\ client \in [Clients -> AccountRequests]
  /\ Users!LimitLocks

LEMMA AccountMoves == [Next]_vars => [Users!AccountNext]_Users!accountVars
  BY DEF Next, vars, ApiServerNext, ServiceNext, Rest, accountVars, Users!accountVars

\* A request that moves to another place.
LEMMA ClientMoves ==
  ASSUME client \in [Clients -> AccountRequests],
         NEW c \in Clients, NEW place \in AccountPlaces, Users!Moves(c, place)
  PROVE  /\ client' \in [Clients -> AccountRequests]
         /\ \A d \in Clients : client'[d].at = IF d = c THEN place ELSE client[d].at
<1> DEFINE moved == [client[c] EXCEPT !.at = place]
<1>1. client' = [client EXCEPT ![c] = moved]
  BY DEF Users!Moves
<1>2. moved \in AccountRequests /\ moved.at = place
  BY DEF AccountRequests
<1> HIDE DEF moved
<1> QED
  BY <1>1, <1>2

\* A request leaves "lock" for "notLocked" or with the count reset, and never
\* leaves "notLocked"; what does not raise the count keeps who is to lock.
LEMMA AccountStepKeeps ==
  ASSUME AccountInv, NEW c \in Clients, Users!AccountStep(c)
  PROVE  AccountInv'
<1> DEFINE waiting == {"lock", "notLocked"}
<1>1. /\ account \in AccountRows /\ client \in [Clients -> AccountRequests]
      /\ client[c] \in AccountRequests
  BY DEF AccountInv
<1>2. ASSUME NEW place \in AccountPlaces, Users!Moves(c, place), account' \in AccountRows,
             \/ place \in waiting
             \/ account'.attempts < LockAfter
             \/ account'.attempts <= account.attempts /\ client[c].at \notin waiting
      PROVE  AccountInv'
  <2>1. /\ client' \in [Clients -> AccountRequests]
        /\ \A d \in Clients : client'[d].at = IF d = c THEN place ELSE client[d].at
    BY <1>1, <1>2, ClientMoves
  <2>2. account.attempts \in Nat /\ account'.attempts \in Nat
    BY <1>1, <1>2 DEF AccountRows
  <2>3. ASSUME account'.attempts >= LockAfter
        PROVE  \E d \in Clients : client'[d].at \in waiting
    <3>1. CASE place \in waiting
      BY <2>1, <3>1
    <3>2. CASE account.attempts >= LockAfter /\ client[c].at \notin waiting
      <4> PICK d \in Clients : client[d].at \in waiting
        BY <3>2 DEF AccountInv, Users!LimitLocks
      <4> QED
        BY <2>1, <3>2
    <3> QED
      BY <1>2, <2>2, <2>3, <3>1, <3>2, AccountAssumption
  <2>4. Users!LimitLocks'
    BY <2>3 DEF Users!LimitLocks
  <2> QED
    BY <1>2, <2>1, <2>4 DEF AccountInv
<1> USE DEF AccountPlaces, Users!ClientEnds
<1>3. account.attempts \in Nat /\ account.attempts <= account.attempts /\ LockAfter \in Nat \ {0}
  BY <1>1, AccountAssumption DEF AccountRows
<1>4. ASSUME NEW place \in AccountPlaces, Users!Moves(c, place), UNCHANGED account,
             client[c].at \notin waiting
      PROVE  AccountInv'
  BY <1>1, <1>2, <1>3, <1>4
<1>5. CASE Users!FindFree(c)
  BY <1>4, <1>5 DEF Users!FindFree, Users!Is
<1>6. CASE Users!CreateUser(c)
  <2>1. /\ account' \in AccountRows /\ account'.attempts = account.attempts
        /\ Users!Moves(c, "ok") /\ client[c].at \notin waiting
    BY <1>1, <1>6 DEF Users!CreateUser, Users!Is, AccountRows
  <2> QED
    BY <1>2, <1>3, <2>1
<1>7. CASE Users!AlreadyThere(c)
  BY <1>4, <1>7 DEF Users!AlreadyThere, Users!Is
<1>8. CASE Users!FindUser(c)
  <2> DEFINE place == IF ~ account.exists THEN "invalid"
                      ELSE IF client[c].op = "change" THEN "compare" ELSE "lockCheck"
             found == [client[c] EXCEPT !.hash = account.password, !.at = place]
  <2>1. client' = [client EXCEPT ![c] = found] /\ UNCHANGED account
    BY <1>8 DEF Users!FindUser
  <2>2. found \in AccountRequests /\ found.at \notin waiting /\ client[c].at = "start"
    BY <1>1, <1>8 DEF AccountRequests, AccountRows, Users!FindUser, Users!Is
  <2> HIDE DEF found
  <2>3. /\ client' \in [Clients -> AccountRequests]
        /\ \A d \in Clients : client'[d].at = IF d = c THEN found.at ELSE client[d].at
    BY <1>1, <2>1, <2>2
  <2>4. Users!LimitLocks'
    BY <2>1, <2>2, <2>3 DEF AccountInv, Users!LimitLocks
  <2> QED
    BY <1>1, <2>1, <2>3, <2>4 DEF AccountInv
<1>9. CASE Users!LockCheck(c)
  BY <1>1, <1>4, <1>9 DEF Users!LockCheck, AccountRows
<1>10. CASE Users!ClearLock(c)
  <2>1. /\ account' \in AccountRows /\ account'.attempts = account.attempts
        /\ Users!Moves(c, "compare") /\ client[c].at \notin waiting
    BY <1>1, <1>10 DEF Users!ClearLock, AccountRows
  <2> QED
    BY <1>2, <1>3, <2>1
<1>11. CASE Users!Compare(c)
  BY <1>4, <1>11 DEF Users!Compare
<1>12. CASE Users!CountFailure(c)
  <2>1. /\ account' \in AccountRows /\ account'.attempts = account.attempts + 1
        /\ Users!Moves(c, IF account'.attempts >= LockAfter THEN "lock" ELSE "invalid")
    BY <1>1, <1>12 DEF Users!CountFailure, AccountRows
  <2>2. CASE account'.attempts >= LockAfter
    BY <1>2, <2>1, <2>2
  <2>3. CASE ~ (account'.attempts >= LockAfter)
    <3>1. account'.attempts < LockAfter
      BY <1>3, <2>1, <2>3
    <3> QED
      BY <1>2, <2>1, <2>3, <3>1
  <2> QED
    BY <2>2, <2>3
<1>13. CASE Users!Lock(c)
  <2>1. /\ account' \in AccountRows /\ account'.attempts = 0 /\ Users!Moves(c, "invalid")
    BY <1>1, <1>13 DEF Users!Lock, AccountRows
  <2> QED
    BY <1>2, <1>3, <2>1
<1>14. CASE Users!LoggedIn(c)
  <2>1. /\ account' \in AccountRows /\ account'.attempts = 0 /\ Users!Moves(c, "ok")
    BY <1>1, <1>14 DEF Users!LoggedIn, AccountRows
  <2> QED
    BY <1>2, <1>3, <2>1
<1>15. CASE Users!StorePassword(c)
  <2>1. /\ account' \in AccountRows /\ account'.attempts = account.attempts
        /\ Users!Moves(c, "ok") /\ client[c].at \notin waiting
    BY <1>1, <1>15 DEF Users!StorePassword, AccountRows
  <2> QED
    BY <1>2, <1>3, <2>1
<1>16. CASE Users!Authenticate(c)
  <2>1. /\ UNCHANGED account /\ client[c].at \notin waiting
        /\ Users!Moves(c, "logout") \/ Users!Moves(c, "refused")
    BY <1>16 DEF Users!Authenticate, Users!Is, Users!Moves
  <2> QED
    BY <1>4, <2>1
<1>17. CASE Users!Logout(c)
  BY <1>4, <1>17 DEF Users!Logout, Users!Is
<1>18. CASE Users!StatementFails(c)
  <2>1. CASE client[c].at = "lock"
    <3>1. account' = account /\ Users!Moves(c, "notLocked")
      BY <1>18, <2>1 DEF Users!StatementFails
    <3> QED
      BY <1>1, <1>2, <3>1
  <2>2. CASE client[c].at /= "lock"
    <3>1. account' = account /\ Users!Moves(c, "failed") /\ client[c].at \notin waiting
      BY <1>18, <2>2 DEF Users!StatementFails
    <3> QED
      BY <1>4, <3>1
  <2> QED
    BY <2>1, <2>2
<1> QED
  BY <1>5, <1>6, <1>7, <1>8, <1>9, <1>10, <1>11, <1>12, <1>13, <1>14, <1>15, <1>16, <1>17,
     <1>18 DEF Users!AccountStep

\* For any number of requests and any limit: however failed logins interleave
\* with each other and with the rest, the count of incrementFailedLogin is at the
\* limit only while one of them is about to lock the account.
THEOREM FailuresLock == PlatformSpec => []LimitLocks
<1>1. Init => AccountInv
  <2> SUFFICES ASSUME Users!AccountInit
               PROVE  AccountInv
    BY DEF Init
  <2>1. account \in AccountRows /\ account.attempts = 0
    <3>1. Users!NoAccount \in AccountRows /\ Users!NoAccount.attempts = 0
      BY DEF Users!NoAccount, AccountRows
    <3>2. ASSUME NEW l \in {"none", "expired"},
                 account = [Users!NoAccount EXCEPT !.exists = TRUE, !.lock = l]
          PROVE  account \in AccountRows /\ account.attempts = 0
      BY <3>1, <3>2 DEF AccountRows
    <3> QED
      BY <3>1, <3>2 DEF Users!AccountInit
  <2>2. client \in [Clients -> AccountRequests]
    <3>1. [op : Users!ClientOps, at : {"start"}, hash : {"none"}] \subseteq AccountRequests
      BY DEF AccountRequests, AccountPlaces
    <3> QED
      BY <3>1 DEF Users!AccountInit
  <2> QED
    BY <2>1, <2>2, AccountAssumption DEF AccountInv, Users!LimitLocks
<1>2. AccountInv /\ [Next]_vars => AccountInv'
  <2> SUFFICES ASSUME AccountInv, [Users!AccountNext]_Users!accountVars
               PROVE  AccountInv'
    BY AccountMoves
  <2>1. CASE Users!LockExpires
    <3>1. /\ account' \in AccountRows /\ account'.attempts = account.attempts
          /\ client' = client
      BY <2>1 DEF AccountInv, AccountRows, Users!LockExpires
    <3> QED
      BY <3>1 DEF AccountInv, Users!LimitLocks
  <2>2. CASE UNCHANGED Users!accountVars
    BY <2>2 DEF AccountInv, Users!accountVars, Users!LimitLocks
  <2> QED
    BY <2>1, <2>2, AccountStepKeeps DEF Users!AccountNext
<1>3. AccountInv => LimitLocks
  BY DEF AccountInv, LimitLocks
<1> QED
  BY <1>1, <1>2, <1>3, PTL DEF PlatformSpec

(***************************************************************************)
(* The console.                                                            *)
(***************************************************************************)

Told == {"none", "data", "error"}

ReadsTyped ==
  /\ clock \in Nat
  /\ asked \in [Readers -> [at : Nat, of : Readers \cup {"none"}, told : Told]]
  /\ promise \in [Readers -> [at : Nat, attempt : Nat,
                              state : Told \cup {"fetching", "sleeping"}]]
  /\ dedup \in [of : Readers \cup {"none"}, at : Nat]

\* The cache holds a promise that is under way, and when it began.
CacheIsPromise ==
  dedup.of /= "none" =>
    /\ promise[dedup.of].state \in {"fetching", "sleeping"}
    /\ promise[dedup.of].at = dedup.at /\ dedup.at <= clock

\* Whoever made a promise holds it, and one that sleeps may be tried again.
MakersHold ==
  /\ \A r \in Readers : asked[r].of /= "none" => asked[asked[r].of].of = asked[r].of
  /\ dedup.of /= "none" => asked[dedup.of].of = dedup.of
  /\ \A r \in Readers : promise[r].state = "sleeping" => promise[r].attempt < MaxTries

ReadsInv == ReadsTyped /\ CacheIsPromise /\ MakersHold /\ Page!FreshEnough

\* An effect has a source only while it is mounted.
EventsInv ==
  source \in [Effects -> {"none", "open", "closed"}] /\ Page!OneSource

PageNext == Page!TimePasses \/ Page!ReadNext \/ Page!EventNext

LEMMA ConsoleMoves == [Next]_vars => [PageNext]_consoleVars
  BY DEF Next, vars, ApiServerNext, ServiceNext, Rest, PageNext

LEMMA ReadStepKeeps ==
  ASSUME ReadsInv, Page!ReadNext
  PROVE  ReadsInv'
<1> PICK r \in Readers :
      \/ Page!Join(r) \/ Page!Request(r) \/ Page!Loaded(r) \/ Page!Rejected(r)
      \/ Page!ServerError(r) \/ Page!FetchAgain(r)
  BY DEF Page!ReadNext
<1>1. /\ ReadsTyped /\ CacheIsPromise /\ MakersHold /\ Page!FreshEnough
      /\ DedupWindow \in Nat \ {0} /\ MaxTries \in Nat \ {0}
  BY ConsoleAssumption DEF ReadsInv
<1>2. CASE Page!Join(r)
  <2> DEFINE joined == [at |-> clock, of |-> dedup.of, told |-> "none"]
  <2>1. /\ Page!Cached = dedup /\ dedup.of /= "none" /\ clock - dedup.at < DedupWindow
        /\ asked' = [asked EXCEPT ![r] = joined] /\ dedup' = dedup
        /\ UNCHANGED <<clock, promise>> /\ asked[r] = Page!Nobody
    BY <1>2 DEF Page!Join, Page!Young, Page!Cached, Page!Empty
  <2>2. joined \in [at : Nat, of : Readers \cup {"none"}, told : Told]
    BY <1>1 DEF ReadsTyped, Told
  <2>3. ReadsTyped'
    BY <1>1, <2>1, <2>2 DEF ReadsTyped
  <2>4. CacheIsPromise'
    BY <1>1, <2>1 DEF CacheIsPromise
  <2>5. /\ asked'[r] = joined /\ joined.of = dedup.of
        /\ \A q \in Readers : q /= r => asked'[q] = asked[q]
        /\ dedup.of \in Readers /\ asked[r].of = "none"
    BY <1>1, <2>1 DEF ReadsTyped, Page!Nobody
  <2>6. MakersHold'
    BY <1>1, <2>1, <2>5 DEF MakersHold
  <2>7. Page!FreshEnough'
    <3>1. /\ promise[dedup.of].at = dedup.at
          /\ promise[dedup.of].state \in {"fetching", "sleeping"}
      BY <1>1, <2>1 DEF CacheIsPromise
    <3>2. clock \in Nat /\ dedup.at \in Nat /\ clock < dedup.at + DedupWindow
      BY <1>1, <2>1 DEF ReadsTyped
    <3>3. promise[dedup.of].attempt <= MaxTries
      BY <1>1, <2>1, <2>5 DEF Page!FreshEnough, MakersHold
    <3>4. \A q \in Readers : asked'[q] = IF q = r THEN joined ELSE asked[q]
      BY <2>5
    <3>5. joined.at = clock /\ joined.told = "none"
      OBVIOUS
    <3> HIDE DEF joined
    <3> QED
      BY <1>1, <2>1, <2>5, <3>1, <3>2, <3>3, <3>4, <3>5 DEF Page!FreshEnough
  <2> QED
    BY <2>3, <2>4, <2>6, <2>7 DEF ReadsInv
<1>3. CASE Page!Request(r)
  <2> DEFINE mine == [at |-> clock, of |-> r, told |-> "none"]
             begun == [at |-> clock, attempt |-> 1, state |-> "fetching"]
  <2>1. /\ asked' = [asked EXCEPT ![r] = mine] /\ promise' = [promise EXCEPT ![r] = begun]
        /\ dedup' = [of |-> r, at |-> clock] /\ asked[r] = Page!Nobody /\ clock' = clock
    BY <1>3 DEF Page!Request
  <2>2. /\ mine \in [at : Nat, of : Readers \cup {"none"}, told : Told]
        /\ begun \in [at : Nat, attempt : Nat, state : Told \cup {"fetching", "sleeping"}]
        /\ [of |-> r, at |-> clock] \in [of : Readers \cup {"none"}, at : Nat]
    BY <1>1 DEF ReadsTyped, Told
  <2>3. ReadsTyped'
    BY <1>1, <2>1, <2>2 DEF ReadsTyped
  <2>4. /\ asked'[r] = mine /\ promise'[r] = begun
        /\ \A q \in Readers : q /= r => asked'[q] = asked[q] /\ promise'[q] = promise[q]
        /\ asked[r].of = "none"
    BY <1>1, <2>1 DEF ReadsTyped, Page!Nobody
  <2>5. CacheIsPromise'
    BY <1>1, <2>1, <2>4 DEF CacheIsPromise, ReadsTyped
  <2>6. MakersHold'
    BY <1>1, <2>1, <2>4 DEF MakersHold, ReadsTyped
  <2>7. Page!FreshEnough'
    BY <1>1, <2>1, <2>4 DEF Page!FreshEnough, MakersHold, ReadsTyped
  <2> QED
    BY <2>3, <2>5, <2>6, <2>7 DEF ReadsInv
<1>4. ASSUME NEW answer \in {"data", "error"}, promise[r].state = "fetching",
             Page!Settle(r, answer)
      PROVE  ReadsInv'
  <2> DEFINE toldOf(q) == IF asked[q].of = r THEN [asked[q] EXCEPT !.told = answer] ELSE asked[q]
             settled == [promise[r] EXCEPT !.state = answer]
  <2>1. /\ asked' = [q \in Readers |-> toldOf(q)] /\ promise' = [promise EXCEPT ![r] = settled]
        /\ dedup' = Page!Empty /\ clock' = clock
    BY <1>4 DEF Page!Settle
  <2>2. ASSUME NEW q \in Readers
        PROVE  /\ toldOf(q) \in [at : Nat, of : Readers \cup {"none"}, told : Told]
               /\ toldOf(q).of = asked[q].of /\ toldOf(q).at = asked[q].at
               /\ toldOf(q).told = IF asked[q].of = r THEN answer ELSE asked[q].told
    <3>1. asked[q] \in [at : Nat, of : Readers \cup {"none"}, told : Told]
      BY <1>1 DEF ReadsTyped
    <3> QED
      BY <1>4, <3>1 DEF Told
  <2>3. /\ settled \in [at : Nat, attempt : Nat, state : Told \cup {"fetching", "sleeping"}]
        /\ settled.at = promise[r].at /\ settled.attempt = promise[r].attempt
        /\ settled.state = answer
    BY <1>1, <1>4 DEF ReadsTyped, Told
  <2> HIDE DEF toldOf, settled
  <2>4. Page!Empty \in [of : Readers \cup {"none"}, at : Nat] /\ Page!Empty.of = "none"
    BY DEF Page!Empty
  <2>5. ReadsTyped'
    BY <1>1, <2>1, <2>2, <2>3, <2>4 DEF ReadsTyped
  <2>6. CacheIsPromise'
    BY <2>1, <2>4 DEF CacheIsPromise
  <2>7. /\ \A q \in Readers : asked'[q] = toldOf(q)
        /\ \A q \in Readers : promise'[q] = IF q = r THEN settled ELSE promise[q]
    BY <1>1, <2>1 DEF ReadsTyped
  <2>8. MakersHold'
    BY <1>1, <1>4, <2>1, <2>2, <2>3, <2>4, <2>7 DEF MakersHold, ReadsTyped
  <2>9. Page!FreshEnough'
    BY <1>1, <1>4, <2>2, <2>3, <2>7 DEF Page!FreshEnough, ReadsTyped
  <2> QED
    BY <2>5, <2>6, <2>8, <2>9 DEF ReadsInv
<1>5. ASSUME NEW next \in [at : Nat, attempt : Nat, state : {"fetching", "sleeping"}],
             promise[r].state \in {"fetching", "sleeping"},
             next.at = promise[r].at, next.attempt <= MaxTries,
             next.state = "sleeping" => next.attempt < MaxTries,
             promise' = [promise EXCEPT ![r] = next], UNCHANGED <<clock, asked, dedup>>
      PROVE  ReadsInv'
  <2>1. \A q \in Readers : promise'[q] = IF q = r THEN next ELSE promise[q]
    BY <1>1, <1>5 DEF ReadsTyped
  <2>2. next \in [at : Nat, attempt : Nat, state : Told \cup {"fetching", "sleeping"}]
    BY <1>5
  <2>3. ReadsTyped'
    BY <1>1, <1>5, <2>2 DEF ReadsTyped
  <2>4. CacheIsPromise'
    BY <1>1, <1>5, <2>1 DEF CacheIsPromise, ReadsTyped
  <2>5. MakersHold'
    BY <1>1, <1>5, <2>1 DEF MakersHold
  <2>6. Page!FreshEnough'
    BY <1>1, <1>5, <2>1 DEF Page!FreshEnough, ReadsTyped
  <2> QED
    BY <2>3, <2>4, <2>5, <2>6 DEF ReadsInv
<1>6. /\ promise[r] \in [at : Nat, attempt : Nat,
                         state : Told \cup {"fetching", "sleeping"}]
      /\ promise[r].attempt \in Nat
  BY <1>1 DEF ReadsTyped
<1>7. CASE Page!ServerError(r)
  <2> DEFINE next == [promise[r] EXCEPT !.state = "sleeping"]
  <2>1. /\ next \in [at : Nat, attempt : Nat, state : {"fetching", "sleeping"}]
        /\ next.at = promise[r].at /\ next.attempt = promise[r].attempt
    BY <1>6
  <2>2. /\ promise' = [promise EXCEPT ![r] = next] /\ UNCHANGED <<clock, asked, dedup>>
        /\ promise[r].state = "fetching" /\ promise[r].attempt < MaxTries
    BY <1>7 DEF Page!ServerError
  <2> HIDE DEF next
  <2>3. next.attempt < MaxTries /\ next.attempt <= MaxTries
    BY <1>1, <1>6, <2>1, <2>2
  <2> QED
    BY <1>5, <2>1, <2>2, <2>3
<1>8. CASE Page!FetchAgain(r)
  <2> PICK k \in Nat : k = promise[r].attempt + 1
    BY <1>6
  <2> DEFINE next == [promise[r] EXCEPT !.state = "fetching", !.attempt = k]
  <2>1. /\ next \in [at : Nat, attempt : Nat, state : {"fetching", "sleeping"}]
        /\ next.at = promise[r].at /\ next.attempt = k
        /\ next.state = "fetching"
    BY <1>6
  <2>2. /\ promise' = [promise EXCEPT ![r] = next] /\ UNCHANGED <<clock, asked, dedup>>
        /\ promise[r].state = "sleeping"
    BY <1>8 DEF Page!FetchAgain
  <2>3. promise[r].attempt < MaxTries
    BY <1>1, <2>2 DEF MakersHold
  <2> HIDE DEF next
  <2>4. next.attempt <= MaxTries
    BY <1>1, <1>6, <2>1, <2>3
  <2> QED
    BY <1>5, <2>1, <2>2, <2>4
<1> QED
  BY <1>2, <1>3, <1>4, <1>7, <1>8 DEF Page!Loaded, Page!Rejected

LEMMA EventStepKeeps ==
  ASSUME EventsInv, Page!EventNext
  PROVE  EventsInv'
<1>1. CASE Page!Leave
  <2>1. /\ page' = page + 1 /\ page \in Effects
        /\ source' = [source EXCEPT ![page] = IF @ = "open" THEN "closed" ELSE @]
    BY <1>1 DEF Page!Leave
  <2> QED
    BY <2>1 DEF EventsInv, Page!OneSource
<1>2. ASSUME NEW e \in Effects, Page!Open(e)
      PROVE  EventsInv'
  BY <1>2 DEF EventsInv, Page!OneSource, Page!Open
<1>3. ASSUME NEW e \in Effects, Page!Breaks(e)
      PROVE  EventsInv'
  BY <1>3 DEF EventsInv, Page!OneSource, Page!Breaks
<1>4. ASSUME NEW e \in Effects, Page!Reconnect(e)
      PROVE  EventsInv'
  BY <1>4 DEF EventsInv, Page!OneSource, Page!Reconnect
<1>5. ASSUME NEW h, Page!Closed(h)
      PROVE  EventsInv'
  BY <1>5 DEF EventsInv, Page!OneSource, Page!Closed
<1> QED
  BY <1>1, <1>2, <1>3, <1>4, <1>5 DEF Page!EventNext

\* For any number of readers and of effects, any window and any number of tries:
\* a reader shares only what was asked for within the window before it, and a
\* page has at most one source of events, its own.
THEOREM ConsoleStaysSound == PlatformSpec => []ConsoleSound
<1> DEFINE Inv == ReadsInv /\ EventsInv
<1>1. Init => Inv
  <2> SUFFICES ASSUME Page!ConsoleInit
               PROVE  Inv
    BY DEF Init
  <2>1. ReadsInv
    BY DEF Page!ConsoleInit, Page!Nobody, Page!Idle, Page!Empty, ReadsInv, ReadsTyped, Told,
           CacheIsPromise, MakersHold, Page!FreshEnough
  <2>2. EventsInv
    BY DEF Page!ConsoleInit, EventsInv, Page!OneSource
  <2> QED
    BY <2>1, <2>2
<1>2. Inv /\ [Next]_vars => Inv'
  <2> SUFFICES ASSUME Inv, [PageNext]_consoleVars
               PROVE  Inv'
    BY ConsoleMoves
  <2>1. CASE Page!TimePasses
    <3>1. clock \in Nat /\ clock' = clock + 1 /\ dedup \in [of : Readers \cup {"none"}, at : Nat]
          /\ UNCHANGED <<asked, promise, dedup, page, source>>
      BY <2>1 DEF Page!TimePasses, Page!readVars, Page!eventVars, ReadsInv, ReadsTyped
    <3>2. EventsInv' /\ ReadsTyped'
      BY <3>1 DEF EventsInv, Page!OneSource, ReadsInv, ReadsTyped
    <3>3. CacheIsPromise'
      BY <3>1 DEF ReadsInv, CacheIsPromise
    <3>4. MakersHold' /\ Page!FreshEnough'
      BY <3>1 DEF ReadsInv, MakersHold, Page!FreshEnough
    <3> QED
      BY <3>2, <3>3, <3>4 DEF ReadsInv
  <2>2. CASE Page!ReadNext
    <3>1. UNCHANGED <<page, source>>
      BY <2>2 DEF Page!ReadNext, Page!Join, Page!Request, Page!Loaded, Page!Rejected,
                  Page!Settle, Page!ServerError, Page!FetchAgain, Page!eventVars
    <3> QED
      BY <2>2, <3>1, ReadStepKeeps DEF EventsInv, Page!OneSource
  <2>3. CASE Page!EventNext
    <3>1. UNCHANGED <<clock, asked, promise, dedup>>
      BY <2>3 DEF Page!EventNext, Page!Leave, Page!Open, Page!Breaks, Page!Reconnect,
                  Page!Closed, Page!readVars
    <3>2. ReadsInv'
      BY <3>1 DEF ReadsInv, ReadsTyped, CacheIsPromise, MakersHold, Page!FreshEnough
    <3> QED
      BY <2>3, <3>2, EventStepKeeps
  <2>4. CASE UNCHANGED consoleVars
    BY <2>4 DEF consoleVars, ReadsInv, ReadsTyped, CacheIsPromise, MakersHold,
                Page!FreshEnough, EventsInv, Page!OneSource
  <2> QED
    BY <2>1, <2>2, <2>3, <2>4 DEF PageNext
<1>3. Inv => ConsoleSound
  BY DEF ReadsInv, EventsInv, ConsoleSound
<1> QED
  BY <1>1, <1>2, <1>3, PTL DEF PlatformSpec

(***************************************************************************)
(* The pages of the agents.                                                *)
(***************************************************************************)

Walks == [at : {"ready", "walking", "done"}, cursor : AgentIds \cup {0},
          seen : Seq(AgentIds), throughout : SUBSET AgentIds]

\* Up to its cursor a walk has shown all that stayed, and nothing behind it.
WalkInv ==
  /\ listed \subseteq AgentIds /\ walk \in Walks /\ walk.throughout \subseteq listed
  /\ \A i, j \in DOMAIN walk.seen : walk.seen[i] = walk.seen[j] => i = j
  /\ walk.at = "ready" => walk.cursor = 0 /\ walk.seen = <<>>
  /\ walk.at = "walking" =>
       /\ \A i \in DOMAIN walk.seen : walk.seen[i] <= walk.cursor
       /\ \A id \in walk.throughout : id <= walk.cursor => \E i \in DOMAIN walk.seen : walk.seen[i] = id
  /\ walk.at = "done" =>
       \A id \in walk.throughout : \E i \in DOMAIN walk.seen : walk.seen[i] = id

LEMMA ListMoves ==
  [Next]_vars => [Lists!AgentListNext \/ Lists!NamespaceNext]_Lists!listVars
  BY DEF Next, vars, ApiServerNext, ServiceNext, Rest, listVars, Lists!listVars

\* A page shows rows behind the cursor, in their order, and skips none.
LEMMA PageKeeps ==
  ASSUME WalkInv, Lists!AgentPage
  PROVE  WalkInv'
<1> DEFINE rows == {id \in listed : id > walk.cursor}
<1>0. PICK sheet \in Lists!SeqOf(rows, PageSize) :
      /\ Lists!IsPage(sheet, rows)
      /\ walk' = [walk EXCEPT !.seen = @ \o sheet,
                              !.cursor = IF Len(sheet) = PageSize THEN Lists!Last(sheet) ELSE 0,
                              !.at = IF Len(sheet) = PageSize THEN "walking" ELSE "done"]
  BY DEF Lists!AgentPage
<1> DEFINE n == Len(sheet)
           m == Len(walk.seen)
           shown == walk.seen \o sheet
<1>1. /\ listed' = listed /\ walk.at = "walking" /\ walk \in Walks
      /\ walk.seen \in Seq(AgentIds) /\ walk.cursor \in Nat /\ m \in Nat
      /\ DOMAIN walk.seen = 1 .. m
  BY PageAssumption DEF Lists!AgentPage, WalkInv, Walks
<1>2. /\ sheet \in Seq(rows) /\ sheet \in Seq(AgentIds) /\ n \in Nat /\ n <= PageSize
      /\ DOMAIN sheet = 1 .. n
  <2>1. PICK k \in 0 .. PageSize : sheet \in [1 .. k -> rows]
    BY <1>0 DEF Lists!SeqOf
  <2>2. k \in Nat /\ rows \subseteq AgentIds
    <3>1. k \in Nat
      BY <2>1, PageAssumption
    <3>2. rows \subseteq AgentIds
      BY DEF WalkInv
    <3> QED
      BY <3>1, <3>2
  <2> HIDE DEF rows
  <2>3. sheet \in Seq(rows) /\ Len(sheet) = k
    BY <2>1, <2>2
  <2>4. sheet \in Seq(AgentIds)
    BY <2>1, <2>2
  <2> QED
    BY <2>1, <2>2, <2>3, <2>4, PageAssumption
<1>3. \A i \in 1 .. n : sheet[i] \in listed /\ sheet[i] > walk.cursor /\ sheet[i] \in Nat
  <2> SUFFICES ASSUME NEW i \in 1 .. n PROVE sheet[i] \in rows /\ sheet[i] \in AgentIds
    BY PageAssumption
  <2> HIDE DEF rows
  <2> QED
    BY <1>2
<1>4. \A i, j \in 1 .. n : i < j => sheet[i] < sheet[j]
  BY <1>0, <1>2 DEF Lists!IsPage
<1>5. \A id \in rows : (\E i \in 1 .. n : sheet[i] = id) \/ (n = PageSize /\ id > sheet[n])
  BY <1>0, <1>2 DEF Lists!IsPage, Lists!ToSet, Lists!Last
<1>6. /\ shown \in Seq(AgentIds) /\ DOMAIN shown = 1 .. m + n
      /\ \A i \in 1 .. m : shown[i] = walk.seen[i]
      /\ \A i \in 1 .. n : shown[m + i] = sheet[i]
  BY <1>1, <1>2
<1>7. walk' = [at |-> IF n = PageSize THEN "walking" ELSE "done",
               cursor |-> IF n = PageSize THEN sheet[n] ELSE 0,
               seen |-> shown, throughout |-> walk.throughout]
  BY <1>0, <1>1 DEF Walks, Lists!Last
<1> HIDE DEF shown, n, m, rows
<1>8. walk' \in Walks
  <2>1. n = PageSize => sheet[n] \in AgentIds
    BY <1>2, PageAssumption DEF n
  <2> QED
    BY <1>1, <1>6, <1>7, <2>1 DEF Walks
<1>9. \A i \in 1 .. m : walk.seen[i] <= walk.cursor /\ walk.seen[i] \in Nat
  <2>1. \A i \in 1 .. m : walk.seen[i] \in Nat
    <3>1. \A i \in 1 .. m : walk.seen[i] \in AgentIds
      BY <1>1 DEF m
    <3> QED
      BY <3>1, PageAssumption
  <2>2. \A i \in DOMAIN walk.seen : walk.seen[i] <= walk.cursor
    BY <1>1 DEF WalkInv
  <2> QED
    BY <1>1, <2>1, <2>2
<1>10. \A i \in 1 .. m + n : i \in 1 .. m \/ \E k \in 1 .. n : i = m + k
  <2> TAKE i \in 1 .. m + n
  <2>1. i \in 1 .. m \/ (i - m \in 1 .. n /\ i = m + (i - m))
    BY <1>1, <1>2 DEF n, m
  <2> QED
    BY <2>1
<1>11. \A i, j \in DOMAIN shown : shown[i] = shown[j] => i = j
  <2>1. \A i, j \in 1 .. n : sheet[i] = sheet[j] => i = j
    BY <1>2, <1>3, <1>4 DEF n
  <2>2. \A i \in 1 .. m, j \in 1 .. n : walk.seen[i] /= sheet[j]
    BY <1>1, <1>3, <1>9
  <2>3. \A i, j \in 1 .. m : walk.seen[i] = walk.seen[j] => i = j
    BY <1>1 DEF WalkInv
  <2> QED
    BY <1>6, <1>10, <2>1, <2>2, <2>3
<1>12. ASSUME NEW id \in walk.throughout, n = PageSize => id <= sheet[n]
       PROVE  \E i \in DOMAIN shown : shown[i] = id
  <2>1. id \in listed /\ id \in Nat
    BY PageAssumption DEF WalkInv
  <2>2. CASE id <= walk.cursor
    <3>1. PICK i \in 1 .. m : walk.seen[i] = id
      BY <1>1, <2>2 DEF WalkInv
    <3>2. i \in 1 .. m + n
      BY <1>1, <1>2 DEF n, m
    <3> QED
      BY <1>6, <3>1, <3>2
  <2>3. CASE id > walk.cursor
    <3>1. id \in rows /\ (n = PageSize => sheet[n] \in Nat)
      BY <1>3, <2>1, <2>3, PageAssumption DEF rows, n
    <3>2. PICK i \in 1 .. n : sheet[i] = id
      BY <1>5, <1>12, <2>1, <3>1
    <3>3. m + i \in 1 .. m + n
      BY <1>1, <1>2 DEF n, m
    <3> QED
      BY <1>6, <3>2, <3>3
  <2> QED
    BY <1>1, <2>1, <2>2, <2>3
<1>13. n = PageSize => \A i \in DOMAIN shown : shown[i] <= sheet[n]
  <2> SUFFICES ASSUME n = PageSize PROVE \A i \in DOMAIN shown : shown[i] <= sheet[n]
    OBVIOUS
  <2>1. n \in 1 .. n /\ sheet[n] \in Nat /\ sheet[n] > walk.cursor
    BY <1>2, <1>3, PageAssumption DEF n
  <2>2. \A i \in 1 .. n : sheet[i] <= sheet[n]
    BY <1>3, <1>4, <2>1
  <2>3. \A i \in 1 .. m : walk.seen[i] <= sheet[n]
    BY <1>1, <1>9, <2>1
  <2> QED
    BY <1>6, <1>10, <2>2, <2>3
<1>14. /\ walk'.seen = shown /\ walk'.throughout = walk.throughout
       /\ IF n = PageSize THEN walk'.at = "walking" /\ walk'.cursor = sheet[n]
                          ELSE walk'.at = "done"
  <2>1. CASE n = PageSize
    <3>1. walk' = [at |-> "walking", cursor |-> sheet[n], seen |-> shown, throughout |-> walk.throughout]
      BY <1>7, <2>1
    <3> QED
      BY <2>1, <3>1
  <2>2. CASE n /= PageSize
    <3>1. walk' = [at |-> "done", cursor |-> 0, seen |-> shown, throughout |-> walk.throughout]
      BY <1>7, <2>2
    <3> QED
      BY <2>2, <3>1
  <2> QED
    BY <2>1, <2>2
<1>15. /\ walk'.at = "walking" =>
            /\ \A i \in DOMAIN shown : shown[i] <= walk'.cursor
            /\ \A id \in walk.throughout :
                 id <= walk'.cursor => \E i \in DOMAIN shown : shown[i] = id
       /\ walk'.at = "done" =>
            \A id \in walk.throughout : \E i \in DOMAIN shown : shown[i] = id
       /\ walk'.at /= "ready"
  BY <1>12, <1>13, <1>14
<1>16. walk'.throughout \subseteq listed' /\ listed' \subseteq AgentIds
  BY <1>1, <1>14 DEF WalkInv
<1>17. \A i, j \in DOMAIN walk'.seen : walk'.seen[i] = walk'.seen[j] => i = j
  BY <1>11, <1>14
<1>18. /\ walk'.at = "walking" =>
            /\ \A i \in DOMAIN walk'.seen : walk'.seen[i] <= walk'.cursor
            /\ \A id \in walk'.throughout :
                 id <= walk'.cursor => \E i \in DOMAIN walk'.seen : walk'.seen[i] = id
       /\ walk'.at = "done" =>
            \A id \in walk'.throughout : \E i \in DOMAIN walk'.seen : walk'.seen[i] = id
  BY <1>14, <1>15
<1>19. walk'.at = "ready" => walk'.cursor = 0 /\ walk'.seen = <<>>
  BY <1>15
<1> QED
  BY <1>8, <1>16, <1>17, <1>18, <1>19 DEF WalkInv

LEMMA ListStepKeeps ==
  ASSUME WalkInv, Lists!AgentListNext \/ Lists!NamespaceNext
  PROVE  WalkInv'
<1>1. ASSUME NEW id \in AgentIds, Lists!AgentAppears(id)
      PROVE  WalkInv'
  BY <1>1 DEF Lists!AgentAppears, WalkInv
<1>2. ASSUME NEW id \in AgentIds, Lists!AgentGoes(id)
      PROVE  WalkInv'
  <2>1. /\ listed' = listed \ {id} /\ walk \in Walks
        /\ walk' = [walk EXCEPT !.throughout = @ \ {id}]
    BY <1>2 DEF Lists!AgentGoes, WalkInv
  <2>2. walk' \in Walks
    BY <2>1 DEF Walks
  <2>3. /\ walk'.at = walk.at /\ walk'.cursor = walk.cursor /\ walk'.seen = walk.seen
        /\ walk'.throughout = walk.throughout \ {id}
    BY <2>1 DEF Walks
  <2> QED
    BY <2>1, <2>2, <2>3 DEF WalkInv
<1>3. CASE Lists!WalkStarts
  <2>1. /\ listed' = listed /\ walk \in Walks /\ walk.at = "ready"
        /\ walk' = [walk EXCEPT !.at = "walking", !.throughout = listed]
    BY <1>3 DEF Lists!WalkStarts, WalkInv
  <2>2. walk' \in Walks
    BY <2>1 DEF Walks, WalkInv
  <2>3. /\ walk'.at = "walking" /\ walk'.cursor = 0 /\ walk'.seen = <<>> /\ DOMAIN <<>> = {}
        /\ walk'.throughout = listed
    BY <2>1 DEF Walks, WalkInv
  <2>4. \A id \in listed : id > 0 /\ id \in Nat
    BY PageAssumption DEF WalkInv
  <2> QED
    BY <2>1, <2>2, <2>3, <2>4 DEF WalkInv
<1>4. CASE Lists!NamespaceNext
  <2>1. UNCHANGED <<listed, walk>>
    BY <1>4 DEF Lists!NamespaceNext, Lists!CreateNamespace, Lists!SuspendNamespace,
                Lists!DeleteNamespace, Lists!VisitStarts, Lists!NamespacePage
  <2> QED
    BY <2>1 DEF WalkInv
<1> QED
  BY <1>1, <1>2, <1>3, <1>4, PageKeeps DEF Lists!AgentListNext

\* For any number of agents, whatever is created and deleted between two pages of
\* any size: a walk shows no agent twice, and every one that was there all along.
THEOREM PagesShowAll == PlatformSpec => []WalkComplete
<1>1. Init => WalkInv
  <2> SUFFICES ASSUME Lists!ListInit PROVE WalkInv
    BY DEF Init
  <2>1. /\ listed \subseteq AgentIds
        /\ walk = [at |-> "ready", cursor |-> 0, seen |-> <<>>, throughout |-> {}]
    BY DEF Lists!ListInit, Lists!NewWalk
  <2>2. walk \in Walks
    BY <2>1 DEF Walks
  <2> QED
    BY <2>1, <2>2 DEF WalkInv
<1>2. WalkInv /\ [Next]_vars => WalkInv'
  <2> SUFFICES ASSUME WalkInv, [Lists!AgentListNext \/ Lists!NamespaceNext]_Lists!listVars
               PROVE  WalkInv'
    BY ListMoves
  <2>1. CASE UNCHANGED Lists!listVars
    BY <2>1 DEF Lists!listVars, WalkInv
  <2> QED
    BY <2>1, ListStepKeeps
<1>3. WalkInv => WalkComplete
  BY DEF WalkInv, WalkComplete, Lists!WalkComplete, Lists!IsInjective, Lists!ToSet
<1> QED
  BY <1>1, <1>2, <1>3, PTL DEF PlatformSpec
=============================================================================
