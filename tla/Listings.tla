----------------------------- MODULE Listings ------------------------------
(***************************************************************************)
(* The pages of the two lists of the api-server, read one after another    *)
(* while rows come and go: agents/repository.ts, listByNamespace, with the *)
(* last id as the cursor, and namespaces/repository.ts, list, with the     *)
(* last row as the token; and the life of a namespace row.                 *)
(***************************************************************************)
EXTENDS Naturals, Sequences, SequencesExt, FiniteSetsExt

CONSTANTS
  AgentIds,    \* ids a new agent may draw, random but ordered
  Slugs,       \* slugs of namespaces
  PageSize,    \* page size of both walks
  MaxPages     \* bound: pages of one walk over the namespaces

VARIABLES
  drawn,       \* ids of all agents there have been
  listed,      \* ids of the live agents
  walk,        \* a client that follows the cursors of ListAgents
  namespaces,  \* table namespaces, in the order of created_at
  visit        \* a client that follows the tokens of ListNamespaces

listVars == <<drawn, listed, walk, namespaces, visit>>

\* seen: what the pages showed; throughout: rows that were live all the time.
NewWalk == [at |-> "ready", cursor |-> 0, seen |-> <<>>, throughout |-> {}]

ListInit ==
  /\ drawn \in SUBSET AgentIds /\ listed = drawn
  /\ walk = NewWalk
  /\ namespaces = <<>>
  /\ visit = [NewWalk EXCEPT !.seen = {}] @@ [pages |-> 0]

Ascending(ids) == SetToSortSeq(ids, <)
FirstOf(s)     == SubSeq(s, 1, IF Len(s) < PageSize THEN Len(s) ELSE PageSize)
-----------------------------------------------------------------------------
\* Agents.

AgentAppears(id) ==
  /\ id \notin drawn
  /\ drawn' = drawn \cup {id} /\ listed' = listed \cup {id}
  /\ UNCHANGED <<walk, namespaces, visit>>

AgentGoes(id) ==
  /\ id \in listed
  /\ listed' = listed \ {id}
  /\ walk' = [walk EXCEPT !.throughout = @ \ {id}]
  /\ UNCHANGED <<drawn, namespaces, visit>>

WalkStarts ==
  /\ walk.at = "ready"
  /\ walk' = [walk EXCEPT !.at = "walking", !.throughout = listed]
  /\ UNCHANGED <<drawn, listed, namespaces, visit>>

AgentPageByOffset ==
  LET page == FirstOf(SubSeq(Ascending(listed), Len(walk.seen) + 1, Cardinality(listed)))
  IN /\ walk.at = "walking"
     /\ walk' = [walk EXCEPT !.seen = @ \o page,
                             !.at = IF Len(page) = PageSize THEN "walking" ELSE "done"]
     /\ UNCHANGED <<drawn, listed, namespaces, visit>>

\* ORDER BY id LIMIT PageSize: a row is left out only by a full page, and only
\* behind it.
IsPage(page, rows) ==
  /\ \A i, j \in DOMAIN page : i < j => page[i] < page[j]
  /\ \A id \in rows \ ToSet(page) : Len(page) = PageSize /\ id > Last(page)

\* WHERE id > cursor; a full page has a next cursor.
AgentPage ==
  LET rows == {id \in listed : id > walk.cursor}
  IN /\ walk.at = "walking"
     /\ \E page \in SeqOf(rows, PageSize) :
          /\ IsPage(page, rows)
          /\ walk' = [walk EXCEPT !.seen = @ \o page,
                                  !.cursor = IF Len(page) = PageSize THEN Last(page) ELSE 0,
                                  !.at = IF Len(page) = PageSize THEN "walking" ELSE "done"]
     /\ UNCHANGED <<drawn, listed, namespaces, visit>>
-----------------------------------------------------------------------------
\* Namespaces.

ExistingSlugs == {namespaces[i].slug : i \in DOMAIN namespaces}
LiveRows      == {i \in DOMAIN namespaces : ~ namespaces[i].deleted}

\* The column is UNIQUE: the slug of a deleted row stays taken.
CreateNamespace(slug) ==
  /\ slug \notin ExistingSlugs
  /\ namespaces' = Append(namespaces, [slug |-> slug, suspended |-> FALSE, deleted |-> FALSE])
  /\ UNCHANGED <<drawn, listed, walk, visit>>

SuspendNamespace(i) ==
  /\ i \in LiveRows
  /\ namespaces' = [namespaces EXCEPT ![i].suspended = TRUE]
  /\ UNCHANGED <<drawn, listed, walk, visit>>

DeleteNamespace(i) ==
  /\ i \in LiveRows
  /\ namespaces' = [namespaces EXCEPT ![i].deleted = TRUE]
  /\ visit' = [visit EXCEPT !.throughout = @ \ {i}]
  /\ UNCHANGED <<drawn, listed, walk>>

VisitStarts ==
  /\ visit.at = "ready"
  /\ visit' = [visit EXCEPT !.at = "walking", !.throughout = LiveRows]
  /\ UNCHANGED <<drawn, listed, walk, namespaces>>

\* created_at of the token < created_at, ORDER BY created_at DESC, one row more
\* than the page to know whether there is another.
NamespacePage ==
  LET rows == Reverse(Ascending({i \in LiveRows : i > visit.cursor}))
      page == FirstOf(rows)
      more == Len(rows) > PageSize
  IN /\ visit.at = "walking" /\ visit.pages < MaxPages
     /\ visit' = [visit EXCEPT !.seen = @ \cup ToSet(page),
                               !.cursor = IF more THEN Last(page) ELSE 0,
                               !.at = IF more THEN "walking" ELSE "done",
                               !.pages = @ + 1]
     /\ UNCHANGED <<drawn, listed, walk, namespaces>>

AgentListNext ==
  \/ \E id \in AgentIds : AgentAppears(id) \/ AgentGoes(id)
  \/ WalkStarts \/ AgentPage

NamespaceNext ==
  \/ \E slug \in Slugs : CreateNamespace(slug)
  \/ \E i \in DOMAIN namespaces : SuspendNamespace(i) \/ DeleteNamespace(i)
  \/ VisitStarts \/ NamespacePage

ListSpec == ListInit /\ [][AgentListNext \/ NamespaceNext]_listVars
-----------------------------------------------------------------------------
ListTypeOK ==
  /\ listed \subseteq drawn /\ drawn \subseteq AgentIds
  /\ walk.at \in {"ready", "walking", "done"} /\ walk.seen \in Seq(AgentIds)
  /\ walk.throughout \subseteq listed
  /\ namespaces \in Seq([slug : Slugs, suspended : BOOLEAN, deleted : BOOLEAN])
  /\ visit.seen \subseteq DOMAIN namespaces /\ visit.pages \in 0 .. MaxPages
  /\ visit.throughout \subseteq LiveRows

\* Whatever is created and deleted between two pages, the pages of ListAgents
\* show no agent twice, and every agent that was there all the time.
WalkComplete ==
  /\ IsInjective(walk.seen)
  /\ walk.at = "done" => walk.throughout \subseteq ToSet(walk.seen)

\* api-server/src/__tests__/namespace-repository.test.ts, line 240: the second
\* page of two of five rows has two rows: the pages show every row in the end.
NamespacePagesComplete == visit.at = "done" => visit.throughout \subseteq visit.seen
=============================================================================
