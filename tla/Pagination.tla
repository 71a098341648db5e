----------------------------- MODULE Pagination -----------------------------
(***************************************************************************)
(* A client that lists a table page by page through pagination.Paginator,  *)
(* implemented on PostgreSQL and on a Redis sorted set, while others insert*)
(* and delete rows.  Every statement of ListItems is a step of its own: no *)
(* transaction holds them together.                                        *)
(*                                                                         *)
(* A row is [key, id]: key is created_at or the score, id is the id or the *)
(* member.  The listing is descending: rows of equal key by id.  The shape *)
(* of the row type says what reflection finds in its ID and CreatedAt.     *)
(***************************************************************************)
EXTENDS Integers, Sequences, FiniteSets, Functions

CONSTANTS
  Rows,       \* the rows there may be; key 0 is the zero time
  Sizes,      \* values of first and last
  Backends,   \* a subset of {"psql", "redis"}
  Shapes,     \* [id, created]: the kinds of the two fields
  ColonIDs,   \* the ids that contain a colon
  Now,        \* time.Now() in keys
  MaxWrites   \* bound on the inserts and deletes of others

VARIABLES
  backend, shape,  \* the paginator; the row type
  dir, size,  \* "forward" (first, after), "backward" (last, before) or "all"; how many
  table,      \* the rows
  stable,     \* those that were there all the time
  writes,
  stage,      \* "idle", the statement to run next, "ready", "ended", "failed"
  cursor,     \* the cursor sent with the request, or None
  items, total, next, prev,  \* the page that is being made
  visited     \* what the client has listed

vars == <<backend, shape, dir, size, table, stable, writes, stage, cursor, items,
          total, next, prev, visited>>
request == <<backend, shape, dir, size>>
page == <<items, total, next, prev>>

NoID == -1
None == [key |-> -1, id |-> NoID]
Less(a, b) == a.key < b.key \/ (a.key = b.key /\ a.id < b.id)

(* The two paginators; a table has finitely many rows; first and last are  *)
(* not negative.                                                           *)
Usage ==
  /\ Backends \subseteq {"psql", "redis"} /\ Sizes \subseteq Nat
  /\ IsFiniteSet(Rows) /\ Rows \subseteq [key : Nat, id : Nat]

Init ==
  /\ backend \in Backends /\ shape \in Shapes
  /\ dir \in {"forward", "backward", "all"} /\ size \in Sizes
  /\ table \in SUBSET Rows /\ stable = {} /\ writes = 0
  /\ stage = "idle" /\ cursor = None
  /\ items = <<>> /\ total = 0 /\ next = FALSE /\ prev = FALSE /\ visited = <<>>

-----------------------------------------------------------------------------
Insert(r) ==
  /\ r \notin table /\ writes < MaxWrites
  /\ table' = table \cup {r} /\ writes' = writes + 1
  /\ UNCHANGED <<request, stable, stage, cursor, page, visited>>

Delete(r) ==
  /\ r \in table /\ writes < MaxWrites
  /\ table' = table \ {r} /\ stable' = stable \ {r} /\ writes' = writes + 1
  /\ UNCHANGED <<request, stage, cursor, page, visited>>

-----------------------------------------------------------------------------
(* PostgreSQL: rows after a cursor in the listing, and before it, by       *)
(* (created_at, id), or by created_at if there is no id.                   *)
Below(r, c) == IF c.id # NoID THEN Less(r, c) ELSE r.key < c.key
Above(r, c) == IF c.id # NoID THEN Less(c, r) ELSE c.key < r.key

Listing(S) ==
  [i \in 1 .. Cardinality(S) |-> CHOOSE r \in S : Cardinality({q \in S : Less(r, q)}) = i - 1]

Limit(s, n) == SubSeq(s, 1, IF n < Len(s) THEN n ELSE Len(s))

(* slices.Reverse, and the listing in ascending order. *)
Reversed(s) == [i \in 1 .. Len(s) |-> s[Len(s) - i + 1]]

(* Mutant of After: rows as old as the cursor are not after it. *)
AfterByKey(r) == cursor = None \/ r.key < cursor.key

After(r) == cursor = None \/ Below(r, cursor)
Before(r) == cursor = None \/ Above(r, cursor)

(* Mutant of queryItems: a backward page is not reversed. *)
queryItemsUnreversed ==
  CASE dir = "forward"  -> Limit(Listing({r \in table : After(r)}), size)
    [] dir = "backward" -> Limit(Reversed(Listing({r \in table : Before(r)})), size)
    [] dir = "all"      -> Listing({r \in table : After(r)})

(* Backward, the rows closest to the cursor are read in ascending order    *)
(* and reversed.                                                           *)
queryItems ==
  CASE dir = "forward"  -> Limit(Listing({r \in table : After(r)}), size)
    [] dir = "backward" -> Reversed(Limit(Reversed(Listing({r \in table : Before(r)})), size))
    [] dir = "all"      -> Listing({r \in table : After(r)})

(* Redis compares scores; go-redis sends no LIMIT for a count of 0. *)
Count0(s) == IF size = 0 THEN s ELSE Limit(s, size)
queryForward == Count0(Listing({r \in table : cursor = None \/ r.key < cursor.key}))
queryBackward ==
  Reversed(Count0(Reversed(Listing({r \in table : cursor = None \/ r.key > cursor.key}))))

(* Without first and last, as many members as were counted before. *)
queryMembers ==
  CASE dir = "forward"  -> queryForward
    [] dir = "backward" -> queryBackward
    [] dir = "all"      -> Limit(Listing(table), total)

(* reflection on the row's ID; computeItemCursor: "ok", an error, or the   *)
(* panic of a nil *time.Time.                                              *)
HasID == shape.id \in {"string", "uuid"}
computeItemCursor ==
  CASE ~HasID \/ shape.created \notin {"time", "pointer", "nil"} -> "failed"
    [] HasID /\ shape.created = "nil" -> "panic"
    [] OTHER -> "ok"

(* The statements in the order in which each paginator runs them. *)
PSQLStatements ==
  IF dir = "forward" THEN <<"query", "count", "next", "prev", "ready">>
                     ELSE <<"query", "count", "prev", "next", "ready">>
RedisStatements == <<"count", "query", "next", "prev", "ready">>
Statements == IF backend = "psql" THEN PSQLStatements ELSE RedisStatements
First == Statements[1]
Following == Statements[1 + CHOOSE i \in 1 .. 4 : Statements[i] = stage]

(* Cursor.String and SetString: the cursor of a row of zero time is empty, *)
(* and an id with a colon is cut at it; both are refused.                  *)
Encodes(c) == c.key # 0
Decodes(c) == c = None \/ backend = "redis" \/ (Encodes(c) /\ c.id \notin ColonIDs)

Request(c) ==
  /\ cursor' = c
  /\ stage' = IF Decodes(c) THEN First ELSE "failed"
  /\ items' = <<>> /\ total' = 0 /\ next' = FALSE /\ prev' = FALSE

Begin ==
  /\ stage = "idle"
  /\ Request(None)
  /\ stable' = table
  /\ UNCHANGED <<request, table, writes, visited>>

Query ==
  /\ stage = "query"
  /\ items' = IF backend = "psql" THEN queryItems ELSE queryMembers
  /\ stage' = Following
  /\ UNCHANGED <<request, table, stable, writes, cursor, total, next, prev, visited>>

(* PostgreSQL: the rows are counted, and then the cursors are computed. *)
Count ==
  /\ stage = "count" /\ backend = "psql"
  /\ total' = Cardinality(table)
  /\ stage' = IF items # <<>> /\ computeItemCursor # "ok" THEN "failed" ELSE Following
  /\ UNCHANGED <<request, table, stable, writes, cursor, items, next, prev, visited>>

(* Redis: an empty sorted set is answered at once. *)
ZCard ==
  /\ stage = "count" /\ backend = "redis"
  /\ total' = Cardinality(table)
  /\ stage' = IF table = {} THEN "ready" ELSE Following
  /\ UNCHANGED <<request, table, stable, writes, cursor, items, next, prev, visited>>

Cursor == cursor # None
LastItem == items[Len(items)]
Edge == IF dir = "forward" THEN LastItem ELSE Head(items)

(* What the existence checks of PostgreSQL compare with: the edge of the   *)
(* page, the cursor of an empty one, or else the present or the zero time. *)
Otherwise(key) ==
  CASE items # <<>> -> Edge
    [] items = <<>> /\ Cursor -> cursor
    [] OTHER -> [key |-> key, id |-> NoID]
ForwardReference == Otherwise(Now)
BackwardReference == Otherwise(0)

(* Mutant of Reference: an empty page forgets its cursor. *)
NoReference ==
  IF items # <<>> THEN Edge ELSE [key |-> IF dir = "forward" THEN Now ELSE 0, id |-> NoID]

Reference == IF dir = "forward" THEN ForwardReference ELSE BackwardReference

(* PostgreSQL says no, against the direction, if there is no cursor. *)
psqlHasNext == (dir = "forward" \/ Cursor) /\ \E r \in table : Below(r, Reference)
psqlHasPrevious == (dir # "forward" \/ Cursor) /\ \E r \in table : Above(r, Reference)

(* Redis looks past the page itself. *)
redisHasNext ==
  IF items = <<>> THEN dir = "backward" /\ Cursor ELSE \E r \in table : r.key < LastItem.key
redisHasPrevious ==
  IF items = <<>> THEN dir = "forward" /\ Cursor ELSE \E r \in table : r.key > Head(items).key

HasNext ==
  /\ stage = "next"
  /\ next' = IF backend = "psql" THEN psqlHasNext ELSE redisHasNext
  /\ stage' = Following
  /\ UNCHANGED <<request, table, stable, writes, cursor, items, total, prev, visited>>

HasPrevious ==
  /\ stage = "prev"
  /\ prev' = IF backend = "psql" THEN psqlHasPrevious ELSE redisHasPrevious
  /\ stage' = Following
  /\ UNCHANGED <<request, table, stable, writes, cursor, items, total, next, visited>>

-----------------------------------------------------------------------------
(* The total as a client in the same process sees it, and through          *)
(* MarshalPageInfo and UnmarshalPageInfo, which do not carry it.           *)
Totals == {total, 0}

More == (dir = "forward" /\ next) \/ (dir = "backward" /\ prev)

(* The client takes the page and asks for the next one. *)
TakePage ==
  /\ stage = "ready"
  /\ visited' = IF dir = "backward" THEN items \o visited ELSE visited \o items
  /\ IF More
     THEN Request(IF items = <<>> THEN cursor ELSE Edge)
     ELSE /\ stage' = "ended" /\ total' \in Totals
          /\ UNCHANGED <<cursor, items, next, prev>>
  /\ UNCHANGED <<request, table, stable, writes>>

Statement == Query \/ Count \/ ZCard \/ HasNext \/ HasPrevious

Next ==
  \/ Begin \/ Statement \/ TakePage
  \/ \E r \in Rows : Insert(r) \/ Delete(r)

Spec == Init /\ [][Next]_vars
Fairness == WF_vars(Statement \/ TakePage)
FairSpec == Spec /\ Fairness

-----------------------------------------------------------------------------
UniqueKeys ==
  \A a, b \in table \cup stable \cup Range(items \o visited) : a.key = b.key => a = b

(* A listing that ends has visited every row that was there all the time,  *)
(* though rows were inserted and deleted between pages and between the     *)
(* statements of a page; on Redis, if no two members have the same score,  *)
(* and unless a page of all members says that there are more.              *)
EveryRowVisited ==
  /\ stage = "ended" /\ (dir = "all" \/ size > 0) /\ (backend = "psql" \/ UniqueKeys)
  /\ dir = "all" /\ backend = "redis" => ~next
  => stable \subseteq Range(visited)

(* "The ordering must be consistent from page to page": the pages put      *)
(* together are in descending order, in both directions, and no row is     *)
(* listed twice.                                                           *)
OrderedVisit ==
  \A i \in 1 .. Len(visited) - 1 : Less(visited[i + 1], visited[i])

(* A client that asks for at least one item a page comes to the end. *)
ListingEnds == size > 0 => (stage = First ~> stage \in {"ended", "failed"})

(* "If the client is paginating with first/after, then the server must     *)
(* return true if further items exist, otherwise false."                   *)
FurtherItemsAnnounced ==
  stage = "ready" /\ writes = 0 /\ dir = "forward" /\ items # <<>> =>
    (next <=> \E r \in table : Less(r, LastItem))
=============================================================================
