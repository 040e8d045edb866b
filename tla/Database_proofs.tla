-------------------------- MODULE Database_proofs --------------------------
(***************************************************************************)
(* Three arguments about the database.                                     *)
(*                                                                         *)
(* A walk over the pages of a list, of any length and beside any number of *)
(* changes: SeenOnce and OnlyWanted, for every table, order and limit. The *)
(* argument is the marker. What the client has is not after it; what it    *)
(* has not, and will be asked for, is after it, or on the page that is     *)
(* being made. A page is sorted and starts after the marker, so nothing on *)
(* it was seen; and it is cut only if it is full, so what it leaves out is *)
(* after its last row, the next marker. A row read into a page and one in  *)
(* the table are the same row of the order unless the row has changed.     *)
(*                                                                         *)
(* The schema, for any number of operators and of commands that are cut    *)
(* off: VersionIsBehind and UuidIsUnique. A column that was made stays, so *)
(* a command may rely on what it has made whatever the others do; and of   *)
(* the constraints only one is ever dropped, by the change that follows    *)
(* the one that adds its successor.                                        *)
(*                                                                         *)
(* And HeadIsModels: At(p) says what each table is after the first p of the*)
(* 47 changes of the revisions. Each change can be made where it comes, and*)
(* leads to the next place (AtStep); at the last place the tables are those*)
(* of the models (AtHead). So as long as no command is cut off in the middle*)
(* of a revision and no two overlap, a command is always at such a place   *)
(* (HeadInv), and none of them raises.                                     *)
(***************************************************************************)
EXTENDS Listing, Schema, FiniteSetTheorems, WellFoundedInduction, TLAPS

-----------------------------------------------------------------------------
(* The inductive invariant *)

Going == walk.at \in {"list", "marker", "convert"}
Places(s) == 1 .. Len(s)

Walks ==
  [at : {"list", "marker", "convert", "done", "error"}, q : Requests, first : Requests,
   pages : Nat, marker : Entries \cup {NULL}, page : Seq(Entries), seen : Seq(Entries)]

TypeOK ==
  /\ table \in [Ids -> Rows \cup {NULL}]
  /\ newest \in 0 .. MaxId
  /\ agentUp \in BOOLEAN /\ cached \in BOOLEAN
  /\ caller \in [project : Projects, admin : BOOLEAN]
  /\ changes \in Nat
  /\ story \in [touched : SUBSET Ids, shifted : BOOLEAN]
  /\ walk = [at |-> "idle"] \/ walk \in Walks

(* The row of an entry is as it was. *)
Current(x)   == table[x.id] # NULL /\ table[x.id].key = x.key
Untouched(i) == i \notin story.touched
Steady(x)    == Untouched(x.id) => Current(x)
(* What the next page is made of has kept its place in the order.           *)
Placed(x)    == table[x.id] # NULL /\ walk.q.order.sort = "name" => table[x.id].key = x.key

(* Ids are given once. *)
Numbered ==
  /\ \A i \in Ids : table[i] # NULL => i <= newest
  /\ Started =>
       /\ \A n \in Places(walk.seen) : walk.seen[n].id <= newest
       /\ \A n \in Places(walk.page) : walk.page[n].id <= newest
       /\ walk.marker # NULL => walk.marker.id <= newest

(* What is asked for. *)
Asked ==
  Going =>
    /\ walk.q.order = walk.first.order
    /\ walk.pages = 0 => walk.q = walk.first /\ walk.marker = NULL /\ walk.seen = <<>>
    /\ walk.pages # 0 => walk.q = GetNext(walk.first) /\ walk.marker # NULL /\ ~NoLink(walk.first)
    /\ walk.at = "marker" => walk.marker # NULL
    /\ walk.at # "convert" => walk.page = <<>>

(* The entries are of rows that are still there as they were, or changed.   *)
AllSteady ==
  Started =>
    /\ \A n \in Places(walk.seen) : Steady(walk.seen[n])
    /\ \A n \in Places(walk.page) : Steady(walk.page[n])
AllPlaced ==
  Going /\ ~story.shifted =>
    /\ \A n \in Places(walk.page) : Placed(walk.page[n])
    /\ walk.marker # NULL => Placed(walk.marker)

(* A page is in order and after the marker. *)
PageSorted ==
  walk.at = "convert" =>
    /\ \A m, n \in Places(walk.page) : m < n => Precedes(walk.q, walk.page[m], walk.page[n])
    /\ \A n \in Places(walk.page) :
         walk.marker # NULL => Precedes(walk.q, walk.marker, walk.page[n])

(* What is seen is not. *)
SeenBehind ==
  Going /\ ~story.shifted =>
    \A n \in Places(walk.seen) : Untouched(walk.seen[n].id) =>
      walk.marker # NULL /\ ~Precedes(walk.q, walk.marker, walk.seen[n])

SeenDistinct ==
  Started /\ ~story.shifted =>
    \A m, n \in Places(walk.seen) :
      Untouched(walk.seen[m].id) /\ walk.seen[m].id = walk.seen[n].id => m = n

Holds(s, i) == \E n \in Places(s) : s[n].id = i
Owed(i)  == Untouched(i) /\ table[i] # NULL /\ Wanted(walk.first, table[i])
(* The page has no room for it. *)
Beyond(i) ==
  /\ Len(walk.page) = ValidateLimit(walk.q)
  /\ walk.page = <<>> \/ Precedes(walk.q, Last(walk.page), Entry(i))

(* Nothing that is asked for is lost: it is seen, on the page, or to come.  *)
NothingSkipped ==
  Going /\ ~story.shifted /\ (walk.pages = 0 \/ Keeps(walk.first)) =>
    \A i \in Ids : Owed(i) =>
      \/ Holds(walk.seen, i)
      \/ /\ walk.at # "convert"
         /\ walk.marker = NULL \/ Precedes(walk.q, walk.marker, Entry(i))
      \/ walk.at = "convert" /\ (Holds(walk.page, i) \/ Beyond(i))

AllSeen ==
  /\ walk.at = "done" /\ ~story.shifted
  /\ walk.pages = 1 \/ Keeps(walk.first)
  /\ walk.first.limit # 0
  => \A i \in Ids : Owed(i) => Holds(walk.seen, i)

(* Only what is asked for comes. *)
SeenWanted ==
  Started /\ (walk.pages <= 1 \/ Keeps(walk.first)) =>
    \A n \in Places(walk.seen) : Untouched(walk.seen[n].id) =>
      Wanted(walk.first, table[walk.seen[n].id])
PageWanted ==
  Going /\ (walk.pages = 0 \/ Keeps(walk.first)) =>
    \A n \in Places(walk.page) : Untouched(walk.page[n].id) =>
      Wanted(walk.first, table[walk.page[n].id])

IInv ==
  /\ TypeOK /\ Numbered /\ Asked
  /\ AllSteady /\ AllPlaced /\ PageSorted
  /\ SeenBehind /\ SeenDistinct /\ NothingSkipped /\ AllSeen
  /\ SeenWanted /\ PageWanted
-----------------------------------------------------------------------------
(* The order of the rows *)

(* The fields of a request. *)
LEMMA RequestFields ==
  ASSUME NEW q \in Requests
  PROVE  /\ q.list \in Lists /\ q.order \in Orders /\ q.limit \in Limits
         /\ q.order.sort \in {"id", "name"} /\ q.order.dir \in {"asc", "desc"}
BY ListingAssumption DEF Requests

(* No entry is before itself, and the order is transitive. *)
LEMMA PrecedesOrder ==
  ASSUME NEW q \in Requests, NEW a \in Entries, NEW b \in Entries, NEW c \in Entries
  PROVE  /\ ~Precedes(q, a, a)
         /\ Precedes(q, a, b) /\ Precedes(q, b, c) => Precedes(q, a, c)
         /\ Precedes(q, a, b) => ~Precedes(q, b, a)
         /\ a.id # b.id => Precedes(q, a, b) \/ Precedes(q, b, a)
<1>1. /\ a.id \in Nat /\ b.id \in Nat /\ c.id \in Nat
      /\ a.key \in Nat /\ b.key \in Nat /\ c.key \in Nat
  <2>1. \A e \in Entries : e.id \in Ids /\ e.key \in Keys
    BY DEF Entries
  <2>2. Ids \subseteq Nat /\ Keys \subseteq Nat
    BY ListingAssumption DEF Ids
  <2>. QED BY <2>1, <2>2
<1>. QED BY <1>1, RequestFields DEF Precedes, Ascends, Value

(* The order looks at the id and, if it is asked for, the name: two entries *)
(* that agree on those have one place in it, whatever the query filters.    *)
LEMMA SamePlace ==
  ASSUME NEW q, NEW r, r.order = q.order,
         NEW a, NEW b, a.id = b.id, q.order.sort = "name" => a.key = b.key, NEW c
  PROVE  /\ Precedes(r, a, c) <=> Precedes(q, b, c)
         /\ Precedes(r, c, a) <=> Precedes(q, c, b)
BY DEF Precedes, Ascends, Value

(* A finite set of rows can be put in order: a row's place is the number of *)
(* rows before it.                                                          *)
LEMMA OrderExists ==
  ASSUME NEW q \in Requests, NEW S \in SUBSET Entries, IsFiniteSet(S),
         \A a, b \in S : a.id = b.id => a = b
  PROVE  \E s \in [1 .. Cardinality(S) -> S] :
           \A m, n \in 1 .. Cardinality(S) : m < n => Precedes(q, s[m], s[n])
<1>. DEFINE N == Cardinality(S)
            Before(x) == {y \in S : Precedes(q, y, x)}
            rank == [x \in S |-> Cardinality(Before(x)) + 1]
<1>1. N \in Nat /\ IsFiniteSet(1 .. N) /\ Cardinality(1 .. N) = N
  BY FS_CardinalityType, FS_Interval
<1>2. ASSUME NEW x \in S
      PROVE  /\ IsFiniteSet(Before(x)) /\ Cardinality(Before(x)) \in Nat
             /\ Cardinality(Before(x)) < N
  <2>1. Before(x) \in SUBSET S /\ x \notin Before(x)
    BY PrecedesOrder
  <2>2. IsFiniteSet(Before(x)) /\ Cardinality(Before(x)) <= N /\ Cardinality(Before(x)) # N
    BY <2>1, FS_Subset
  <2>. QED BY <1>1, <2>2, FS_CardinalityType
<1>3. ASSUME NEW x \in S, NEW y \in S, Precedes(q, x, y)
      PROVE  rank[x] < rank[y]
  <2>1. Before(x) \subseteq Before(y) /\ x \in Before(y) /\ x \notin Before(x)
    BY <1>3, PrecedesOrder
  <2>. HIDE DEF Before
  <2>2. /\ Cardinality(Before(x)) <= Cardinality(Before(y))
        /\ Cardinality(Before(x)) # Cardinality(Before(y))
    <3>1. Before(x) \in SUBSET Before(y) /\ Before(x) # Before(y)
      BY <2>1
    <3>. QED BY <1>2, <3>1, FS_Subset
  <2>3. Cardinality(Before(x)) \in Nat /\ Cardinality(Before(y)) \in Nat
    BY <1>2
  <2>. QED BY <2>2, <2>3
<1>4. rank \in [S -> 1 .. N]
  <2>. HIDE DEF Before, N
  <2>1. \A x \in S : Cardinality(Before(x)) + 1 \in 1 .. N
    BY <1>1, <1>2
  <2>. QED BY <2>1
<1>5. rank \in Injection(S, 1 .. N)
  <2>1. ASSUME NEW x \in S, NEW y \in S, rank[x] = rank[y] PROVE x = y
    <3>0. rank[x] \in 1 .. N /\ rank[y] \in 1 .. N
      BY <1>4
    <3>. HIDE DEF rank, N
    <3>1. ~Precedes(q, x, y) /\ ~Precedes(q, y, x)
      BY <1>1, <1>3, <3>0, <2>1
    <3>. QED BY <3>1, PrecedesOrder
  <2>. QED BY <1>4, <2>1 DEF Injection, IsInjective
<1>6. rank \in Surjection(S, 1 .. N)
  BY <1>1, <1>5, FS_Injection
<1>7. \A n \in 1 .. N : \E x \in S : rank[x] = n
  BY <1>6 DEF Surjection
<1>. DEFINE s == [n \in 1 .. N |-> CHOOSE x \in S : rank[x] = n]
<1>. HIDE DEF rank
<1>8. \A n \in 1 .. N : s[n] \in S /\ rank[s[n]] = n
  BY <1>7
<1>9. ASSUME NEW m \in 1 .. N, NEW n \in 1 .. N, m < n
      PROVE  Precedes(q, s[m], s[n])
  <2>1. s[m] \in S /\ s[n] \in S /\ rank[s[m]] = m /\ rank[s[n]] = n
    BY <1>8
  <2>2. ~Precedes(q, s[n], s[m])
    BY <1>1, <1>3, <1>9, <2>1
  <2>3. s[m].id # s[n].id
    BY <1>1, <1>9, <2>1
  <2>. QED BY <2>1, <2>2, <2>3, PrecedesOrder
<1>10. s \in [1 .. N -> S]
  BY <1>8
<1>. QED BY <1>9, <1>10

(* InOrder lists the set: its rows in order, each of them once. *)
LEMMA InOrderLists ==
  ASSUME NEW q \in Requests, NEW S \in SUBSET Entries, IsFiniteSet(S),
         \A a, b \in S : a.id = b.id => a = b
  PROVE  /\ InOrder(q, S) \in [1 .. Cardinality(S) -> S]
         /\ \A m, n \in 1 .. Cardinality(S) : m < n => Precedes(q, InOrder(q, S)[m], InOrder(q, S)[n])
         /\ \A x \in S : \E n \in 1 .. Cardinality(S) : InOrder(q, S)[n] = x
<1>. DEFINE N == Cardinality(S)
            s == InOrder(q, S)
<1>1. s \in [1 .. N -> S] /\ \A m, n \in 1 .. N : m < n => Precedes(q, s[m], s[n])
  BY OrderExists DEF InOrder
<1>. HIDE DEF s
<1>2. N \in Nat /\ IsFiniteSet(1 .. N) /\ Cardinality(1 .. N) = N
  BY FS_CardinalityType, FS_Interval
<1>3. s \in Injection(1 .. N, S)
  <2>1. ASSUME NEW m \in 1 .. N, NEW n \in 1 .. N, s[m] = s[n] PROVE m = n
    <3>1. ~Precedes(q, s[m], s[n]) /\ ~Precedes(q, s[n], s[m])
      BY <1>1, <2>1, PrecedesOrder
    <3>. QED BY <1>1, <1>2, <3>1
  <2>. QED BY <1>1, <2>1 DEF Injection, IsInjective
<1>4. s \in Surjection(1 .. N, S)
  BY <1>2, <1>3, FS_Injection
<1>. QED BY <1>1, <1>4 DEF Surjection, s

(* What the database finds has one entry for a row. *)
LEMMA FoundFinite ==
  ASSUME TypeOK, NEW q, NEW marker
  PROVE  /\ Found(q, marker) \in SUBSET Entries /\ IsFiniteSet(Found(q, marker))
         /\ \A a, b \in Found(q, marker) : a.id = b.id => a = b
         /\ \A x : x \in Found(q, marker) <=>
              \E i \in Ids : /\ x = Entry(i) /\ table[i] # NULL /\ Matches(q, table[i])
                             /\ marker = NULL \/ Precedes(q, marker, x)
<1>. DEFINE F == Found(q, marker)
            id == [x \in F |-> x.id]
<1>1. \A x : x \in F <=>
        \E i \in Ids : /\ x = Entry(i) /\ table[i] # NULL /\ Matches(q, table[i])
                       /\ marker = NULL \/ Precedes(q, marker, x)
  BY DEF Found
<1>2. ASSUME NEW i \in Ids, table[i] # NULL PROVE Entry(i) \in Entries /\ Entry(i).id = i
  BY <1>2 DEF TypeOK, Rows, Entry, Entries
<1>. HIDE DEF F
<1>3. F \in SUBSET Entries /\ \A a, b \in F : a.id = b.id => a = b
  BY <1>1, <1>2
<1>4. id \in Injection(F, Ids)
  BY <1>3 DEF Injection, IsInjective, Entries
<1>5. IsFiniteSet(Ids)
  BY ListingAssumption, FS_Interval DEF Ids
<1>6. IsFiniteSet(F)
  BY <1>4, <1>5, FS_Injection
<1>. QED BY <1>1, <1>3, <1>6 DEF F

(* A page: rows that were found, in order, and all of them unless the page  *)
(* is full; what it leaves out then comes after its last row.               *)
LEMMA PageLists ==
  ASSUME TypeOK, NEW q \in Requests, NEW marker, NEW limit \in Nat \cup {NULL},
         NEW p, p = PaginateQuery(q, marker, limit)
  PROVE  /\ p \in Seq(Entries)
         /\ \A n \in Places(p) : p[n] \in Found(q, marker)
         /\ \A m, n \in Places(p) : m < n => Precedes(q, p[m], p[n])
         /\ \A x \in Found(q, marker) :
              \/ \E n \in Places(p) : p[n] = x
              \/ Len(p) = limit /\ (p = <<>> \/ Precedes(q, Last(p), x))
<1>. DEFINE F == Found(q, marker)
            N == Cardinality(F)
            s == InOrder(q, F)
<1>1. F \in SUBSET Entries /\ IsFiniteSet(F) /\ N \in Nat
  BY FoundFinite, FS_CardinalityType
<1>2. /\ s \in [1 .. N -> F]
      /\ \A m, n \in 1 .. N : m < n => Precedes(q, s[m], s[n])
      /\ \A x \in F : \E n \in 1 .. N : s[n] = x
  BY FoundFinite, InOrderLists
<1>3. p = IF limit = NULL THEN s ELSE SubSeq(s, 1, IF limit < Len(s) THEN limit ELSE Len(s))
  BY DEF PaginateQuery
<1>. HIDE DEF F, N, s
<1>4. s \in Seq(Entries) /\ Len(s) = N
  BY <1>1, <1>2
<1>. DEFINE k == IF limit = NULL \/ ~(limit < N) THEN N ELSE limit
<1>5. k \in 0 .. N /\ p \in Seq(Entries) /\ Len(p) = k /\ \A n \in 1 .. k : p[n] = s[n]
  <2>1. CASE limit = NULL
    BY <1>1, <1>3, <1>4, <2>1
  <2>2. CASE limit # NULL
    <3>1. limit \in Nat /\ p = SubSeq(s, 1, k)
      BY <1>1, <1>3, <1>4, <2>2
    <3>. QED BY <1>1, <1>4, <2>2, <3>1
  <2>. QED BY <2>1, <2>2
<1>6. \A n \in Places(p) : n \in 1 .. N /\ p[n] = s[n]
  BY <1>1, <1>5 DEF Places
<1>7. ASSUME NEW x \in F
      PROVE  \/ \E n \in Places(p) : p[n] = x
             \/ Len(p) = limit /\ (p = <<>> \/ Precedes(q, Last(p), x))
  <2>1. PICK n \in 1 .. N : s[n] = x
    BY <1>2
  <2>2. CASE n <= k
    BY <1>1, <1>5, <2>1, <2>2 DEF Places
  <2>3. CASE ~(n <= k)
    <3>1. limit # NULL /\ k = limit /\ limit \in Nat
      BY <1>1, <2>3
    <3>2. ASSUME p # <<>> PROVE Precedes(q, Last(p), x)
      <4>1. k \in 1 .. N /\ Last(p) = s[k]
        BY <1>1, <1>5, <3>2 DEF Last
      <4>. QED BY <1>1, <1>2, <2>1, <2>3, <4>1
    <3>. QED BY <1>5, <3>1, <3>2
  <2>. QED BY <2>2, <2>3
<1>8. \A n \in Places(p) : p[n] \in F
  BY <1>2, <1>6
<1>9. \A m, n \in Places(p) : m < n => Precedes(q, p[m], p[n])
  BY <1>2, <1>6
<1>. QED BY <1>5, <1>7, <1>8, <1>9 DEF F

-----------------------------------------------------------------------------
(* What a page asks for *)

(* The limit of the database is a number, or none. *)
LEMMA LimitType ==
  ASSUME NEW q \in Requests
  PROVE  /\ ValidateLimit(q) \in Nat \cup {NULL}
         /\ q.limit # 0 => ValidateLimit(q) # 0
BY RequestFields, ListingAssumption, NullAssumption DEF ValidateLimit

(* The link of a page asks for the same order and limit; the link of the    *)
(* page after it is the same.                                              *)
LEMMA NextRequest ==
  ASSUME NEW q \in Requests, ~NoLink(q)
  PROVE  /\ GetNext(q) \in Requests
         /\ GetNext(q).order = q.order /\ GetNext(q).limit = q.limit
         /\ GetNext(q).list = NextList(q)
         /\ GetNext(q).project = NULL /\ GetNext(q).flag = FALSE /\ GetNext(q).all = FALSE
         /\ ~NoLink(GetNext(q)) /\ GetNext(GetNext(q)) = GetNext(q)
<1>. DEFINE g == GetNext(q)
<1>1. NextList(q) \in Lists \ {"enabled", "results"}
  <2>1. q.list \in Lists /\ q.list \notin {"enabled", "results"}
    BY DEF Requests, NoLink
  <2>. QED BY <2>1 DEF Lists, NextList, BoardCollection, PluginCollection,
         ServiceCollection, WebserviceCollection, FleetCollection, RequestCollection, PortCollection
<1>2. /\ g \in Requests /\ g.order = q.order /\ g.limit = q.limit /\ g.list = NextList(q)
      /\ g.project = NULL /\ g.flag = FALSE /\ g.all = FALSE
  BY <1>1 DEF Requests, GetNext
<1>3. ~NoLink(g)
  BY <1>1, <1>2 DEF NoLink
<1>4. NextList(g) = g.list
  <2>1. NextList(q) \in {"boards", "plugins", "services", "webservices", "fleets", "requests",
                         "ports"}
    BY <1>1 DEF Requests, NoLink, Lists, NextList, BoardCollection, PluginCollection,
         ServiceCollection, WebserviceCollection, FleetCollection, RequestCollection, PortCollection
  <2>. QED BY <1>2, <2>1 DEF NextList, BoardCollection, PluginCollection,
         ServiceCollection, WebserviceCollection, FleetCollection, RequestCollection, PortCollection
<1>5. GetNext(g) = g
  <2>1. GetNext(g) \in Requests
    BY <1>1, <1>2, <1>4 DEF Requests, GetNext
  <2>. QED BY <1>2, <1>4, <2>1 DEF Requests, GetNext
<1>. QED BY <1>2, <1>3, <1>5

(* The filters of the first page let through what is wanted. *)
LEMMA FirstPage ==
  ASSUME TypeOK, NEW q \in Requests, NEW r \in Rows
  PROVE  Matches(q, r) <=> Wanted(q, r)
<1>1. q.list \in Lists /\ q.flag \in BOOLEAN /\ q.all \in BOOLEAN /\ r.flag \in BOOLEAN
  BY DEF Requests, Rows
<1>2. CASE q.list = "boards"
  <2>. DEFINE f == BoardsFilters(q)
              owner == IF q.project # NULL THEN q.project ELSE caller.project
  <2>1. Matches(q, r) <=> AddBoardsFilters(f, r)
    BY <1>2 DEF Matches, BoardList
  <2>2. Equals(f, "project_id", r.project) <=> r.project = owner
    BY DEF BoardsFilters, Equals, Has
  <2>3. Equals(f, "status", r.flag) <=> (q.flag => r.flag)
    BY <1>1 DEF BoardsFilters, Equals, Has, When
  <2>4. Equals(f, "fleet", r.flag)
    BY DEF BoardsFilters, Equals, Has, When
  <2>. HIDE DEF f
  <2>. QED BY <1>2, <2>1, <2>2, <2>3, <2>4 DEF Wanted, AddBoardsFilters
<1>3. CASE q.list = "plugins"
  <2>. DEFINE f == PluginsFilters(q)
  <2>1. Matches(q, r) <=> AddPluginsFilters(f, r)
    BY <1>3 DEF Matches, PluginList
  <2>2. /\ Has(f, "owner") <=> ~q.all
        /\ Has(f, "with_public") <=> ~q.all /\ q.flag
        /\ ~Has(f, "public")
        /\ ~q.all => f["owner"] = caller.project
    BY DEF PluginsFilters, Has, When
  <2>. HIDE DEF f
  <2>. QED BY <1>3, <2>1, <2>2 DEF Wanted, AddPluginsFilters
<1>4. CASE q.list = "public_plugins"
  BY <1>1, <1>4 DEF Matches, PublicPluginList, AddPluginsFilters, PublicPluginsFilters, Single, Has, Wanted
<1>5. CASE q.list = "services"
  <2>1. Equals(ServicesFilters(q), "owner", r.project)
    BY DEF ServicesFilters, Equals, Has, When
  <2>. QED BY <1>5, <2>1 DEF Matches, ServiceList, AddServicesFilters, Wanted
<1>6. CASE q.list = "public_services"
  BY <1>6 DEF Matches, PublicServiceList, AddServicesFilters, PublicServicesFilters, Single, Equals, Has, Wanted
<1>7. CASE q.list = "webservices"
  BY <1>7 DEF Matches, WebserviceList, AddWebservicesFilters, WebservicesFilters, Single, Equals, Has, Wanted
<1>8. CASE q.list = "board_webservices"
  BY <1>1, <1>8 DEF Matches, BoardWebserviceList, AddWebservicesFilters, BoardWebservicesFilters, Single, Equals, Has, Wanted
<1>9. CASE q.list = "enabled"
  BY <1>9 DEF Matches, EnabledWebserviceList, AddEnabledFilters, EnabledFilters, Single, Equals, Has, Wanted
<1>10. CASE q.list = "fleets"
  <2>1. Equals(FleetsFilters, "project_id", r.project) <=> (caller.admin => r.project = caller.project)
    BY DEF FleetsFilters, When, Equals, Has
  <2>. QED BY <1>10, <2>1 DEF Matches, FleetList, AddFleetsFilters, Wanted
<1>11. CASE q.list = "requests"
  <2>1. Equals(RequestsFilters, "project_id", r.project) <=> (caller.admin => r.project = caller.project)
    BY DEF RequestsFilters, When, Equals, Has
  <2>. QED BY <1>11, <2>1 DEF Matches, RequestList, AddRequestsFilters, Wanted
<1>12. CASE q.list = "ports"
  BY <1>12 DEF Matches, PortList, AddPortsFilters, Wanted
<1>13. CASE q.list = "fleet_boards"
  BY <1>1, <1>13 DEF Matches, FleetBoardList, AddBoardsFilters, FleetBoardsFilters, Single, Equals, Has, Wanted
<1>14. CASE q.list = "results"
  BY <1>1, <1>14 DEF Matches, ResultList, AddResultFilters, ResultsFilters, Single, Equals, Has, Wanted
<1>. QED BY <1>1, <1>2, <1>3, <1>4, <1>5, <1>6, <1>7, <1>8, <1>9, <1>10, <1>11, <1>12, <1>13, <1>14 DEF Lists

(* The links of a list that Keeps ask for the same. *)
LEMMA NextPages ==
  ASSUME TypeOK, NEW q \in Requests, NEW r \in Rows, ~NoLink(q), Keeps(q)
  PROVE  Matches(GetNext(q), r) <=> Wanted(q, r)
<1>. DEFINE g == GetNext(q)
<1>1. g \in Requests /\ g.list = NextList(q) /\ g.project = NULL /\ g.flag = FALSE /\ g.all = FALSE
  BY NextRequest
<1>2. q.list \in Lists /\ q.flag \in BOOLEAN /\ q.all \in BOOLEAN
  BY DEF Requests
<1>. HIDE DEF g
<1>3. Wanted(g, r) <=> Wanted(q, r)
  <2>1. CASE q.list = "boards"
    <3>1. g.list = "boards"
      BY <1>1, <2>1 DEF NextList, BoardCollection
    <3>2. q.flag = FALSE /\ (q.project = NULL \/ q.project = caller.project)
      BY <1>2, <2>1 DEF Keeps
    <3>. QED BY <1>1, <2>1, <3>1, <3>2 DEF Wanted
  <2>2. CASE q.list = "plugins"
    <3>1. g.list = "plugins"
      BY <1>1, <2>2 DEF NextList, PluginCollection
    <3>2. q.flag = FALSE /\ q.all = FALSE
      BY <1>2, <2>2 DEF Keeps
    <3>. QED BY <1>1, <2>2, <3>1, <3>2 DEF Wanted
  <2>3. CASE q.list \in {"services", "public_services"}
    <3>1. g.list = "services"
      BY <1>1, <2>3 DEF NextList, ServiceCollection
    <3>. QED BY <2>3, <3>1 DEF Wanted
  <2>4. CASE q.list = "webservices"
    <3>1. g.list = "webservices"
      BY <1>1, <2>4 DEF NextList, WebserviceCollection
    <3>. QED BY <2>4, <3>1 DEF Wanted
  <2>5. CASE q.list = "fleets"
    <3>1. g.list = "fleets"
      BY <1>1, <2>5 DEF NextList, FleetCollection
    <3>. QED BY <2>5, <3>1 DEF Wanted
  <2>6. CASE q.list = "requests"
    <3>1. g.list = "requests"
      BY <1>1, <2>6 DEF NextList, RequestCollection
    <3>. QED BY <2>6, <3>1 DEF Wanted
  <2>7. CASE q.list = "ports"
    <3>1. g.list = "ports"
      BY <1>1, <2>7 DEF NextList, PortCollection
    <3>. QED BY <2>7, <3>1 DEF Wanted
  <2>8. q.list \in {"boards", "plugins", "services", "public_services", "webservices", "fleets",
                    "requests", "ports"}
    BY <1>2 DEF Lists, Keeps, NoLink
  <2>. QED BY <2>1, <2>2, <2>3, <2>4, <2>5, <2>6, <2>7, <2>8
<1>. QED BY <1>1, <1>3, FirstPage DEF g
-----------------------------------------------------------------------------
(* The walk *)

(* The fields of a walk. *)
LEMMA WalkFields ==
  ASSUME TypeOK, Started
  PROVE  /\ walk \in Walks
         /\ walk.q \in Requests /\ walk.first \in Requests /\ walk.pages \in Nat
         /\ walk.marker \in Entries \cup {NULL}
         /\ walk.page \in Seq(Entries) /\ walk.seen \in Seq(Entries)
         /\ \A n \in Places(walk.page) : walk.page[n] \in Entries
         /\ \A n \in Places(walk.seen) : walk.seen[n] \in Entries
<1>1. walk \in Walks
  BY DEF TypeOK, Started
<1>. QED BY <1>1 DEF Walks, Places

(* The entry of a row that is there. *)
LEMMA EntryType ==
  ASSUME TypeOK, NEW i \in Ids, table[i] # NULL
  PROVE  /\ Entry(i) \in Entries /\ Entry(i) # NULL
         /\ Entry(i).id = i /\ Entry(i).key = table[i].key /\ table[i] \in Rows
BY NullAssumption DEF TypeOK, Rows, Entry, Entries

(* The invariant holds at first: nobody walks. *)
LEMMA InitInv == Init => IInv
<1>. SUFFICES ASSUME Init PROVE IInv
  OBVIOUS
<1>1. walk.at = "idle"
  BY DEF Init
<1>2. PICK s \in Starts : /\ \E given \in [1 .. s.rows -> Rows] :
                               table = [i \in Ids |-> IF i <= s.rows THEN given[i] ELSE NULL]
                          /\ newest = s.rows /\ changes = s.changes
  BY DEF Init
<1>3. s.rows \in 0 .. MaxId /\ s.changes \in Nat
  BY ListingAssumption
<1>4. /\ table \in [Ids -> Rows \cup {NULL}]
      /\ \A i \in Ids : table[i] # NULL => i <= newest
  BY <1>2, <1>3, ListingAssumption DEF Ids
<1>5. TypeOK
  <2>1. caller \in [project : Projects, admin : BOOLEAN]
    BY ListingAssumption DEF Init
  <2>2. story \in [touched : SUBSET Ids, shifted : BOOLEAN]
    BY DEF Init
  <2>3. agentUp \in BOOLEAN /\ cached \in BOOLEAN /\ walk = [at |-> "idle"]
    BY DEF Init
  <2>. QED BY <1>2, <1>3, <1>4, <2>1, <2>2, <2>3 DEF TypeOK
<1>. QED BY <1>1, <1>4, <1>5 DEF IInv, Numbered, Asked, AllSteady, AllPlaced, PageSorted, SeenBehind,
       SeenDistinct, NothingSkipped, AllSeen, SeenWanted, PageWanted, Started, Going

(* A walk starts with nothing. *)
LEMMA GetAllInv ==
  ASSUME IInv, NEW q \in Requests, walk.at = "idle", GetAll(q)
  PROVE  IInv'
<1>. DEFINE w == walk'
            r == [q EXCEPT !.detail = FALSE]
<1>1. r \in Requests
  BY DEF Requests
<1>2. /\ w.at \in {"error", "list"} /\ w.q = r /\ w.first = r /\ w.pages = 0
      /\ w.marker = NULL /\ w.page = <<>> /\ w.seen = <<>>
      /\ w \in Walks
  BY <1>1 DEF GetAll, Walks
<1>3. UNCHANGED <<table, newest, agentUp, cached, caller, changes, story>>
  BY DEF GetAll, env
<1>4. TypeOK'
  BY <1>2, <1>3 DEF IInv, TypeOK
<1>5. Places(w.seen) = {} /\ Places(w.page) = {}
  BY <1>2 DEF Places
<1>6. Numbered'
  BY <1>2, <1>3, <1>5 DEF IInv, Numbered, Started, Places
<1>7. Asked'
  BY <1>2 DEF Asked, Going
<1>8. (AllSteady /\ AllPlaced /\ PageSorted /\ SeenBehind /\ SeenDistinct)'
  BY <1>2, <1>5 DEF AllSteady, AllPlaced, PageSorted, SeenBehind, SeenDistinct, Started, Going
<1>9. (NothingSkipped /\ AllSeen /\ SeenWanted /\ PageWanted)'
  BY <1>2, <1>5 DEF NothingSkipped, AllSeen, SeenWanted, PageWanted, Started, Going
<1>. QED BY <1>4, <1>6, <1>7, <1>8, <1>9 DEF IInv

(* A walk that fails has what it had. *)
LEMMA RaiseInv ==
  ASSUME IInv, Going, walk' = [walk EXCEPT !.at = "error"],
         UNCHANGED <<env, cached, caller, changes, story>>
  PROVE  IInv'
<1>. DEFINE w == walk'
<1>1. walk \in Walks /\ Started
  BY WalkFields DEF IInv, Going, Started
<1>2. /\ w.at = "error" /\ w.q = walk.q /\ w.first = walk.first /\ w.pages = walk.pages
      /\ w.marker = walk.marker /\ w.page = walk.page /\ w.seen = walk.seen
      /\ w \in Walks
  BY <1>1 DEF Walks
<1>3. UNCHANGED <<table, newest, agentUp, cached, caller, changes, story>>
  BY DEF env
<1>. HIDE DEF w
<1>4. TypeOK'
  BY <1>2, <1>3 DEF IInv, TypeOK, w
<1>5. Numbered'
  BY <1>1, <1>2, <1>3 DEF IInv, Numbered, w
<1>6. (AllSteady /\ SeenDistinct)'
  BY <1>1, <1>2, <1>3 DEF IInv, AllSteady, SeenDistinct, Steady, Untouched, Current, w
<1>7. SeenWanted'
  BY <1>1, <1>2, <1>3 DEF IInv, SeenWanted, Untouched, Keeps, Wanted, w
<1>8. (Asked /\ AllPlaced /\ PageSorted /\ SeenBehind /\ NothingSkipped /\ AllSeen /\ PageWanted)'
  BY <1>2 DEF Asked, AllPlaced, PageSorted, SeenBehind, NothingSkipped, AllSeen, PageWanted, Going, w
<1>. QED BY <1>4, <1>5, <1>6, <1>7, <1>8 DEF IInv

(* The marker is read again. The list goes on after it only if it has kept *)
(* its place.                                                              *)
LEMMA FindMarkerInv ==
  ASSUME IInv, FindMarker
  PROVE  IInv'
<1>. DEFINE w == walk'
            i == walk.marker.id
<1>1. walk \in Walks /\ Started /\ Going /\ TypeOK
  BY WalkFields DEF IInv, FindMarker, Going, Started
<1>2. walk.marker \in Entries /\ walk.marker # NULL /\ i \in Ids
  BY <1>1, WalkFields DEF IInv, Asked, FindMarker, Entries
<1>3. CASE table[i] = NULL
  BY <1>1, <1>3, RaiseInv DEF FindMarker
<1>4. CASE table[i] # NULL
  <2>1. Entry(i) \in Entries /\ Entry(i).id = i /\ Entry(i).key = table[i].key /\ Entry(i) # NULL
    BY <1>1, <1>2, <1>4, EntryType
  <2>2. /\ w.at = "list" /\ w.q = walk.q /\ w.first = walk.first /\ w.pages = walk.pages
        /\ w.marker = Entry(i) /\ w.page = walk.page /\ w.seen = walk.seen
        /\ w \in Walks
    BY <1>1, <1>4, <2>1 DEF FindMarker, Walks
  <2>3. UNCHANGED <<table, newest, agentUp, cached, caller, changes, story>>
    BY DEF FindMarker, env
  <2>. HIDE DEF w, i
  <2>4. TypeOK'
    BY <2>2, <2>3 DEF IInv, TypeOK, w
  <2>5. Numbered'
    BY <1>1, <1>2, <1>4, <2>1, <2>2, <2>3 DEF IInv, Numbered, w, i
  <2>6. Asked' /\ walk.page = <<>>
    BY <1>1, <2>1, <2>2, <2>3 DEF IInv, Asked, FindMarker, Going, Keeps, NoLink, w
  <2>7. (AllSteady /\ SeenDistinct)'
    BY <1>1, <2>2, <2>3 DEF IInv, AllSteady, SeenDistinct, Steady, Untouched, Current, Started, w
  <2>8. Places(w.page) = {}
    BY <2>2, <2>6 DEF Places
  <2>9. AllPlaced' /\ PageSorted' /\ PageWanted'
    BY <2>1, <2>2, <2>3, <2>8 DEF AllPlaced, Placed, PageSorted, PageWanted, w
  <2>10. ASSUME ~story.shifted, NEW x
         PROVE  Precedes(w.q, w.marker, x) <=> Precedes(walk.q, walk.marker, x)
    <3>1. walk.q.order.sort = "name" => Entry(i).key = walk.marker.key
      BY <1>1, <1>2, <1>4, <2>1, <2>10 DEF IInv, AllPlaced, Placed, i
    <3>. QED BY <2>1, <2>2, <3>1, SamePlace DEF i
  <2>11. SeenBehind'
    BY <1>1, <1>2, <2>1, <2>2, <2>3, <2>10 DEF IInv, SeenBehind, Untouched, w
  <2>12. NothingSkipped'
    <3>. SUFFICES ASSUME ~story.shifted, walk.pages = 0 \/ Keeps(walk.first),
                         NEW j \in Ids, Owed(j)
                  PROVE  Holds(walk.seen, j) \/ Precedes(w.q, w.marker, Entry(j))
      BY <2>2, <2>3 DEF NothingSkipped, Owed, Untouched, Wanted, Keeps, Entry, w
    <3>1. Holds(walk.seen, j) \/ Precedes(walk.q, walk.marker, Entry(j))
      BY <1>1, <1>2 DEF IInv, NothingSkipped, FindMarker
    <3>. QED BY <2>10, <3>1
  <2>13. AllSeen'
    BY <2>2 DEF AllSeen, w
  <2>14. SeenWanted'
    BY <1>1, <2>2, <2>3 DEF IInv, SeenWanted, Untouched, Keeps, Wanted, w
  <2>. QED BY <2>4, <2>5, <2>6, <2>7, <2>9, <2>11, <2>12, <2>13, <2>14 DEF IInv
<1>. QED BY <1>3, <1>4
(* A page is read. What is to come is on it, or after it. *)
LEMMA QueryPageInv ==
  ASSUME IInv, QueryPage
  PROVE  IInv'
<1>. DEFINE w == walk'
            p == PaginateQuery(walk.q, walk.marker, ValidateLimit(walk.q))
<1>1. walk \in Walks /\ Started /\ Going /\ TypeOK /\ walk.q \in Requests /\ walk.first \in Requests
  BY WalkFields DEF IInv, QueryPage, Going, Started
<1>2. /\ p \in Seq(Entries)
      /\ \A n \in Places(p) : p[n] \in Found(walk.q, walk.marker)
      /\ \A m, n \in Places(p) : m < n => Precedes(walk.q, p[m], p[n])
      /\ \A x \in Found(walk.q, walk.marker) :
           \/ \E n \in Places(p) : p[n] = x
           \/ Len(p) = ValidateLimit(walk.q) /\ (p = <<>> \/ Precedes(walk.q, Last(p), x))
  <2>. DEFINE limit == ValidateLimit(walk.q)
  <2>1. limit \in Nat \cup {NULL}
    BY <1>1, LimitType
  <2>2. p = PaginateQuery(walk.q, walk.marker, limit)
    OBVIOUS
  <2>. HIDE DEF p, limit
  <2>3. /\ p \in Seq(Entries)
        /\ \A n \in Places(p) : p[n] \in Found(walk.q, walk.marker)
        /\ \A m, n \in Places(p) : m < n => Precedes(walk.q, p[m], p[n])
        /\ \A x \in Found(walk.q, walk.marker) :
             \/ \E n \in Places(p) : p[n] = x
             \/ Len(p) = limit /\ (p = <<>> \/ Precedes(walk.q, Last(p), x))
    BY <1>1, <2>1, <2>2, PageLists
  <2>. QED BY <2>3 DEF limit
<1>. HIDE DEF p
<1>3. /\ w.at = "convert" /\ w.q = walk.q /\ w.first = walk.first /\ w.pages = walk.pages
      /\ w.marker = walk.marker /\ w.page = p /\ w.seen = walk.seen
      /\ w \in Walks
  BY <1>1, <1>2 DEF QueryPage, Walks, p
<1>4. UNCHANGED <<table, newest, agentUp, cached, caller, changes, story>>
  BY DEF QueryPage, env
<1>5. ASSUME NEW n \in Places(p)
      PROVE  /\ p[n] \in Entries /\ p[n].id \in Ids /\ table[p[n].id] \in Rows
             /\ table[p[n].id] # NULL /\ table[p[n].id].key = p[n].key
             /\ Matches(walk.q, table[p[n].id])
             /\ walk.marker = NULL \/ Precedes(walk.q, walk.marker, p[n])
  <2>1. PICK i \in Ids : /\ p[n] = Entry(i) /\ table[i] # NULL /\ Matches(walk.q, table[i])
                         /\ walk.marker = NULL \/ Precedes(walk.q, walk.marker, p[n])
    BY <1>1, <1>2, FoundFinite
  <2>2. Entry(i) \in Entries /\ Entry(i).id = i /\ Entry(i).key = table[i].key /\ table[i] \in Rows
    BY <1>1, <2>1, EntryType
  <2>. QED BY <2>1, <2>2
<1>6. ASSUME walk.pages = 0 \/ Keeps(walk.first), NEW r \in Rows
      PROVE  Matches(walk.q, r) <=> Wanted(walk.first, r)
  <2>1. CASE walk.pages = 0
    BY <1>1, <2>1, FirstPage DEF IInv, Asked
  <2>2. CASE walk.pages # 0
    BY <1>1, <1>6, <2>2, NextPages DEF IInv, Asked
  <2>. QED BY <2>1, <2>2
<1>. HIDE DEF w
<1>7. TypeOK'
  BY <1>3, <1>4 DEF IInv, TypeOK, w
<1>8. Numbered'
  BY <1>1, <1>3, <1>4, <1>5 DEF IInv, Numbered, w
<1>9. Asked'
  BY <1>1, <1>3, <1>4 DEF IInv, Asked, Going, Keeps, NoLink, w
<1>10. AllSteady'
  BY <1>1, <1>3, <1>4, <1>5 DEF IInv, AllSteady, Steady, Untouched, Current, w
<1>11. AllPlaced'
  BY <1>1, <1>3, <1>4, <1>5 DEF IInv, AllPlaced, Placed, w
<1>12. PageSorted'
  BY <1>2, <1>3, <1>4, <1>5 DEF PageSorted, w
<1>13. SeenBehind' /\ SeenDistinct'
  BY <1>1, <1>3, <1>4 DEF IInv, SeenBehind, SeenDistinct, Untouched, w
<1>14. NothingSkipped'
  <2>. SUFFICES ASSUME ~story.shifted, walk.pages = 0 \/ Keeps(walk.first), NEW i \in Ids, Owed(i),
                       ~Holds(walk.seen, i), ~Holds(p, i)
                PROVE  /\ Len(p) = ValidateLimit(walk.q)
                       /\ p = <<>> \/ Precedes(walk.q, Last(p), Entry(i))
    BY <1>3, <1>4 DEF NothingSkipped, Owed, Beyond, Untouched, Wanted, Keeps, Entry, w
  <2>1. table[i] # NULL /\ Wanted(walk.first, table[i]) /\ Entry(i).id = i /\ table[i] \in Rows
    BY <1>1, EntryType DEF Owed
  <2>2. walk.marker = NULL \/ Precedes(walk.q, walk.marker, Entry(i))
    BY <1>1 DEF IInv, NothingSkipped, QueryPage
  <2>3. Entry(i) \in Found(walk.q, walk.marker)
    BY <1>1, <1>6, <2>1, <2>2, FoundFinite
  <2>. QED BY <1>2, <2>1, <2>3 DEF Holds
<1>15. AllSeen'
  BY <1>3 DEF AllSeen, w
<1>16. SeenWanted'
  BY <1>1, <1>3, <1>4 DEF IInv, SeenWanted, Untouched, Keeps, Wanted, w
<1>17. PageWanted'
  <2>. SUFFICES ASSUME walk.pages = 0 \/ Keeps(walk.first), NEW n \in Places(p)
                PROVE  Wanted(walk.first, table[p[n].id])
    BY <1>3, <1>4 DEF PageWanted, Keeps, Wanted, w
  <2>. QED BY <1>5, <1>6
<1>. QED BY <1>7, <1>8, <1>9, <1>10, <1>11, <1>12, <1>13, <1>14, <1>15, <1>16, <1>17 DEF IInv

(* What is on a page that is being made was not seen, and no row is on it   *)
(* twice.                                                                  *)
LEMMA PageIsNew ==
  ASSUME IInv, walk.at = "convert", ~story.shifted, NEW n \in Places(walk.page),
         Untouched(walk.page[n].id)
  PROVE  /\ \A m \in Places(walk.page) : walk.page[m].id = walk.page[n].id => m = n
         /\ \A m \in Places(walk.seen) : walk.seen[m].id # walk.page[n].id
<1>. DEFINE x == walk.page[n]
<1>1. TypeOK /\ Started /\ Going /\ walk.q \in Requests
  BY WalkFields DEF IInv, Going, Started
<1>2. x \in Entries /\ Current(x)
  BY <1>1, WalkFields DEF IInv, AllSteady, Steady
<1>3. ASSUME NEW y \in Entries, Steady(y), y.id = x.id PROVE y = x
  BY <1>2, <1>3 DEF Steady, Current, Entries
<1>4. ~Precedes(walk.q, x, x)
  BY <1>1, <1>2, PrecedesOrder
<1>. HIDE DEF x
<1>5. ASSUME NEW m \in Places(walk.page), walk.page[m].id = x.id PROVE m = n
  <2>1. walk.page[m] = x
    BY <1>1, <1>3, <1>5, WalkFields DEF IInv, AllSteady
  <2>2. m \in Nat /\ n \in Nat
    BY <1>1, WalkFields DEF Places
  <2>. QED BY <1>4, <2>1, <2>2 DEF IInv, PageSorted, x
<1>6. ASSUME NEW m \in Places(walk.seen), walk.seen[m].id = x.id PROVE FALSE
  <2>1. walk.seen[m] = x
    BY <1>1, <1>3, <1>6, WalkFields DEF IInv, AllSteady
  <2>2. walk.marker # NULL /\ ~Precedes(walk.q, walk.marker, x)
    BY <1>1, <2>1 DEF IInv, SeenBehind, x
  <2>. QED BY <2>2 DEF IInv, PageSorted, x
<1>. QED BY <1>5, <1>6 DEF x

(* The page is given to the client: to the end, or to a link.               *)
LEMMA ConvertPageInv ==
  ASSUME IInv, ConvertPage
  PROVE  IInv'
<1>. DEFINE w == walk'
            s == walk.seen
            p == walk.page
            t == s \o p
            next == HasNext(walk.q, p)
<1>1. /\ TypeOK /\ Started /\ Going /\ walk \in Walks /\ walk.at = "convert"
      /\ walk.q \in Requests /\ walk.first \in Requests /\ walk.pages \in Nat
      /\ walk.marker \in Entries \cup {NULL}
      /\ s \in Seq(Entries) /\ p \in Seq(Entries)
  BY WalkFields DEF IInv, Going, Started, ConvertPage
<1>2. /\ t \in Seq(Entries)
      /\ \A n \in Places(t) :
           \/ n \in Places(s) /\ t[n] = s[n]
           \/ \E k \in Places(p) : n = Len(s) + k /\ t[n] = p[k]
      /\ \A i \in Ids : Holds(t, i) <=> Holds(s, i) \/ Holds(p, i)
  <2>0. s \in Seq(Entries) /\ p \in Seq(Entries)
    BY <1>1
  <2>. HIDE DEF s, p
  <2>1. /\ t \in Seq(Entries) /\ Len(t) = Len(s) + Len(p)
        /\ Len(s) \in Nat /\ Len(p) \in Nat
        /\ \A n \in 1 .. Len(s) : t[n] = s[n]
        /\ \A n \in 1 .. Len(p) : t[Len(s) + n] = p[n]
    BY <2>0
  <2>. HIDE DEF t
  <2>2. ASSUME NEW n \in Places(t)
        PROVE  \/ n \in Places(s) /\ t[n] = s[n]
               \/ \E k \in Places(p) : n = Len(s) + k /\ t[n] = p[k]
    <3>1. CASE n <= Len(s)
      BY <2>1, <3>1 DEF Places
    <3>2. CASE n > Len(s)
      <4>1. n - Len(s) \in 1 .. Len(p) /\ Len(s) + (n - Len(s)) = n
        BY <2>1, <3>2 DEF Places
      <4>2. t[Len(s) + (n - Len(s))] = p[n - Len(s)]
        BY <2>1, <4>1
      <4>. QED BY <4>1, <4>2 DEF Places
    <3>. QED BY <2>1, <3>1, <3>2 DEF Places
  <2>3. ASSUME NEW i \in Ids PROVE Holds(t, i) <=> Holds(s, i) \/ Holds(p, i)
    <3>1. ASSUME NEW n \in Places(s) PROVE n \in Places(t) /\ t[n] = s[n]
      BY <2>1 DEF Places
    <3>2. ASSUME NEW n \in Places(p) PROVE Len(s) + n \in Places(t) /\ t[Len(s) + n] = p[n]
      BY <2>1 DEF Places
    <3>3. ASSUME Holds(t, i) PROVE Holds(s, i) \/ Holds(p, i)
      <4>1. PICK n \in Places(t) : t[n].id = i
        BY <3>3 DEF Holds
      <4>. QED BY <2>2, <4>1 DEF Holds
    <3>4. ASSUME Holds(s, i) PROVE Holds(t, i)
      BY <3>1, <3>4 DEF Holds
    <3>5. ASSUME Holds(p, i) PROVE Holds(t, i)
      BY <3>2, <3>5 DEF Holds
    <3>. QED BY <3>3, <3>4, <3>5
  <2>. QED BY <2>1, <2>2, <2>3
<1>. HIDE DEF t
<1>3. next => Len(p) \in Places(p) /\ Last(p) = p[Len(p)] /\ Last(p) \in Entries /\ ~NoLink(walk.q)
  BY <1>1 DEF HasNext, Places, Last, ConvertPage
<1>4. ASSUME next
      PROVE  /\ GetNext(walk.q) \in Requests /\ GetNext(walk.q).order = walk.q.order
             /\ GetNext(walk.q) = GetNext(walk.first) /\ ~NoLink(walk.first)
  <2>1. GetNext(walk.q) \in Requests /\ GetNext(walk.q).order = walk.q.order
    BY <1>1, <1>3, <1>4, NextRequest
  <2>2. CASE walk.pages = 0
    BY <1>1, <1>3, <1>4, <2>1, <2>2 DEF IInv, Asked
  <2>3. CASE walk.pages # 0
    BY <1>1, <2>1, <2>3, NextRequest DEF IInv, Asked
  <2>. QED BY <2>1, <2>2, <2>3
<1>. HIDE DEF next
<1>5. /\ w.at = (IF next THEN "marker" ELSE "done")
      /\ w.q = (IF next THEN GetNext(walk.q) ELSE walk.q) /\ w.first = walk.first
      /\ w.pages = walk.pages + 1 /\ w.marker = (IF next THEN Last(p) ELSE walk.marker)
      /\ w.page = <<>> /\ w.seen = t
      /\ w \in Walks
  <2>. DEFINE more == [walk EXCEPT !.seen = t, !.pages = @ + 1, !.page = <<>>]
  <2>1. /\ more.at = walk.at /\ more.q = walk.q /\ more.first = walk.first /\ more.marker = walk.marker
        /\ more.pages = walk.pages + 1 /\ more.page = <<>> /\ more.seen = t
        /\ more \in Walks
    <3>1. walk.pages + 1 \in Nat /\ <<>> \in Seq(Entries)
      BY <1>1
    <3>. QED BY <1>1, <1>2, <3>1 DEF Walks
  <2>2. w = IF next THEN [more EXCEPT !.at = "marker", !.marker = Last(p), !.q = GetNext(@)]
            ELSE [more EXCEPT !.at = "done"]
    BY DEF ConvertPage, t, next
  <2>. HIDE DEF more
  <2>. QED BY <1>3, <1>4, <2>1, <2>2 DEF Walks
<1>6. UNCHANGED <<table, newest, agentUp, caller, changes, story>>
  BY DEF ConvertPage, env
<1>7. Places(w.page) = {}
  BY <1>5 DEF Places
<1>. HIDE DEF w
<1>8. TypeOK'
  <2>1. cached' \in BOOLEAN
    BY DEF ConvertPage, LooksUpAgent
  <2>. QED BY <1>5, <1>6, <2>1 DEF IInv, TypeOK, w
<1>9. Numbered'
  <2>1. \A n \in Places(t) : t[n].id <= newest
    BY <1>1, <1>2 DEF IInv, Numbered
  <2>2. w.marker # NULL => w.marker.id <= newest
    BY <1>1, <1>3, <1>5 DEF IInv, Numbered
  <2>. QED BY <1>5, <1>6, <1>7, <2>1, <2>2 DEF IInv, Numbered, w
<1>10. Asked'
  <2>1. next => w.marker # NULL
    BY <1>3, <1>5, NullAssumption
  <2>. QED BY <1>1, <1>4, <1>5, <1>6, <2>1 DEF IInv, Asked, Going, NoLink, w
<1>11. AllSteady'
  <2>1. \A n \in Places(t) : Steady(t[n])
    BY <1>1, <1>2 DEF IInv, AllSteady
  <2>. QED BY <1>5, <1>6, <1>7, <2>1 DEF AllSteady, Steady, Untouched, Current, w
<1>12. AllPlaced'
  <2>1. next /\ ~story.shifted => Placed(Last(p))
    BY <1>1, <1>3 DEF IInv, AllPlaced
  <2>. QED BY <1>4, <1>5, <1>6, <1>7, <2>1 DEF AllPlaced, Placed, Going, w
<1>13. PageSorted' /\ PageWanted'
  BY <1>5, <1>7 DEF PageSorted, PageWanted, w
<1>14. ASSUME next, NEW x
       PROVE  Precedes(w.q, w.marker, x) <=> Precedes(walk.q, Last(p), x)
  <2>1. w.q.order = walk.q.order /\ w.marker = Last(p)
    BY <1>4, <1>5, <1>14
  <2>2. w.marker.id = Last(p).id /\ w.marker.key = Last(p).key
    BY <2>1
  <2>. QED BY <2>1, <2>2, SamePlace
<1>15. SeenBehind'
  <2>. SUFFICES ASSUME next, ~story.shifted, NEW n \in Places(t), Untouched(t[n].id)
                PROVE  Last(p) # NULL /\ ~Precedes(walk.q, Last(p), t[n])
    BY <1>5, <1>6, <1>14 DEF SeenBehind, Untouched, Going, w
  <2>1. Last(p) \in Entries /\ Last(p) # NULL
    BY <1>3, NullAssumption
  <2>2. CASE n \in Places(s) /\ t[n] = s[n]
    <3>1. s[n] \in Entries /\ walk.marker # NULL /\ ~Precedes(walk.q, walk.marker, s[n])
      BY <1>1, <2>2, WalkFields DEF IInv, SeenBehind
    <3>2. Precedes(walk.q, walk.marker, Last(p))
      BY <1>1, <1>3, <3>1 DEF IInv, PageSorted
    <3>. QED BY <1>1, <2>1, <2>2, <3>1, <3>2, PrecedesOrder
  <2>3. ASSUME NEW m \in Places(p), t[n] = p[m]
        PROVE  ~Precedes(walk.q, Last(p), t[n])
    <3>1. p[m] \in Entries /\ m \in Nat /\ m <= Len(p) /\ Len(p) \in Nat
      <4>1. p[m] \in Entries
        BY <1>1, <2>3, WalkFields
      <4>2. m \in 1 .. Len(p) /\ Len(p) \in Nat
        BY <1>1, <2>3 DEF Places
      <4>. QED BY <4>1, <4>2
    <3>2. m = Len(p) \/ m < Len(p)
      BY <3>1
    <3>3. CASE m = Len(p)
      BY <1>1, <1>3, <2>1, <2>3, <3>3, PrecedesOrder
    <3>4. CASE m < Len(p)
      <4>1. Precedes(walk.q, p[m], Last(p))
        BY <1>1, <1>3, <2>3, <3>4 DEF IInv, PageSorted
      <4>. QED BY <1>1, <2>1, <2>3, <3>1, <4>1, PrecedesOrder
    <3>. QED BY <3>2, <3>3, <3>4
  <2>. QED BY <1>2, <2>1, <2>2, <2>3
<1>16. SeenDistinct'
  <2>. SUFFICES ASSUME ~story.shifted, NEW m \in Places(t), NEW n \in Places(t),
                       Untouched(t[m].id), t[m].id = t[n].id
                PROVE  m = n
    BY <1>5, <1>6 DEF SeenDistinct, Untouched, w
  <2>2. CASE m \in Places(s) /\ t[m] = s[m]
    <3>1. CASE n \in Places(s) /\ t[n] = s[n]
      BY <1>1, <2>2, <3>1 DEF IInv, SeenDistinct
    <3>2. ASSUME NEW k \in Places(p), t[n] = p[k] PROVE FALSE
      BY <1>1, <2>2, <3>2, PageIsNew
    <3>. QED BY <1>2, <3>1, <3>2
  <2>3. ASSUME NEW j \in Places(p), m = Len(s) + j, t[m] = p[j]
        PROVE  m = n
    <3>1. CASE n \in Places(s) /\ t[n] = s[n]
      BY <1>1, <2>3, <3>1, PageIsNew
    <3>2. ASSUME NEW k \in Places(p), n = Len(s) + k, t[n] = p[k] PROVE m = n
      <4>1. j = k
        BY <1>1, <2>3, <3>2, PageIsNew
      <4>. QED BY <2>3, <3>2, <4>1
    <3>. QED BY <1>2, <3>1, <3>2
  <2>. QED BY <1>2, <2>2, <2>3
<1>17. ASSUME ~story.shifted, walk.pages = 0 \/ Keeps(walk.first), NEW i \in Ids, Owed(i)
       PROVE  Holds(t, i) \/ Beyond(i)
  BY <1>1, <1>2, <1>17 DEF IInv, NothingSkipped
<1>18. NothingSkipped'
  <2>. SUFFICES ASSUME next, ~story.shifted, Keeps(walk.first), NEW i \in Ids, Owed(i), ~Holds(t, i)
                PROVE  Precedes(walk.q, Last(p), Entry(i))
    <3>1. w.pages # 0
      BY <1>1, <1>5
    <3>. QED BY <1>5, <1>6, <1>14, <3>1 DEF NothingSkipped, Owed, Untouched, Wanted, Keeps, Entry, Going, w
  <2>. QED BY <1>17 DEF Beyond, HasNext, next
<1>19. AllSeen'
  <2>. SUFFICES ASSUME ~next, ~story.shifted, walk.pages = 0 \/ Keeps(walk.first),
                       walk.first.limit # 0, NEW i \in Ids, Owed(i)
                PROVE  Holds(t, i)
    <3>1. w.pages = 1 => walk.pages = 0
      BY <1>1, <1>5
    <3>. QED BY <1>5, <1>6, <3>1 DEF AllSeen, Owed, Untouched, Wanted, Keeps, w
  <2>1. walk.q.limit = walk.first.limit
    BY <1>1, NextRequest DEF IInv, Asked
  <2>2. ValidateLimit(walk.q) # 0
    BY <1>1, <2>1, LimitType
  <2>3. ~Beyond(i)
    BY <1>1, <2>2 DEF Beyond, HasNext, next
  <2>. QED BY <1>17, <2>3
<1>20. SeenWanted'
  <2>. SUFFICES ASSUME walk.pages = 0 \/ Keeps(walk.first), NEW n \in Places(t), Untouched(t[n].id)
                PROVE  Wanted(walk.first, table[t[n].id])
    <3>1. w.pages <= 1 => walk.pages = 0
      BY <1>1, <1>5
    <3>. QED BY <1>5, <1>6, <3>1 DEF SeenWanted, Untouched, Wanted, Keeps, w
  <2>1. walk.pages <= 1 \/ Keeps(walk.first)
    OBVIOUS
  <2>. QED BY <1>1, <1>2, <2>1 DEF IInv, SeenWanted, PageWanted
<1>. QED BY <1>8, <1>9, <1>10, <1>11, <1>12, <1>13, <1>15, <1>16, <1>18, <1>19, <1>20 DEF IInv
-----------------------------------------------------------------------------
(* Changes beside the walk *)

(* A change of one row, which is from then on touched. Unless it shifts the *)
(* order of what the walk holds, the walk is where it was among the rows    *)
(* that have not changed.                                                  *)
LEMMA ChangeInv ==
  ASSUME IInv, TypeOK', NEW i \in Ids, UNCHANGED <<walk, caller>>,
         \A j \in Ids : j # i => table'[j] = table[j],
         newest <= newest', table'[i] # NULL => i <= newest',
         story'.touched = story.touched \cup {i}, story.shifted => story'.shifted,
         Going /\ ~story'.shifted =>
           /\ \A n \in Places(walk.page) : Placed(walk.page[n])'
           /\ walk.marker # NULL => Placed(walk.marker)'
  PROVE  IInv'
<1>1. TypeOK
  BY DEF IInv
<1>2. ASSUME NEW j \in Ids, Untouched(j)'
      PROVE  j # i /\ Untouched(j) /\ table'[j] = table[j]
  BY <1>2 DEF Untouched
<1>3. ASSUME NEW x \in Entries, Steady(x) PROVE Steady(x)'
  <2>1. x.id \in Ids
    BY DEF Entries
  <2>. QED BY <1>2, <1>3, <2>1 DEF Steady, Current
<1>4. ASSUME NEW j \in Ids, Owed(j)' PROVE Owed(j) /\ Entry(j)' = Entry(j)
  BY <1>2, <1>4 DEF Owed, Entry, Wanted
<1>5. Started => /\ \A n \in Places(walk.page) : walk.page[n] \in Entries
                 /\ \A n \in Places(walk.seen) : walk.seen[n] \in Entries
  BY <1>1, WalkFields
<1>6. /\ \A n \in Places(walk.page) : Started => walk.page[n].id \in Ids
      /\ \A n \in Places(walk.seen) : Started => walk.seen[n].id \in Ids
  BY <1>5 DEF Entries
<1>7. Started => (walk.marker # NULL => walk.marker.id \in Ids)
  BY <1>1, WalkFields DEF Entries
<1>8. newest \in Nat /\ newest' \in Nat /\ Ids \subseteq Nat
  BY <1>1, ListingAssumption DEF TypeOK, Ids
<1>9. Going => Started
  BY DEF Going, Started
<1>10. Numbered'
  <2>1. ASSUME NEW j \in Ids, table'[j] # NULL PROVE j <= newest'
    BY <1>8, <2>1 DEF IInv, Numbered
  <2>2. ASSUME NEW j \in Ids, j <= newest PROVE j <= newest'
    BY <1>8, <2>2
  <2>. QED BY <1>6, <1>7, <2>1, <2>2 DEF IInv, Numbered, Started
<1>11. Asked' /\ PageSorted'
  BY DEF IInv, Asked, PageSorted, Going
<1>12. AllSteady'
  BY <1>3, <1>5 DEF IInv, AllSteady, Started
<1>13. AllPlaced'
  BY DEF AllPlaced, Going
<1>14. SeenBehind' /\ SeenDistinct'
  BY <1>2, <1>6, <1>9 DEF IInv, SeenBehind, SeenDistinct, Going, Started
<1>15. NothingSkipped'
  <2>. SUFFICES ASSUME Going, ~story.shifted, walk.pages = 0 \/ Keeps(walk.first),
                       NEW j \in Ids, Owed(j), Entry(j)' = Entry(j)
                PROVE  (\/ Holds(walk.seen, j)
                        \/ /\ walk.at # "convert"
                           /\ walk.marker = NULL \/ Precedes(walk.q, walk.marker, Entry(j))
                        \/ walk.at = "convert" /\ (Holds(walk.page, j) \/ Beyond(j)))'
    BY <1>4 DEF NothingSkipped, Going, Keeps
  <2>. QED BY DEF IInv, NothingSkipped, Beyond
<1>16. AllSeen'
  BY <1>4 DEF IInv, AllSeen, Keeps
<1>17. SeenWanted' /\ PageWanted'
  BY <1>2, <1>6, <1>9 DEF IInv, SeenWanted, PageWanted, Started, Going, Keeps, Wanted
<1>. QED BY <1>10, <1>11, <1>12, <1>13, <1>14, <1>15, <1>16, <1>17 DEF IInv

(* A new row has an id above all that were given, and untouched rows keep   *)
(* their places.                                                            *)
LEMMA InsertInv ==
  ASSUME IInv, Insert
  PROVE  IInv'
<1>. DEFINE i == newest + 1
<1>1. /\ TypeOK /\ newest \in Nat /\ Ids \subseteq Nat
      /\ i \in Ids /\ newest < i /\ newest' = i
  BY ListingAssumption DEF IInv, TypeOK, Insert, Ids
<1>2. PICK r \in Rows : table' = [table EXCEPT ![i] = r]
  BY DEF Insert
<1>3. UNCHANGED <<agentUp, cached, caller, walk>> /\ changes' = changes - 1 /\ changes > 0
  BY DEF Insert, Change
<1>4. story' = [touched |-> story.touched \cup {i}, shifted |-> story.shifted \/ FALSE]
  BY DEF Insert, Touch
<1>. HIDE DEF i
<1>5. TypeOK'
  <2>1. story' \in [touched : SUBSET Ids, shifted : BOOLEAN]
    BY <1>1, <1>4 DEF TypeOK
  <2>2. table' \in [Ids -> Rows \cup {NULL}] /\ changes' \in Nat
    BY <1>1, <1>2, <1>3 DEF TypeOK
  <2>3. newest' \in 0 .. MaxId
    BY <1>1, ListingAssumption DEF Ids
  <2>. QED BY <1>1, <1>3, <2>1, <2>2, <2>3 DEF TypeOK
<1>6. ASSUME NEW x, x.id \in Ids, x.id <= newest, Placed(x)
      PROVE  table'[x.id] # NULL /\ walk.q.order.sort = "name" => table'[x.id].key = x.key
  <2>1. x.id # i
    BY <1>1, <1>6
  <2>. QED BY <1>1, <1>2, <1>3, <1>6, <2>1 DEF Placed, TypeOK
<1>7. Going /\ ~story.shifted =>
        /\ \A n \in Places(walk.page) : Placed(walk.page[n])'
        /\ walk.marker # NULL => Placed(walk.marker)'
  <2>. SUFFICES ASSUME Going, ~story.shifted
                PROVE  /\ \A n \in Places(walk.page) : Placed(walk.page[n])'
                       /\ walk.marker # NULL => Placed(walk.marker)'
    OBVIOUS
  <2>1. Started
    BY DEF Going, Started
  <2>2. \A n \in Places(walk.page) : walk.page[n].id \in Ids
    BY <1>1, <2>1, WalkFields DEF Entries
  <2>3. walk.marker # NULL => walk.marker.id \in Ids
    BY <1>1, <2>1, WalkFields DEF Entries
  <2>4. /\ \A n \in Places(walk.page) : Placed(walk.page[n]) /\ walk.page[n].id <= newest
        /\ walk.marker # NULL => Placed(walk.marker) /\ walk.marker.id <= newest
    BY <2>1 DEF IInv, AllPlaced, Numbered
  <2>. QED BY <1>3, <1>6, <2>2, <2>3, <2>4 DEF Placed
<1>8. \A j \in Ids : j # i => table'[j] = table[j]
  BY <1>1, <1>2 DEF TypeOK
<1>9. newest <= newest' /\ i <= newest'
  BY <1>1
<1>10. story'.touched = story.touched \cup {i} /\ (story'.shifted <=> story.shifted)
  BY <1>1, <1>4 DEF TypeOK
<1>. QED BY <1>1, <1>3, <1>5, <1>7, <1>8, <1>9, <1>10, ChangeInv

(* A row that goes is touched. *)
LEMMA DeleteInv ==
  ASSUME IInv, NEW i \in Ids, Delete(i)
  PROVE  IInv'
<1>1. TypeOK /\ newest \in Nat
  BY ListingAssumption DEF IInv, TypeOK
<1>2. table' = [table EXCEPT ![i] = NULL]
  BY DEF Delete
<1>3. UNCHANGED <<newest, agentUp, cached, caller, walk>> /\ changes' = changes - 1 /\ changes > 0
  BY DEF Delete, Change
<1>4. story' = [touched |-> story.touched \cup {i}, shifted |-> story.shifted \/ FALSE]
  BY DEF Delete, Touch
<1>5. TypeOK'
  <2>1. story' \in [touched : SUBSET Ids, shifted : BOOLEAN]
    BY <1>1, <1>4 DEF TypeOK
  <2>2. table' \in [Ids -> Rows \cup {NULL}] /\ changes' \in Nat
    BY <1>1, <1>2, <1>3 DEF TypeOK
  <2>. QED BY <1>1, <1>3, <2>1, <2>2 DEF TypeOK
<1>6. ASSUME NEW x, x.id \in Ids, Placed(x)
      PROVE  table'[x.id] # NULL /\ walk.q.order.sort = "name" => table'[x.id].key = x.key
  BY <1>1, <1>2, <1>3, <1>6 DEF Placed, TypeOK
<1>7. Going /\ ~story.shifted =>
        /\ \A n \in Places(walk.page) : Placed(walk.page[n])'
        /\ walk.marker # NULL => Placed(walk.marker)'
  <2>. SUFFICES ASSUME Going, ~story.shifted
                PROVE  /\ \A n \in Places(walk.page) : Placed(walk.page[n])'
                       /\ walk.marker # NULL => Placed(walk.marker)'
    OBVIOUS
  <2>1. Started
    BY DEF Going, Started
  <2>2. \A n \in Places(walk.page) : walk.page[n].id \in Ids
    BY <1>1, <2>1, WalkFields DEF Entries
  <2>3. walk.marker # NULL => walk.marker.id \in Ids
    BY <1>1, <2>1, WalkFields DEF Entries
  <2>4. /\ \A n \in Places(walk.page) : Placed(walk.page[n])
        /\ walk.marker # NULL => Placed(walk.marker)
    BY DEF IInv, AllPlaced
  <2>. QED BY <1>3, <1>6, <2>2, <2>3, <2>4 DEF Placed
<1>8. (\A j \in Ids : j # i => table'[j] = table[j]) /\ table'[i] = NULL
  BY <1>1, <1>2 DEF TypeOK
<1>9. newest <= newest'
  BY <1>1, <1>3
<1>10. story'.touched = story.touched \cup {i} /\ (story'.shifted <=> story.shifted)
  BY <1>1, <1>4 DEF TypeOK
<1>. QED BY <1>3, <1>5, <1>7, <1>8, <1>9, <1>10, ChangeInv

(* A row that changes is touched, and may have moved in the order. *)
LEMMA UpdateInv ==
  ASSUME IInv, NEW i \in Ids, Update(i)
  PROVE  IInv'
<1>. DEFINE Held == \/ \E n \in Places(walk.page) : walk.page[n].id = i
                    \/ walk.marker # NULL /\ walk.marker.id = i
<1>1. TypeOK /\ newest \in Nat /\ table[i] # NULL /\ table[i] \in Rows
  BY ListingAssumption DEF IInv, TypeOK, Update
<1>2. PICK r \in Rows :
        /\ table' = [table EXCEPT ![i] = r]
        /\ story' = [touched |-> story.touched \cup {i},
                     shifted |-> story.shifted
                                 \/ (r.key # table[i].key /\ walk.q.order.sort = "name" /\ Held)]
  BY DEF Update, Touch, Places
<1>3. UNCHANGED <<newest, agentUp, cached, caller, walk>> /\ changes' = changes - 1 /\ changes > 0
  BY DEF Update, Change
<1>. DEFINE shifts == r.key # table[i].key /\ walk.q.order.sort = "name" /\ Held
<1>4. /\ story'.touched = story.touched \cup {i}
      /\ story'.shifted <=> story.shifted \/ shifts
      /\ story' \in [touched : SUBSET Ids, shifted : BOOLEAN]
  <2>1. shifts \in BOOLEAN
    OBVIOUS
  <2>. HIDE DEF shifts
  <2>2. story' = [touched |-> story.touched \cup {i}, shifted |-> story.shifted \/ shifts]
    BY <1>2 DEF shifts
  <2>. QED BY <1>1, <2>1, <2>2 DEF TypeOK
<1>. HIDE DEF shifts
<1>5. TypeOK'
  <2>1. table' \in [Ids -> Rows \cup {NULL}] /\ changes' \in Nat
    BY <1>1, <1>2, <1>3 DEF TypeOK
  <2>. QED BY <1>1, <1>3, <1>4, <2>1 DEF TypeOK
<1>6. ASSUME NEW x, x.id \in Ids, Placed(x),
             x.id = i => ~(r.key # table[i].key /\ walk.q.order.sort = "name")
      PROVE  table'[x.id] # NULL /\ walk.q.order.sort = "name" => table'[x.id].key = x.key
  BY <1>1, <1>2, <1>3, <1>6 DEF Placed, TypeOK
<1>7. Going /\ ~story'.shifted =>
        /\ \A n \in Places(walk.page) : Placed(walk.page[n])'
        /\ walk.marker # NULL => Placed(walk.marker)'
  <2>. SUFFICES ASSUME Going, ~story.shifted, ~shifts
                PROVE  /\ \A n \in Places(walk.page) : Placed(walk.page[n])'
                       /\ walk.marker # NULL => Placed(walk.marker)'
    BY <1>4
  <2>1. Started
    BY DEF Going, Started
  <2>2. \A n \in Places(walk.page) : walk.page[n].id \in Ids
    BY <1>1, <2>1, WalkFields DEF Entries
  <2>3. walk.marker # NULL => walk.marker.id \in Ids
    BY <1>1, <2>1, WalkFields DEF Entries
  <2>4. /\ \A n \in Places(walk.page) : Placed(walk.page[n])
        /\ walk.marker # NULL => Placed(walk.marker)
    BY DEF IInv, AllPlaced
  <2>5. \A n \in Places(walk.page) : Placed(walk.page[n])'
    BY <1>3, <1>6, <2>2, <2>4 DEF Placed, shifts
  <2>6. walk.marker # NULL => Placed(walk.marker)'
    BY <1>3, <1>6, <2>3, <2>4 DEF Placed, shifts
  <2>. QED BY <2>5, <2>6
<1>8. (\A j \in Ids : j # i => table'[j] = table[j]) /\ i <= newest
  BY <1>1, <1>2 DEF IInv, Numbered, TypeOK
<1>9. newest <= newest' /\ i <= newest'
  BY <1>1, <1>3, <1>8
<1>. QED BY <1>3, <1>4, <1>5, <1>7, <1>8, <1>9, ChangeInv

(* A step that the walk and the table do not see. *)
LEMMA ElsewhereInv ==
  ASSUME IInv, TypeOK', UNCHANGED <<table, newest, caller, walk, story>>
  PROVE  IInv'
BY DEF IInv, Numbered, Asked, AllSteady, AllPlaced, PageSorted, SeenBehind, SeenDistinct,
     NothingSkipped, AllSeen, SeenWanted, PageWanted, Started, Going, Steady, Untouched, Current,
     Placed, Owed, Beyond, Entry, Wanted, Keeps

(* The agent of the boards is no part of the walk. *)
LEMMA AgentComesOrGoesInv ==
  ASSUME IInv, AgentComesOrGoes
  PROVE  IInv'
<1>1. TypeOK'
  BY DEF IInv, TypeOK, AgentComesOrGoes, Change
<1>. QED BY <1>1, ElsewhereInv DEF AgentComesOrGoes

-----------------------------------------------------------------------------
(* Theorems *)

(* Every step keeps the invariant. *)
LEMMA NextInv == IInv /\ [Next]_vars => IInv'
<1>. SUFFICES ASSUME IInv, [Next]_vars PROVE IInv'
  OBVIOUS
<1>1. ASSUME walk.at = "idle", NEW q \in Requests, GetAll(q) PROVE IInv'
  BY <1>1, GetAllInv
<1>2. CASE FindMarker
  BY <1>2, FindMarkerInv
<1>3. CASE QueryPage
  BY <1>3, QueryPageInv
<1>4. CASE ConvertPage
  BY <1>4, ConvertPageInv
<1>5. CASE ConvertRaises
  BY <1>5, RaiseInv DEF ConvertRaises, Going
<1>6. CASE Insert
  BY <1>6, InsertInv
<1>7. CASE AgentComesOrGoes
  BY <1>7, AgentComesOrGoesInv
<1>8. ASSUME NEW i \in Ids, Delete(i) PROVE IInv'
  BY <1>8, DeleteInv
<1>9. ASSUME NEW i \in Ids, Update(i) PROVE IInv'
  BY <1>9, UpdateInv
<1>10. CASE UNCHANGED vars
  <2>1. TypeOK'
    BY <1>10 DEF IInv, TypeOK, vars, env
  <2>. QED BY <1>10, <2>1, ElsewhereInv DEF vars, env
<1>. QED BY <1>1, <1>2, <1>3, <1>4, <1>5, <1>6, <1>7, <1>8, <1>9, <1>10 DEF Next, Step

(* The invariant holds of every walk. *)
THEOREM Inductive == Spec => []IInv
<1>. QED BY InitInv, NextInv, PTL DEF Spec

(* A sequence has the id at most once; or, with Holds, once. *)
LEMMA Times ==
  ASSUME NEW s \in Seq(Entries), NEW i,
         \A m, n \in Places(s) : s[m].id = i /\ s[n].id = i => m = n
  PROVE  /\ Cardinality({n \in 1 .. Len(s) : s[n].id = i}) <= 1
         /\ Holds(s, i) => Cardinality({n \in 1 .. Len(s) : s[n].id = i}) = 1
<1>. DEFINE T == {n \in 1 .. Len(s) : s[n].id = i}
<1>1. T = {} \/ \E n \in T : T = {n}
  BY DEF Places
<1>2. Holds(s, i) => T # {}
  BY DEF Holds, Places
<1>. HIDE DEF T
<1>3. Cardinality(T) <= 1 /\ (T # {} => Cardinality(T) = 1)
  <2>1. CASE T = {}
    BY <2>1, FS_EmptySet
  <2>2. CASE \E n \in T : T = {n}
    <3>1. PICK n \in T : T = {n}
      BY <2>2
    <3>2. Cardinality(T) = 1
      BY <3>1, FS_Singleton
    <3>. QED BY <3>1, <3>2
  <2>. QED BY <1>1, <2>1, <2>2
<1>. QED BY <1>2, <1>3 DEF T

(* No row is given twice, and none that was asked for is left out: what the *)
(* pages of get_all and their links add up to, beside any changes.         *)
THEOREM EveryRowIsSeenOnce == Spec => []SeenOnce
<1>1. ASSUME IInv PROVE SeenOnce
  <2>. SUFFICES ASSUME Started, ~story.shifted, NEW i \in Ids \ story.touched
                PROVE  LET times == Cardinality({n \in 1 .. Len(walk.seen) : walk.seen[n].id = i}) IN
                         /\ times <= 1
                         /\ walk.at = "done" /\ (walk.pages = 1 \/ Keeps(walk.first))
                              /\ walk.first.limit # 0
                              /\ table[i] # NULL /\ Wanted(walk.first, table[i]) => times = 1
    BY DEF SeenOnce
  <2>1. walk.seen \in Seq(Entries)
    BY <1>1, WalkFields DEF IInv
  <2>2. \A m, n \in Places(walk.seen) : walk.seen[m].id = i /\ walk.seen[n].id = i => m = n
    BY <1>1 DEF IInv, SeenDistinct, Untouched
  <2>3. walk.at = "done" /\ (walk.pages = 1 \/ Keeps(walk.first)) /\ walk.first.limit # 0
          /\ table[i] # NULL /\ Wanted(walk.first, table[i]) => Holds(walk.seen, i)
    BY <1>1 DEF IInv, AllSeen, Owed, Untouched
  <2>. QED BY <2>1, <2>2, <2>3, Times
<1>. QED BY <1>1, Inductive, PTL

(* Only rows that were asked for are given, where the links ask for the     *)
(* same as the first request did.                                          *)
THEOREM OnlyWantedIsSeen == Spec => []OnlyWanted
<1>1. ASSUME IInv PROVE OnlyWanted
  <2>. SUFFICES ASSUME Started, walk.pages <= 1 \/ Keeps(walk.first),
                       NEW n \in Places(walk.seen), Untouched(walk.seen[n].id)
                PROVE  /\ table[walk.seen[n].id] # NULL
                       /\ Wanted(walk.first, table[walk.seen[n].id])
    BY DEF OnlyWanted, Returned, Untouched, Places
  <2>. QED BY <1>1 DEF IInv, SeenWanted, AllSteady, Steady, Current
<1>. QED BY <1>1, Inductive, PTL

-----------------------------------------------------------------------------
(* The schema: what the models and the revisions ask for *)

HasName(fields, n)   == \E f \in fields : f.name = n
IsModelled(tab, n) == \E m \in DOMAIN Models : Models[m].name = tab /\ HasName(Models[m].fields, n)
IsKept(uniques)      == \E u \in uniques : u.cols = {"uuid"}

(* A table that is created: its columns are those of a model, and its uuid  *)
(* is unique.                                                              *)
MayTable(t) ==
  /\ \A f \in t.fields : IsModelled(t.name, f.name)
  /\ t.name = "ports_on_boards" \/ (\A f \in t.fields : f.name # "uuid") \/ IsKept(t.uniques)

(* The constraint that a revision renames. *)
OldUuid  == "uniq_enabled_webservices0uuid"
NewUuid  == [name |-> "uniq_webservices0uuid", cols |-> {"uuid"}]
AddsUuid == AddUnique("webservices", NewUuid)

May(op) ==
  \/ op.do = "create_table" /\ MayTable(op.def)
  \/ op.do = "add_column" /\ IsModelled(op.table, op.field.name) /\ op.field.name # "uuid"
  \/ op.do \in {"alter_column", "add_key", "drop_key", "add_unique"}
  \/ op.do = "drop_unique" /\ op.table = "webservices" /\ op.name = OldUuid

(* The changes of a revision: a constraint on a uuid goes only just after   *)
(* the new one has come.                                                   *)
IsList(s) == \E S : s \in Seq(S)
Sound(s) ==
  /\ IsList(s)
  /\ \A i \in 1 .. Len(s) :
       May(s[i]) /\ (s[i].do = "drop_unique" => i > 1 /\ s[i - 1] = AddsUuid)

(* The uuid of each model. *)
LEMMA ModelTables == \A m \in DOMAIN Models : MayTable(Models[m])
<1>. DEFINE Kept(t) == \/ t.name = "ports_on_boards" \/ \A f \in t.fields : f.name # "uuid"
                       \/ IsKept(t.uniques)
<1>1. Kept(Conductor)
  BY DEF Conductor, Table, Common, Fields, Required
<1>2. Kept(WampAgent)
  BY DEF WampAgent, Table, Common, Fields, Required
<1>3. Kept(Plugin)
  <2>1. [name |-> "uniq_plugins0uuid", cols |-> {"uuid"}] \in Plugin.uniques
    BY DEF Plugin, Table, Unique
  <2>. QED BY <2>1 DEF IsKept
<1>4. Kept(Service)
  <2>1. [name |-> "uniq_services0uuid", cols |-> {"uuid"}] \in Service.uniques
    BY DEF Service, Table, Unique
  <2>. QED BY <2>1 DEF IsKept
<1>5. Kept(Fleet)
  <2>1. [name |-> "uniq_fleets0uuid", cols |-> {"uuid"}] \in Fleet.uniques
    BY DEF Fleet, Table, Unique
  <2>. QED BY <2>1 DEF IsKept
<1>6. Kept(Request)
  <2>1. [name |-> "uniq_requests0uuid", cols |-> {"uuid"}] \in Request.uniques
    BY DEF Request, Table, Unique
  <2>. QED BY <2>1 DEF IsKept
<1>7. Kept(Result)
  BY DEF Result, Table, Common, Fields, Required
<1>8. Kept(Board)
  <2>1. [name |-> "uniq_boards0uuid", cols |-> {"uuid"}] \in Board.uniques
    BY DEF Board, Table, Unique
  <2>. QED BY <2>1 DEF IsKept
<1>9. Kept(Location)
  BY DEF Location, Table, Common, Fields, Required
<1>10. Kept(SessionWP)
  BY DEF SessionWP, Table, Common, Fields, Required
<1>11. Kept(InjectionPlugin)
  BY DEF InjectionPlugin, Table, Common, Fields, Required
<1>12. Kept(ExposedService)
  BY DEF ExposedService, Table, Common, Fields, Required
<1>13. Kept(Port)
  BY DEF Port, Table
<1>14. Kept(Webservice)
  <2>1. [name |-> "uniq_webservices0uuid", cols |-> {"uuid"}] \in Webservice.uniques
    BY DEF Webservice, Table, Unique
  <2>. QED BY <2>1 DEF IsKept
<1>15. Kept(EnabledWebservice)
  BY DEF EnabledWebservice, Table, Common, Fields, Required
<1>. HIDE DEF Kept
<1>16. \A m \in DOMAIN Models : Kept(Models[m])
  BY <1>1, <1>2, <1>3, <1>4, <1>5, <1>6, <1>7, <1>8, <1>9, <1>10, <1>11, <1>12, <1>13, <1>14, <1>15
     DEF Models
<1>17. \A m \in DOMAIN Models : \A f \in Models[m].fields : IsModelled(Models[m].name, f.name)
  BY DEF IsModelled, HasName
<1>. QED BY <1>16, <1>17 DEF MayTable, Kept

(* A table of a revision, whose columns are those of the model it becomes.  *)
LEMMA BecomesModel ==
  ASSUME NEW t, NEW m \in DOMAIN Models, t.name = Models[m].name,
         \A f \in t.fields : HasName(Models[m].fields, f.name),
         t.name = "ports_on_boards" \/ (\A f \in t.fields : f.name # "uuid") \/ IsKept(t.uniques)
  PROVE  MayTable(t)
BY DEF MayTable, IsModelled

(* The places of the models. *)
LEMMA ModelPlaces ==
  /\ DOMAIN Models = 1 .. 15
  /\ Models[1] = Conductor /\ Models[2] = WampAgent /\ Models[3] = Plugin /\ Models[4] = Service
  /\ Models[5] = Fleet /\ Models[6] = Request /\ Models[7] = Result /\ Models[8] = Board
  /\ Models[9] = Location /\ Models[10] = SessionWP /\ Models[11] = InjectionPlugin
  /\ Models[12] = ExposedService /\ Models[13] = Port /\ Models[14] = Webservice
  /\ Models[15] = EnabledWebservice
BY DEF Models
(* The tables of the revisions. *)
LEMMA InitTablesMay == \A i \in DOMAIN InitTables : MayTable(InitTables[i])
<1>1. MayTable(InitBoards)
  <2>1. [name |-> "uniq_boards0uuid", cols |-> {"uuid"}] \in InitBoards.uniques
    BY DEF InitBoards, Table, Unique
  <2>2. 8 \in DOMAIN Models /\ InitBoards.name = Models[8].name /\ Board = Models[8]
    BY ModelPlaces DEF InitBoards, Board, Table
  <2>3. [name |-> "code", type |-> Str(36), null |-> TRUE] \in Board.fields
    BY DEF Board, Table, Fields
  <2>4. ASSUME NEW f \in InitBoards.fields PROVE f \in Board.fields \/ f.name = "code"
    BY DEF InitBoards, Board, Table, Fields
  <2>. QED BY <2>1, <2>2, <2>3, <2>4, BecomesModel DEF HasName, IsKept
<1>2. MayTable(InitConductors)
  <2>1. /\ 1 \in DOMAIN Models /\ InitConductors.name = Models[1].name
        /\ \A f \in InitConductors.fields : f \in Models[1].fields
    BY ModelPlaces DEF InitConductors, Conductor, Table
  <2>2. \A f \in InitConductors.fields : f.name # "uuid"
    BY DEF InitConductors, Table, Common, Fields, Required
  <2>. QED BY <2>1, <2>2, BecomesModel DEF HasName
<1>3. MayTable(InitPlugins)
  <2>1. /\ 3 \in DOMAIN Models /\ InitPlugins.name = Models[3].name
        /\ \A f \in InitPlugins.fields : f \in Models[3].fields
    BY ModelPlaces DEF InitPlugins, Plugin, Table
  <2>2. [name |-> "uniq_plugins0uuid", cols |-> {"uuid"}] \in InitPlugins.uniques
    BY DEF InitPlugins, Table, Unique
  <2>. QED BY <2>1, <2>2, BecomesModel DEF HasName, IsKept
<1>4. MayTable(InitServices)
  <2>1. /\ 4 \in DOMAIN Models /\ InitServices.name = Models[4].name
        /\ \A f \in InitServices.fields : f \in Models[4].fields
    BY ModelPlaces DEF InitServices, Service, Table
  <2>2. [name |-> "uniq_services0uuid", cols |-> {"uuid"}] \in InitServices.uniques
    BY DEF InitServices, Table, Unique
  <2>. QED BY <2>1, <2>2, BecomesModel DEF HasName, IsKept
<1>5. MayTable(InitWampagents)
  <2>1. /\ 2 \in DOMAIN Models /\ InitWampagents.name = Models[2].name
        /\ \A f \in InitWampagents.fields : f \in Models[2].fields
    BY ModelPlaces DEF InitWampagents, WampAgent, Table
  <2>2. \A f \in InitWampagents.fields : f.name # "uuid"
    BY DEF InitWampagents, Table, Common, Fields, Required
  <2>. QED BY <2>1, <2>2, BecomesModel DEF HasName
<1>6. MayTable(InitExposedServices)
  <2>1. /\ 12 \in DOMAIN Models /\ InitExposedServices.name = Models[12].name
        /\ \A f \in InitExposedServices.fields : f \in Models[12].fields
    BY ModelPlaces DEF InitExposedServices, ExposedService, Table
  <2>2. \A f \in InitExposedServices.fields : f.name # "uuid"
    BY DEF InitExposedServices, Table, Common, Fields, Required
  <2>. QED BY <2>1, <2>2, BecomesModel DEF HasName
<1>7. MayTable(InitInjectionPlugins)
  <2>1. /\ 11 \in DOMAIN Models /\ InitInjectionPlugins.name = Models[11].name
        /\ \A f \in InitInjectionPlugins.fields : f \in Models[11].fields
    BY ModelPlaces DEF InitInjectionPlugins, InjectionPlugin, Table
  <2>2. \A f \in InitInjectionPlugins.fields : f.name # "uuid"
    BY DEF InitInjectionPlugins, Table, Common, Fields, Required
  <2>. QED BY <2>1, <2>2, BecomesModel DEF HasName
<1>8. MayTable(InitLocations)
  <2>1. /\ 9 \in DOMAIN Models /\ InitLocations.name = Models[9].name
        /\ \A f \in InitLocations.fields : f \in Models[9].fields
    BY ModelPlaces DEF InitLocations, Location, Table
  <2>2. \A f \in InitLocations.fields : f.name # "uuid"
    BY DEF InitLocations, Table, Common, Fields, Required
  <2>. QED BY <2>1, <2>2, BecomesModel DEF HasName
<1>9. MayTable(InitPortsOnBoards)
  <2>1. /\ 13 \in DOMAIN Models /\ InitPortsOnBoards.name = Models[13].name
        /\ \A f \in InitPortsOnBoards.fields : f \in Models[13].fields
    BY ModelPlaces DEF InitPortsOnBoards, Port, Table
  <2>2. InitPortsOnBoards.name = "ports_on_boards"
    BY DEF InitPortsOnBoards, Table
  <2>. QED BY <2>1, <2>2, BecomesModel DEF HasName
<1>10. MayTable(InitSessions)
  <2>1. /\ 10 \in DOMAIN Models /\ InitSessions.name = Models[10].name
        /\ \A f \in InitSessions.fields : f \in Models[10].fields
    BY ModelPlaces DEF InitSessions, SessionWP, Table
  <2>2. \A f \in InitSessions.fields : f.name # "uuid"
    BY DEF InitSessions, Table, Common, Fields, Required
  <2>. QED BY <2>1, <2>2, BecomesModel DEF HasName
<1>. QED BY <1>1, <1>2, <1>3, <1>4, <1>5, <1>6, <1>7, <1>8, <1>9, <1>10 DEF InitTables

(* The tables of f28f3f4494b3. *)
LEMMA WebserviceTablesMay == MayTable(EnabledWebservicesTable) /\ MayTable(WebservicesTable)
<1>1. MayTable(EnabledWebservicesTable)
  <2>1. /\ 15 \in DOMAIN Models /\ EnabledWebservicesTable.name = Models[15].name
        /\ \A f \in EnabledWebservicesTable.fields : f \in Models[15].fields
    BY ModelPlaces DEF EnabledWebservicesTable, EnabledWebservice, Table
  <2>2. \A f \in EnabledWebservicesTable.fields : f.name # "uuid"
    BY DEF EnabledWebservicesTable, Table, Common, Fields, Required
  <2>. QED BY <2>1, <2>2, BecomesModel DEF HasName
<1>2. MayTable(WebservicesTable)
  <2>1. /\ 14 \in DOMAIN Models /\ WebservicesTable.name = Models[14].name
        /\ \A f \in WebservicesTable.fields : f \in Models[14].fields
    BY ModelPlaces DEF WebservicesTable, Webservice, Table
  <2>2. [name |-> "uniq_enabled_webservices0uuid", cols |-> {"uuid"}] \in WebservicesTable.uniques
    BY DEF WebservicesTable, Table, Unique
  <2>. QED BY <2>1, <2>2, BecomesModel DEF HasName, IsKept
<1>. QED BY <1>1, <1>2

(* What these require, the models do not. *)
LEMMA RequestTablesMay == MayTable(RequestsTable) /\ MayTable(ResultsTable)
<1>1. MayTable(RequestsTable)
  <2>. DEFINE F == Fields(Str(36), {"uuid", "destination_uuid"})
                     \cup Fields(Integer, {"pending_requests", "type"})
                     \cup Fields(Str(10), {"status"}) \cup Fields(Str(20), {"action"})
  <2>1. 6 \in DOMAIN Models /\ RequestsTable.name = Models[6].name /\ Request = Models[6]
    BY ModelPlaces DEF RequestsTable, Request, Table
  <2>2. \A f \in F : f \in Request.fields
    BY DEF Request, Table, Fields
  <2>3. \A f \in RequestsTable.fields : f \in Request.fields \/ f \in Required(F)
    BY DEF RequestsTable, Request, Table, Fields
  <2>4. \A f \in F : [f EXCEPT !.null = FALSE].name = f.name
    BY DEF Fields
  <2>5. ASSUME NEW f \in RequestsTable.fields PROVE HasName(Request.fields, f.name)
    <3>. HIDE DEF F
    <3>. QED BY <2>2, <2>3, <2>4 DEF HasName, Required
  <2>6. [name |-> "uniq_requests0uuid", cols |-> {"uuid"}] \in RequestsTable.uniques
    BY DEF RequestsTable, Table, Unique
  <2>. QED BY <2>1, <2>5, <2>6, BecomesModel DEF IsKept
<1>2. MayTable(ResultsTable)
  <2>. DEFINE F == Fields(Str(36), {"board_uuid", "request_uuid"}) \cup Fields(Str(10), {"result"})
  <2>1. 7 \in DOMAIN Models /\ ResultsTable.name = Models[7].name /\ Result = Models[7]
    BY ModelPlaces DEF ResultsTable, Result, Table
  <2>2. \A f \in F : f \in Result.fields
    BY DEF Result, Table, Fields
  <2>3. \A f \in ResultsTable.fields : f \in Result.fields \/ f \in Required(F)
    BY DEF ResultsTable, Result, Table, Fields
  <2>4. \A f \in F : [f EXCEPT !.null = FALSE].name = f.name
    BY DEF Fields
  <2>5. ASSUME NEW f \in ResultsTable.fields PROVE HasName(Result.fields, f.name)
    <3>. HIDE DEF F
    <3>. QED BY <2>2, <2>3, <2>4 DEF HasName, Required
  <2>6. \A f \in ResultsTable.fields : f.name # "uuid"
    BY DEF ResultsTable, Table, Common, Fields, Required
  <2>. QED BY <2>1, <2>5, <2>6, BecomesModel
<1>. QED BY <1>1, <1>2

-----------------------------------------------------------------------------
(* The revisions *)

(* Lists of changes may be joined. *)
LEMMA SoundJoins ==
  ASSUME NEW s, NEW t, Sound(s), Sound(t)
  PROVE  Sound(s \o t)
<1>1. PICK S : s \in Seq(S)
  BY DEF Sound, IsList
<1>2. PICK T : t \in Seq(T)
  BY DEF Sound, IsList
<1>. DEFINE U == S \cup T
            st == s \o t
<1>3. s \in Seq(U) /\ t \in Seq(U)
  BY <1>1, <1>2
<1>. HIDE DEF U
<1>4. /\ st \in Seq(U) /\ Len(st) = Len(s) + Len(t) /\ Len(s) \in Nat /\ Len(t) \in Nat
      /\ \A i \in 1 .. Len(s) : st[i] = s[i]
      /\ \A i \in 1 .. Len(t) : st[Len(s) + i] = t[i]
  <2>1. st \in Seq(U) /\ Len(st) = Len(s) + Len(t) /\ Len(s) \in Nat /\ Len(t) \in Nat
    BY <1>3
  <2>2. \A i \in 1 .. Len(s) : st[i] = s[i]
    BY <1>3
  <2>3. \A i \in 1 .. Len(t) : st[Len(s) + i] = t[i]
    BY <1>3
  <2>. QED BY <2>1, <2>2, <2>3
<1>. HIDE DEF st
<1>5. ASSUME NEW i \in 1 .. Len(st)
      PROVE  May(st[i]) /\ (st[i].do = "drop_unique" => i > 1 /\ st[i - 1] = AddsUuid)
  <2>1. CASE i <= Len(s)
    <3>1. i \in 1 .. Len(s) /\ st[i] = s[i] /\ (i > 1 => i - 1 \in 1 .. Len(s) /\ st[i - 1] = s[i - 1])
      BY <1>4, <2>1
    <3>. QED BY <3>1 DEF Sound
  <2>2. CASE i > Len(s)
    <3>. DEFINE j == i - Len(s)
    <3>1. j \in 1 .. Len(t) /\ i = Len(s) + j
      BY <1>4, <2>2
    <3>. HIDE DEF j
    <3>2. st[i] = t[j]
      BY <1>4, <3>1
    <3>3. j > 1 => i > 1 /\ i - 1 = Len(s) + (j - 1) /\ j - 1 \in 1 .. Len(t)
      BY <1>4, <3>1
    <3>4. j > 1 => st[i - 1] = t[j - 1]
      BY <1>4, <3>3
    <3>. QED BY <3>1, <3>2, <3>3, <3>4 DEF Sound
  <2>. QED BY <1>4, <2>1, <2>2
<1>. QED BY <1>4, <1>5 DEF Sound, IsList, st

(* A key that is made anew. *)
LEMMA CascadeSound == ASSUME NEW t, NEW col PROVE Sound(Cascade(t, col))
<1>1. IsList(Cascade(t, col))
  <2>1. Cascade(t, col) \in Seq({DropKey(t, 1), AddKey(t, ToBoard(col, TRUE))})
    BY DEF Cascade
  <2>. QED BY <2>1 DEF IsList
<1>2. \A i \in 1 .. Len(Cascade(t, col)) : Cascade(t, col)[i].do \in {"drop_key", "add_key"}
  BY DEF Cascade, DropKey, AddKey
<1>. QED BY <1>1, <1>2 DEF Sound, May

(* Columns that are altered. *)
LEMMA NullableSound ==
  ASSUME NEW t, NEW type, NEW names, IsList(names)
  PROVE  Sound(Nullable(t, type, names))
<1>. DEFINE s == Nullable(t, type, names)
<1>1. DOMAIN names = 1 .. Len(names) /\ Len(names) \in Nat
  BY DEF IsList
<1>2. s = [i \in 1 .. Len(names) |-> AlterColumn(t, Column(names[i], type))]
  BY <1>1 DEF Nullable
<1>. DEFINE S == {s[i] : i \in 1 .. Len(names)}
<1>. HIDE DEF s
<1>3. s \in Seq(S) /\ Len(s) = Len(names)
  BY <1>1, <1>2
<1>4. \A i \in 1 .. Len(s) : s[i].do = "alter_column"
  BY <1>2, <1>3 DEF AlterColumn
<1>. QED BY <1>3, <1>4 DEF Sound, IsList, May, s

(* The one constraint that is dropped. *)
LEMMA RenameUuidSound == Sound(RenameUuid)
<1>. DEFINE drop == DropUnique("webservices", OldUuid)
<1>1. RenameUuid = <<AddsUuid, drop>>
  BY DEF RenameUuid, AddsUuid, NewUuid, OldUuid
<1>2. May(AddsUuid) /\ AddsUuid.do # "drop_unique"
  BY DEF May, AddsUuid, AddUnique
<1>3. May(drop)
  BY DEF May, DropUnique
<1>4. IsList(RenameUuid)
  <2>1. <<AddsUuid, drop>> \in Seq({AddsUuid, drop})
    OBVIOUS
  <2>. QED BY <1>1, <2>1 DEF IsList
<1>. HIDE DEF drop
<1>. QED BY <1>1, <1>2, <1>3, <1>4 DEF Sound

(* 57a99337e843 *)
LEMMA HardDeviceDeleteSound == Sound(HardDeviceDelete)
<1>1. ASSUME NEW n PROVE IsList(<<n>>)
  <2>1. <<n>> \in Seq({n})
    OBVIOUS
  <2>. QED BY <2>1 DEF IsList
<1>2. IsList(<<"board_uuid", "request_uuid">>)
  <2>1. <<"board_uuid", "request_uuid">> \in Seq({"board_uuid", "request_uuid"})
    OBVIOUS
  <2>. QED BY <2>1 DEF IsList
<1>3. \A t, type, n : Sound(Nullable(t, type, <<n>>))
  BY <1>1, NullableSound
<1>4. Sound(Nullable("results", Str(36), <<"board_uuid", "request_uuid">>))
  BY <1>2, NullableSound
<1>. DEFINE drops == <<DropKey("results", 1), DropKey("results", 2)>>
<1>5. Sound(drops)
  <2>1. drops \in Seq({DropKey("results", 1), DropKey("results", 2)})
    OBVIOUS
  <2>2. \A i \in 1 .. Len(drops) : drops[i].do = "drop_key"
    BY DEF DropKey
  <2>. QED BY <2>1, <2>2 DEF Sound, IsList, May
<1>. HIDE DEF drops
<1>. DEFINE first == Cascade("enabled_webservices", "board_uuid")
                     \o Cascade("exposed_services", "board_uuid")
                     \o Cascade("injection_plugins", "board_uuid") \o Cascade("locations", "board_id")
                     \o Cascade("ports_on_boards", "board_uuid")
<1>6. Sound(first)
  BY CascadeSound, SoundJoins, Zenon
<1>. HIDE DEF first
<1>. DEFINE second == first
  \o Nullable("requests", Str(20), <<"action">>)
  \o Nullable("requests", Str(36), <<"destination_uuid">>)
  \o Nullable("requests", Integer, <<"pending_requests">>)
  \o Nullable("requests", Str(10), <<"status">>) \o Nullable("requests", Integer, <<"type">>)
<1>7. Sound(second)
  BY <1>3, <1>6, SoundJoins, Zenon
<1>. HIDE DEF second
<1>. DEFINE third == second
  \o Nullable("requests", Str(36), <<"uuid">>)
  \o Nullable("results", Str(36), <<"board_uuid", "request_uuid">>)
  \o Nullable("results", Str(10), <<"result">>)
  \o drops
<1>8. Sound(third)
  BY <1>3, <1>4, <1>5, <1>7, SoundJoins, Zenon
<1>. HIDE DEF third
<1>9. Sound(third \o Cascade("sessions", "board_id") \o RenameUuid
            \o Cascade("webservices", "board_uuid"))
  BY <1>8, CascadeSound, RenameUuidSound, SoundJoins, Zenon
<1>. QED BY <1>9 DEF HardDeviceDelete, first, second, third, drops

(* All revisions. *)
LEMMA RevisionsSound == \A v \in DOMAIN Revisions : Sound(Revisions[v])
<1>1. Sound(InitSchema)
  <2>1. DOMAIN InitTables = 1 .. 10
    BY DEF InitTables
  <2>2. InitSchema = [i \in 1 .. 10 |-> CreateTable(InitTables[i])]
    BY <2>1 DEF InitSchema
  <2>3. InitSchema \in Seq({CreateTable(InitTables[i]) : i \in 1 .. 10}) /\ Len(InitSchema) = 10
    BY <2>2
  <2>4. \A i \in 1 .. 10 : InitSchema[i].do = "create_table" /\ InitSchema[i].def = InitTables[i]
    BY <2>2 DEF CreateTable
  <2>. QED BY <2>1, <2>3, <2>4, InitTablesMay DEF Sound, IsList, May
<1>. DEFINE One(op) == <<op>>
            Two(a, b) == <<a, b>>
<1>2. ASSUME NEW op, May(op), op.do # "drop_unique" PROVE Sound(One(op))
  <2>1. One(op) \in Seq({op})
    OBVIOUS
  <2>2. IsList(One(op))
    BY <2>1 DEF IsList
  <2>3. Len(One(op)) = 1 /\ One(op)[1] = op
    OBVIOUS
  <2>. HIDE DEF One
  <2>. QED BY <1>2, <2>2, <2>3 DEF Sound
<1>3. ASSUME NEW a, NEW b, May(a), May(b), a.do # "drop_unique", b.do # "drop_unique"
      PROVE  Sound(Two(a, b))
  <2>1. Two(a, b) \in Seq({a, b})
    OBVIOUS
  <2>2. IsList(Two(a, b))
    BY <2>1 DEF IsList
  <2>3. Len(Two(a, b)) = 2 /\ Two(a, b)[1] = a /\ Two(a, b)[2] = b
    OBVIOUS
  <2>. HIDE DEF Two
  <2>. QED BY <1>3, <2>2, <2>3 DEF Sound
<1>4. Sound(AddFleets)
  <2>. DEFINE t == Table("fleets",
         Fields(Str(36), {"uuid", "name", "project"}) \cup Fields(Str(300), {"description"})
           \cup Fields(Json, {"extra"}),
         Unique("uniq_fleets0uuid", {"uuid"}), <<>>)
  <2>1. t = Models[5] /\ 5 \in DOMAIN Models
    BY ModelPlaces DEF Fleet
  <2>2. May(CreateTable(t)) /\ CreateTable(t).do = "create_table"
    BY <2>1, ModelTables DEF May, CreateTable
  <2>3. AddFleets = One(CreateTable(t))
    BY DEF AddFleets
  <2>. HIDE DEF t, One
  <2>. QED BY <1>2, <2>2, <2>3
<1>5. ASSUME NEW n, NEW type, n # "uuid", [name |-> n, type |-> type, null |-> TRUE] \in Board.fields
      PROVE  /\ May(AddColumn("boards", Column(n, type)))
             /\ AddColumn("boards", Column(n, type)).do = "add_column"
  <2>1. HasName(Board.fields, n)
    BY <1>5 DEF HasName
  <2>2. 8 \in DOMAIN Models /\ Models[8] = Board /\ Board.name = "boards"
    BY ModelPlaces DEF Board, Table
  <2>3. IsModelled("boards", n)
    BY <2>1, <2>2 DEF IsModelled
  <2>. QED BY <1>5, <2>3 DEF May, AddColumn, Column
<1>6. Sound(AddBoardsInFleet)
  <2>. DEFINE a == AddColumn("boards", Column("fleet", Str(36)))
              b == AddKey("boards", To("fleet", "fleets"))
  <2>1. [name |-> "fleet", type |-> Str(36), null |-> TRUE] \in Board.fields
    BY DEF Board, Table, Fields
  <2>2. May(a) /\ a.do = "add_column"
    BY <1>5, <2>1
  <2>3. May(b) /\ b.do = "add_key"
    BY DEF May, AddKey
  <2>4. AddBoardsInFleet = Two(a, b)
    BY DEF AddBoardsInFleet
  <2>. HIDE DEF a, b, Two
  <2>. QED BY <1>3, <2>2, <2>3, <2>4
<1>7. ASSUME NEW t, MayTable(t) PROVE May(CreateTable(t)) /\ CreateTable(t).do = "create_table"
  BY <1>7 DEF May, CreateTable
<1>8. Sound(AddWebservices)
  <2>1. AddWebservices = Two(CreateTable(EnabledWebservicesTable), CreateTable(WebservicesTable))
    BY DEF AddWebservices
  <2>. HIDE DEF Two
  <2>. QED BY <1>3, <1>7, <2>1, WebserviceTablesMay
<1>9. Sound(BoardsLrData)
  <2>. DEFINE a == AddColumn("boards", Column("lr_version", Str(20)))
              b == AddColumn("boards", Column("connectivity", Json))
  <2>1. /\ [name |-> "lr_version", type |-> Str(20), null |-> TRUE] \in Board.fields
        /\ [name |-> "connectivity", type |-> Json, null |-> TRUE] \in Board.fields
    BY DEF Board, Table, Fields
  <2>2. May(a) /\ a.do = "add_column"
    BY <1>5, <2>1
  <2>3. May(b) /\ b.do = "add_column"
    BY <1>5, <2>1
  <2>4. BoardsLrData = Two(a, b)
    BY DEF BoardsLrData
  <2>. HIDE DEF a, b, Two
  <2>. QED BY <1>3, <2>2, <2>3, <2>4
<1>10. Sound(AddResultsRequests)
  <2>1. AddResultsRequests = Two(CreateTable(RequestsTable), CreateTable(ResultsTable))
    BY DEF AddResultsRequests
  <2>. HIDE DEF Two
  <2>. QED BY <1>3, <1>7, <2>1, RequestTablesMay
<1>11. Sound(ExtendedBoardCode)
  <2>. DEFINE op == AlterColumn("boards", [Column("code", Str(36)) EXCEPT !.null = FALSE])
  <2>1. May(op) /\ op.do = "alter_column"
    BY DEF May, AlterColumn
  <2>2. ExtendedBoardCode = One(op)
    BY DEF ExtendedBoardCode
  <2>. HIDE DEF op, One
  <2>. QED BY <1>2, <2>1, <2>2
<1>. QED BY <1>1, <1>4, <1>6, <1>8, <1>9, <1>10, <1>11, HardDeviceDeleteSound DEF Revisions

-----------------------------------------------------------------------------
(* The inductive invariant of the schema *)

HasColumn(c) == c[1] \in DOMAIN db /\ HasField(c[1], c[2])
OpColumns(op) ==
  IF op.do = "create_table" THEN {<<op.def.name, f.name>> : f \in op.def.fields}
  ELSE IF op.do = "add_column" THEN {<<op.table, op.field.name>>} ELSE {}

(* What a change leaves behind and nothing takes back. *)
HasNewUuid == "webservices" \in DOMAIN db /\ NewUuid \in db["webservices"].uniques
Made(op) ==
  /\ partial \/ \A c \in OpColumns(op) : HasColumn(c)
  /\ op = AddsUuid => HasNewUuid

UpgradeJobs ==
  [kind : {"upgrade"}, i : Nat \ {0}, target : DOMAIN Revisions, at : Nat]
CreateJobs ==
  [kind : {"create"}, todo : (SUBSET DOMAIN Models) \cup {NONE}]

SchemaTypeOK ==
  /\ \A t \in DOMAIN db :
       db[t] = [fields |-> db[t].fields, uniques |-> db[t].uniques, keys |-> db[t].keys]
  /\ rows \subseteq DOMAIN Revisions
  /\ job \in [Operators -> UpgradeJobs \cup CreateJobs \cup {NONE}]
  /\ partial \in BOOLEAN

(* Who upgrades has made what comes before: the revisions up to the one it  *)
(* is at, and the changes of the next one up to the one it is at.           *)
UpgradeMade(at, i) ==
  /\ partial \/ \A r \in 1 .. at : \A c \in Columns(r) : HasColumn(c)
  /\ \A k \in 1 .. i - 1 : k \in DOMAIN Revisions[at + 1] => Made(Revisions[at + 1][k])
(* Who creates the tables has made those that it no longer lists.           *)
CreateMade(todo) == \A m \in DOMAIN Models \ todo : Made(CreateTable(Models[m]))

JobIsBehind(o) ==
  /\ Running(o, "upgrade") => job[o].at < job[o].target /\ UpgradeMade(job[o].at, job[o].i)
  /\ Creating(o) => CreateMade(job[o].todo)

SchemaInv == SchemaTypeOK /\ VersionIsBehind /\ UuidIsUnique
             /\ \A o \in Operators : JobIsBehind(o)

-----------------------------------------------------------------------------
(* A change *)

(* The revisions are lists, and their columns are those of their changes.   *)
LEMMA RevisionFacts ==
  /\ DOMAIN Revisions = 1 .. 8 /\ HeadRevision = 8
  /\ \A v \in 1 .. 8 : /\ IsList(Revisions[v])
                       /\ DOMAIN Revisions[v] = 1 .. Len(Revisions[v]) /\ Len(Revisions[v]) \in Nat
                       /\ \A c : c \in Columns(v) <=>
                            \E i \in DOMAIN Revisions[v] : c \in OpColumns(Revisions[v][i])
<1>1. DOMAIN Revisions = 1 .. 8 /\ HeadRevision = 8
  BY DEF Revisions, HeadRevision
<1>2. ASSUME NEW v \in 1 .. 8
      PROVE  /\ IsList(Revisions[v])
             /\ DOMAIN Revisions[v] = 1 .. Len(Revisions[v]) /\ Len(Revisions[v]) \in Nat
  BY <1>1, RevisionsSound DEF Sound, IsList
<1>3. ASSUME NEW v \in 1 .. 8, NEW c
      PROVE  c \in Columns(v) <=> \E i \in DOMAIN Revisions[v] : c \in OpColumns(Revisions[v][i])
  BY DEF Columns, OpColumns
<1>. QED BY <1>1, <1>2, <1>3

(* A change of one table that takes no column of it. *)
LEMMA TableEffect ==
  ASSUME SchemaTypeOK, UuidIsUnique, NEW t \in DOMAIN db, DOMAIN db' = DOMAIN db,
         \A u \in DOMAIN db : u # t => db'[u] = db[u],
         NEW F, NEW Q, NEW K, db'[t] = [fields |-> F, uniques |-> Q, keys |-> K],
         \A n : HasName(db[t].fields, n) => HasName(F, n),
         HasName(F, "uuid") /\ t # "ports_on_boards" => HasName(db[t].fields, "uuid"),
         IsKept(db[t].uniques) => IsKept(Q),
         t = "webservices" /\ NewUuid \in db[t].uniques => NewUuid \in Q
  PROVE  /\ \A u \in DOMAIN db' :
              db'[u] = [fields |-> db'[u].fields, uniques |-> db'[u].uniques, keys |-> db'[u].keys]
         /\ \A c : HasColumn(c) => HasColumn(c)'
         /\ HasNewUuid => HasNewUuid'
         /\ UuidIsUnique'
<1>1. db'[t].fields = F /\ db'[t].uniques = Q /\ db'[t].keys = K
  OBVIOUS
<1>2. ASSUME NEW u \in DOMAIN db'
      PROVE  db'[u] = [fields |-> db'[u].fields, uniques |-> db'[u].uniques, keys |-> db'[u].keys]
  BY <1>1 DEF SchemaTypeOK
<1>3. ASSUME NEW c, HasColumn(c) PROVE HasColumn(c)'
  <2>1. c[1] \in DOMAIN db' /\ HasName(db[c[1]].fields, c[2])
    BY <1>3 DEF HasColumn, HasField, HasName
  <2>2. HasName(db'[c[1]].fields, c[2])
    BY <1>1, <2>1
  <2>. QED BY <2>1, <2>2 DEF HasColumn, HasField, HasName
<1>4. HasNewUuid => HasNewUuid'
  BY <1>1 DEF HasNewUuid
<1>5. UuidIsUnique'
  <2>. SUFFICES ASSUME NEW u \in DOMAIN db' \ {"ports_on_boards"}, HasName(db'[u].fields, "uuid")
                PROVE  IsKept(db'[u].uniques)
    BY DEF UuidIsUnique, HasField, HasName, IsKept
  <2>1. HasName(db[u].fields, "uuid")
    BY <1>1
  <2>2. IsKept(db[u].uniques)
    BY <2>1 DEF UuidIsUnique, HasField, HasName, IsKept
  <2>. QED BY <1>1, <2>2
<1>. QED BY <1>2, <1>3, <1>4, <1>5

(* Every change keeps the tables and the columns there are, and the new     *)
(* constraint; and it makes its own. Uuids stay unique, if one that drops   *)
(* the old constraint finds the new one.                                    *)
LEMMA ChangeEffect ==
  ASSUME SchemaTypeOK, UuidIsUnique, NEW op, May(op), CanApply(op), db' = Applied(op),
         op.do = "drop_unique" => HasNewUuid
  PROVE  /\ \A u \in DOMAIN db' :
              db'[u] = [fields |-> db'[u].fields, uniques |-> db'[u].uniques, keys |-> db'[u].keys]
         /\ \A c : HasColumn(c) => HasColumn(c)'
         /\ HasNewUuid => HasNewUuid'
         /\ UuidIsUnique'
         /\ \A c \in OpColumns(op) : HasColumn(c)'
         /\ op = AddsUuid => HasNewUuid'
<1>1. CASE op.do = "create_table"
  <2>. DEFINE t == op.def.name
              new == [fields |-> op.def.fields, uniques |-> op.def.uniques,
                      keys |-> {<<i, op.def.keys[i]>> : i \in DOMAIN op.def.keys}]
  <2>1. t \notin DOMAIN db /\ db' = [u \in DOMAIN db \cup {t} |-> IF u # t THEN db[u] ELSE new]
    BY <1>1 DEF CanApply, Applied
  <2>2. new.fields = op.def.fields /\ new.uniques = op.def.uniques
        /\ new = [fields |-> new.fields, uniques |-> new.uniques, keys |-> new.keys]
    OBVIOUS
  <2>3. MayTable(op.def)
    BY <1>1 DEF May
  <2>. HIDE DEF new
  <2>4. /\ DOMAIN db' = DOMAIN db \cup {t} /\ db'[t] = new
        /\ \A u \in DOMAIN db : db'[u] = db[u]
    BY <2>1
  <2>. HIDE DEF t
  <2>5. ASSUME NEW u \in DOMAIN db'
        PROVE  db'[u] = [fields |-> db'[u].fields, uniques |-> db'[u].uniques, keys |-> db'[u].keys]
    BY <2>2, <2>4 DEF SchemaTypeOK
  <2>6. ASSUME NEW c, HasColumn(c) PROVE HasColumn(c)'
    BY <2>4, <2>6 DEF HasColumn, HasField
  <2>7. HasNewUuid => HasNewUuid'
    BY <2>4 DEF HasNewUuid
  <2>8. UuidIsUnique'
    <3>. SUFFICES ASSUME NEW u \in DOMAIN db' \ {"ports_on_boards"}, HasName(db'[u].fields, "uuid")
                  PROVE  IsKept(db'[u].uniques)
      BY DEF UuidIsUnique, HasField, HasName, IsKept
    <3>1. CASE u = t
      BY <2>2, <2>3, <2>4, <3>1 DEF MayTable, HasName, t
    <3>2. CASE u # t
      BY <2>4, <3>2 DEF UuidIsUnique, HasField, HasName, IsKept
    <3>. QED BY <3>1, <3>2
  <2>9. ASSUME NEW c \in OpColumns(op) PROVE HasColumn(c)'
    <3>1. PICK f \in op.def.fields : c = <<t, f.name>>
      BY <1>1 DEF OpColumns, t
    <3>2. c[1] = t /\ c[2] = f.name
      BY <3>1
    <3>. QED BY <2>2, <2>4, <3>1, <3>2 DEF HasColumn, HasField
  <2>10. op # AddsUuid
    BY <1>1 DEF AddsUuid, AddUnique
  <2>. QED BY <2>5, <2>6, <2>7, <2>8, <2>9, <2>10
<1>2. CASE op.do # "create_table"
  <2>. DEFINE t == op.table
              d == db[op.table]
  <2>1. t \in DOMAIN db /\ d = [fields |-> d.fields, uniques |-> d.uniques, keys |-> d.keys]
    BY <1>2 DEF SchemaTypeOK, CanApply, May
  <2>2. op # AddsUuid \/ op.do = "add_unique"
    BY DEF AddsUuid, AddUnique
  <2>9. op.do # "add_column" => OpColumns(op) = {}
    BY <1>2 DEF OpColumns
  <2>3. CASE op.do = "add_column"
    <3>. DEFINE X == d.fields \cup {op.field}
    <3>1. db' = [db EXCEPT ![op.table].fields = @ \cup {op.field}]
      BY <2>3 DEF Applied
    <3>2. /\ DOMAIN db' = DOMAIN db /\ \A u \in DOMAIN db : u # t => db'[u] = db[u]
          /\ db'[t] = [d EXCEPT !.fields = X]
      BY <2>1, <3>1
    <3>. HIDE DEF X
    <3>3. db'[t] = [fields |-> X, uniques |-> d.uniques, keys |-> d.keys]
      BY <2>1, <3>2
    <3>4. \A n : HasName(d.fields, n) => HasName(X, n)
      BY DEF HasName, X
    <3>5. HasName(X, "uuid") => HasName(d.fields, "uuid")
      BY <2>3 DEF May, HasName, X
    <3>6. \A c \in OpColumns(op) : HasColumn(c)'
      <4>1. OpColumns(op) = {<<t, op.field.name>>}
        BY <2>3 DEF OpColumns
      <4>2. op.field \in db'[t].fields
        BY <3>3 DEF X
      <4>. HIDE DEF t
      <4>. QED BY <2>1, <3>2, <4>1, <4>2 DEF HasColumn, HasField
    <3>. QED BY <2>1, <2>2, <2>3, <3>2, <3>3, <3>4, <3>5, <3>6, TableEffect
  <2>4. CASE op.do = "alter_column"
    <3>. DEFINE X == (d.fields \ {Field(t, op.field.name)}) \cup {op.field}
    <3>1. db' = [db EXCEPT ![op.table].fields = (@ \ {Field(op.table, op.field.name)}) \cup {op.field}]
      BY <2>4 DEF Applied
    <3>2. /\ DOMAIN db' = DOMAIN db /\ \A u \in DOMAIN db : u # t => db'[u] = db[u]
          /\ db'[t] = [d EXCEPT !.fields = X]
      BY <2>1, <3>1
    <3>. HIDE DEF X
    <3>3. db'[t] = [fields |-> X, uniques |-> d.uniques, keys |-> d.keys]
      BY <2>1, <3>2
    <3>4. \E f \in d.fields : f.name = op.field.name
      BY <2>4 DEF CanApply, HasField
    <3>5. Field(t, op.field.name) \in d.fields /\ Field(t, op.field.name).name = op.field.name
      BY <3>4 DEF Field
    <3>6. \A n : HasName(d.fields, n) => HasName(X, n)
      BY <3>5 DEF HasName, X
    <3>7. HasName(X, "uuid") => HasName(d.fields, "uuid")
      BY <3>4 DEF HasName, X
    <3>. QED BY <2>1, <2>2, <2>4, <2>9, <3>2, <3>3, <3>6, <3>7, TableEffect
  <2>5. CASE op.do = "add_key"
    <3>. DEFINE X == d.keys \cup {<<NextNumber(d.keys), op.key>>}
    <3>1. db' = [db EXCEPT ![op.table].keys = @ \cup {<<NextNumber(@), op.key>>}]
      BY <2>5 DEF Applied
    <3>2. /\ DOMAIN db' = DOMAIN db /\ \A u \in DOMAIN db : u # t => db'[u] = db[u]
          /\ db'[t] = [d EXCEPT !.keys = X]
      BY <2>1, <3>1
    <3>. HIDE DEF X
    <3>3. db'[t] = [fields |-> d.fields, uniques |-> d.uniques, keys |-> X]
      BY <2>1, <3>2
    <3>. QED BY <2>1, <2>2, <2>5, <2>9, <3>2, <3>3, TableEffect
  <2>6. CASE op.do = "drop_key"
    <3>. DEFINE X == {k \in d.keys : k[1] # op.n}
    <3>1. db' = [db EXCEPT ![op.table].keys = {k \in @ : k[1] # op.n}]
      BY <2>6 DEF Applied
    <3>2. /\ DOMAIN db' = DOMAIN db /\ \A u \in DOMAIN db : u # t => db'[u] = db[u]
          /\ db'[t] = [d EXCEPT !.keys = X]
      BY <2>1, <3>1
    <3>. HIDE DEF X
    <3>3. db'[t] = [fields |-> d.fields, uniques |-> d.uniques, keys |-> X]
      BY <2>1, <3>2
    <3>. QED BY <2>1, <2>2, <2>6, <2>9, <3>2, <3>3, TableEffect
  <2>7. CASE op.do = "add_unique"
    <3>. DEFINE X == d.uniques \cup {op.unique}
    <3>1. db' = [db EXCEPT ![op.table].uniques = @ \cup {op.unique}]
      BY <2>7 DEF Applied
    <3>2. /\ DOMAIN db' = DOMAIN db /\ \A u \in DOMAIN db : u # t => db'[u] = db[u]
          /\ db'[t] = [d EXCEPT !.uniques = X]
      BY <2>1, <3>1
    <3>. HIDE DEF X
    <3>3. db'[t] = [fields |-> d.fields, uniques |-> X, keys |-> d.keys]
      BY <2>1, <3>2
    <3>4. (IsKept(d.uniques) => IsKept(X)) /\ (NewUuid \in d.uniques => NewUuid \in X)
      BY DEF IsKept, X
    <3>5. op = AddsUuid => HasNewUuid'
      <4>1. op = AddsUuid => t = "webservices" /\ op.unique = NewUuid
        BY DEF AddsUuid, AddUnique
      <4>. QED BY <2>1, <3>2, <3>3, <4>1 DEF HasNewUuid, X
    <3>. QED BY <2>1, <2>7, <2>9, <3>2, <3>3, <3>4, <3>5, TableEffect
  <2>8. CASE op.do = "drop_unique"
    <3>. DEFINE X == {u \in d.uniques : u.name # op.name}
    <3>1. db' = [db EXCEPT ![op.table].uniques = {u \in @ : u.name # op.name}]
      BY <2>8 DEF Applied
    <3>2. /\ DOMAIN db' = DOMAIN db /\ \A u \in DOMAIN db : u # t => db'[u] = db[u]
          /\ db'[t] = [d EXCEPT !.uniques = X]
      BY <2>1, <3>1
    <3>. HIDE DEF X
    <3>3. db'[t] = [fields |-> d.fields, uniques |-> X, keys |-> d.keys]
      BY <2>1, <3>2
    <3>4. t = "webservices" /\ NewUuid \in X
      BY <2>8 DEF May, HasNewUuid, NewUuid, OldUuid, X
    <3>5. IsKept(X)
      BY <3>4 DEF IsKept, NewUuid
    <3>. QED BY <2>1, <2>2, <2>8, <2>9, <3>2, <3>3, <3>4, <3>5, TableEffect
  <2>. QED BY <1>2, <2>3, <2>4, <2>5, <2>6, <2>7, <2>8 DEF May
<1>. QED BY <1>1, <1>2

-----------------------------------------------------------------------------
(* The commands *)

(* What a command knows of itself. *)
LEMMA JobFields ==
  ASSUME SchemaInv, NEW o \in Operators
  PROVE  /\ Running(o, "upgrade") =>
              /\ job[o] \in UpgradeJobs /\ job[o].at \in Nat /\ job[o].target \in 1 .. 8
              /\ job[o].at + 1 \in 1 .. 8 /\ job[o].at < job[o].target
              /\ job[o].i \in Nat \ {0}
         /\ Running(o, "create") =>
              job[o] \in CreateJobs /\ job[o].todo \in (SUBSET DOMAIN Models) \cup {NONE}
<1>1. job[o] \in UpgradeJobs \cup CreateJobs \cup {NONE}
  BY DEF SchemaInv, SchemaTypeOK
<1>2. CASE Running(o, "upgrade")
  <2>1. job[o] \in UpgradeJobs /\ job[o].at < job[o].target
    BY <1>1, <1>2 DEF Running, CreateJobs, SchemaInv, JobIsBehind
  <2>2. job[o].at \in Nat /\ job[o].target \in 1 .. 8 /\ job[o].i \in Nat \ {0}
    BY <2>1, RevisionFacts DEF UpgradeJobs
  <2>3. job[o].kind # "create"
    BY <2>1 DEF UpgradeJobs
  <2>. QED BY <2>1, <2>2, <2>3 DEF Running
<1>3. CASE Running(o, "create")
  BY <1>1, <1>3 DEF Running, CreateJobs, UpgradeJobs
<1>. QED BY <1>2, <1>3

(* What is made stays made. *)
LEMMA MadeStays ==
  ASSUME \A c : HasColumn(c) => HasColumn(c)', HasNewUuid => HasNewUuid', partial => partial'
  PROVE  /\ \A op : Made(op) => Made(op)'
         /\ \A at, i : UpgradeMade(at, i) => UpgradeMade(at, i)'
         /\ \A todo : CreateMade(todo) => CreateMade(todo)'
         /\ VersionIsBehind /\ rows' = rows => VersionIsBehind'
<1>1. \A op : Made(op) => Made(op)'
  BY DEF Made
<1>2. \A at, i : UpgradeMade(at, i) => UpgradeMade(at, i)'
  BY <1>1 DEF UpgradeMade
<1>3. \A todo : CreateMade(todo) => CreateMade(todo)'
  BY <1>1 DEF CreateMade
<1>4. VersionIsBehind /\ rows' = rows => VersionIsBehind'
  BY DEF VersionIsBehind, HasColumn
<1>. QED BY <1>1, <1>2, <1>3, <1>4

(* A command that ends, or a step that none takes. *)
LEMMA EndInv ==
  ASSUME SchemaInv, UNCHANGED <<db, rows, partial>>,
         job' \in [Operators -> UpgradeJobs \cup CreateJobs \cup {NONE}],
         \A o \in Operators : job'[o] = job[o] \/ job'[o] = NONE
  PROVE  SchemaInv'
<1>1. SchemaTypeOK' /\ VersionIsBehind' /\ UuidIsUnique'
  BY DEF SchemaInv, SchemaTypeOK, VersionIsBehind, UuidIsUnique, HasField
<1>2. \A o \in Operators : JobIsBehind(o)'
  BY DEF SchemaInv, JobIsBehind, Running, Creating, UpgradeMade, CreateMade, Made, HasColumn,
         HasNewUuid, HasField
<1>. QED BY <1>1, <1>2 DEF SchemaInv

(* A command that another one's step leaves alone. *)
LEMMA JobStays ==
  ASSUME SchemaInv, \A c : HasColumn(c) => HasColumn(c)', HasNewUuid => HasNewUuid',
         partial => partial',
         NEW p \in Operators, job'[p] = job[p]
  PROVE  JobIsBehind(p)'
<1>1. JobIsBehind(p)
  BY DEF SchemaInv
<1>2. /\ Running(p, "upgrade")' <=> Running(p, "upgrade")
      /\ Creating(p)' <=> Creating(p)
  BY DEF Running, Creating
<1>3. /\ UpgradeMade(job[p].at, job[p].i) => UpgradeMade(job[p].at, job[p].i)'
      /\ CreateMade(job[p].todo) => CreateMade(job[p].todo)'
  <2>1. \A at, i : UpgradeMade(at, i) => UpgradeMade(at, i)'
    BY MadeStays
  <2>2. \A todo : CreateMade(todo) => CreateMade(todo)'
    BY MadeStays
  <2>. QED BY <2>1, <2>2 DEF UpgradeMade, CreateMade
<1>. QED BY <1>1, <1>2, <1>3 DEF JobIsBehind

(* The first state. *)
LEMMA SchemaInit == InitDatabase => SchemaInv
<1>. SUFFICES ASSUME InitDatabase PROVE SchemaInv
  OBVIOUS
<1>1. DOMAIN db = {} /\ rows = {} /\ \A o \in Operators : job[o] = NONE
  BY DEF InitDatabase
<1>2. SchemaTypeOK
  BY <1>1 DEF InitDatabase, SchemaTypeOK
<1>. QED BY <1>1, <1>2 DEF SchemaInv, VersionIsBehind, JobIsBehind, UuidIsUnique, Running, Creating

(* An upgrade begins at the version it reads. *)
LEMMA UpgradeInv ==
  ASSUME SchemaInv, NEW o \in Operators, NEW target \in DOMAIN Revisions, Upgrade(o, target)
  PROVE  SchemaInv'
<1>1. PICK at : at = IF rows = {} THEN 0 ELSE CHOOSE v \in rows : TRUE
  OBVIOUS
<1>2. at \in Nat /\ at < target /\ (at # 0 => at \in rows)
  <2>1. \A v \in rows : v \in 1 .. 8 /\ target > v
    BY RevisionFacts DEF SchemaInv, SchemaTypeOK, Upgrade
  <2>2. CASE rows = {}
    BY <1>1, <2>2, RevisionFacts
  <2>3. CASE rows # {}
    <3>1. at \in rows
      BY <1>1, <2>3
    <3>. QED BY <2>1, <3>1, RevisionFacts
  <2>. QED BY <2>2, <2>3
<1>. DEFINE j == [kind |-> "upgrade", i |-> 1, target |-> target, at |-> at]
<1>0. UNCHANGED <<db, rows, partial>> /\ job' = [job EXCEPT ![o] = j]
  BY <1>1 DEF Upgrade, Begin
<1>3. j \in UpgradeJobs /\ j.at = at /\ j.target = target /\ j.i = 1 /\ j.kind = "upgrade"
  BY <1>2 DEF UpgradeJobs
<1>. HIDE DEF j
<1>4. SchemaTypeOK' /\ job'[o] = j /\ \A p \in Operators \ {o} : job'[p] = job[p]
  BY <1>0, <1>3 DEF SchemaInv, SchemaTypeOK
<1>5. VersionIsBehind' /\ UuidIsUnique'
  BY <1>0 DEF SchemaInv, VersionIsBehind, UuidIsUnique, HasField
<1>6. (\A c : HasColumn(c) => HasColumn(c)') /\ (HasNewUuid => HasNewUuid') /\ (partial => partial')
  BY <1>0 DEF HasColumn, HasField, HasNewUuid
<1>7. JobIsBehind(o)'
  <2>1. partial \/ \A r \in 1 .. at : \A c \in Columns(r) : HasColumn(c)
    BY <1>2 DEF SchemaInv, VersionIsBehind, HasColumn
  <2>2. UpgradeMade(at, 1)
    BY <2>1 DEF UpgradeMade
  <2>3. UpgradeMade(at, 1)'
    BY <1>6, <2>2, MadeStays
  <2>. QED BY <1>2, <1>3, <1>4, <2>3 DEF JobIsBehind, Running, Creating
<1>8. \A p \in Operators \ {o} : JobIsBehind(p)'
  BY <1>4, <1>6, JobStays
<1>. QED BY <1>4, <1>5, <1>7, <1>8 DEF SchemaInv

(* A change of an upgrade. *)
LEMMA ChangeKeeps ==
  ASSUME SchemaInv, NEW o \in Operators, ApplyChange(o)
  PROVE  SchemaInv'
<1>0. PICK a, i : a = job[o].at /\ i = job[o].i
  OBVIOUS
<1>. DEFINE s == Revisions[a + 1]
            op == s[i]
<1>1. /\ Running(o, "upgrade") /\ i <= Len(s) /\ CanApply(op) /\ db' = Applied(op)
      /\ job' = [job EXCEPT ![o].i = @ + 1] /\ UNCHANGED <<rows, partial>>
  BY <1>0 DEF ApplyChange, Applying, NextOp, GoingRevision, ghosts
<1>2. /\ job[o] \in UpgradeJobs /\ a + 1 \in 1 .. 8 /\ i \in Nat \ {0} /\ a < job[o].target
      /\ UpgradeMade(a, i)
  BY <1>0, <1>1, JobFields DEF SchemaInv, JobIsBehind
<1>3. Sound(s) /\ DOMAIN s = 1 .. Len(s) /\ Len(s) \in Nat
  BY <1>2, RevisionFacts, RevisionsSound
<1>4. i \in 1 .. Len(s)
  BY <1>1, <1>2, <1>3
<1>. HIDE DEF s
<1>5. May(op) /\ (op.do = "drop_unique" => HasNewUuid)
  <2>1. May(s[i]) /\ (s[i].do = "drop_unique" => i > 1 /\ s[i - 1] = AddsUuid)
    BY <1>3, <1>4 DEF Sound
  <2>2. ASSUME i > 1, s[i - 1] = AddsUuid PROVE HasNewUuid
    <3>1. i - 1 \in 1 .. i - 1 /\ i - 1 \in DOMAIN s
      BY <1>3, <1>4, <2>2
    <3>. QED BY <1>2, <2>2, <3>1 DEF UpgradeMade, Made, s
  <2>. QED BY <2>1, <2>2
<1>. HIDE DEF op
<1>6. /\ \A u \in DOMAIN db' :
           db'[u] = [fields |-> db'[u].fields, uniques |-> db'[u].uniques, keys |-> db'[u].keys]
      /\ \A c : HasColumn(c) => HasColumn(c)'
      /\ HasNewUuid => HasNewUuid'
      /\ UuidIsUnique'
      /\ \A c \in OpColumns(op) : HasColumn(c)'
      /\ op = AddsUuid => HasNewUuid'
  BY <1>1, <1>5, ChangeEffect DEF SchemaInv
<1>. DEFINE j == [job[o] EXCEPT !.i = @ + 1]
<1>7. j \in UpgradeJobs /\ j.at = a /\ j.i = i + 1 /\ j.target = job[o].target /\ j.kind = "upgrade"
  BY <1>0, <1>2 DEF UpgradeJobs
<1>. HIDE DEF j
<1>8. job' = [job EXCEPT ![o] = j]
  BY <1>1 DEF j
<1>9. SchemaTypeOK' /\ job'[o] = j /\ \A p \in Operators \ {o} : job'[p] = job[p]
  BY <1>1, <1>6, <1>7, <1>8 DEF SchemaInv, SchemaTypeOK
<1>10. VersionIsBehind'
  BY <1>1, <1>6, MadeStays DEF SchemaInv
<1>11. UpgradeMade(a, i + 1)'
  <2>1. UpgradeMade(a, i)'
    BY <1>1, <1>2, <1>6, MadeStays
  <2>2. Made(op)'
    BY <1>6 DEF Made
  <2>. QED BY <1>2, <1>3, <1>4, <2>1, <2>2 DEF UpgradeMade, op, s
<1>12. JobIsBehind(o)'
  BY <1>2, <1>7, <1>9, <1>11 DEF JobIsBehind, Running, Creating
<1>13. \A p \in Operators \ {o} : JobIsBehind(p)'
  BY <1>1, <1>6, <1>9, JobStays
<1>. QED BY <1>6, <1>9, <1>10, <1>12, <1>13 DEF SchemaInv

(* The update of the version: all changes of the revision are made. *)
LEMMA UpdateVersionKeeps ==
  ASSUME SchemaInv, NEW o \in Operators, UpdateVersion(o)
  PROVE  SchemaInv'
<1>0. PICK a, i, v : a = job[o].at /\ i = job[o].i /\ v = a + 1
  OBVIOUS
<1>. DEFINE s == Revisions[v]
            j == IF v = job[o].target THEN NONE ELSE [job[o] EXCEPT !.at = v, !.i = 1]
<1>1. /\ Running(o, "upgrade") /\ ~(i <= Len(s)) /\ rows' = (rows \ {a}) \cup {v}
      /\ UNCHANGED <<db, partial>>
  BY <1>0 DEF UpdateVersion, Applying, GoingRevision, ghosts
<1>2. /\ job[o] \in UpgradeJobs /\ v \in 1 .. 8 /\ a \in Nat /\ i \in Nat \ {0}
      /\ a < job[o].target /\ job[o].target \in 1 .. 8 /\ UpgradeMade(a, i)
  BY <1>0, <1>1, JobFields DEF SchemaInv, JobIsBehind
<1>3. job' = [job EXCEPT ![o] = j]
  BY <1>0 DEF UpdateVersion
<1>. DEFINE next == [job[o] EXCEPT !.at = v, !.i = 1]
<1>4. j = NONE \/ (j \in UpgradeJobs /\ j.at = v /\ j.i = 1 /\ j.target = job[o].target)
  <2>1. v \in Nat
    BY <1>0, <1>2
  <2>2. next \in UpgradeJobs /\ next.at = v /\ next.i = 1 /\ next.target = job[o].target
    <3>. DEFINE moved == [job[o] EXCEPT !.at = v]
    <3>1. moved \in UpgradeJobs /\ moved.at = v /\ moved.target = job[o].target
      BY <1>2, <2>1 DEF UpgradeJobs
    <3>2. next = [moved EXCEPT !.i = 1]
      OBVIOUS
    <3>. HIDE DEF moved, next
    <3>. QED BY <3>1, <3>2 DEF UpgradeJobs
  <2>3. j = NONE \/ j = next
    OBVIOUS
  <2>. HIDE DEF j, next
  <2>. QED BY <2>2, <2>3
<1>5. j = NONE \/ v < job[o].target
  BY <1>0, <1>2
<1>. HIDE DEF j
<1>6. rows' \subseteq DOMAIN Revisions
  BY <1>1, <1>2, RevisionFacts DEF SchemaInv, SchemaTypeOK
<1>7. SchemaTypeOK' /\ job'[o] = j /\ \A p \in Operators \ {o} : job'[p] = job[p]
  BY <1>1, <1>3, <1>4, <1>6 DEF SchemaInv, SchemaTypeOK
<1>8. /\ UuidIsUnique' /\ (\A c : HasColumn(c) => HasColumn(c)')
      /\ (HasNewUuid => HasNewUuid') /\ (partial => partial')
  BY <1>1 DEF SchemaInv, UuidIsUnique, HasField, HasColumn, HasNewUuid
<1>9. partial \/ \A c \in Columns(v) : HasColumn(c)
  <2>. SUFFICES ASSUME ~partial, NEW c \in Columns(v) PROVE HasColumn(c)
    OBVIOUS
  <2>1. DOMAIN s = 1 .. Len(s) /\ Len(s) \in Nat /\ \E k \in DOMAIN s : c \in OpColumns(s[k])
    BY <1>2, RevisionFacts
  <2>2. PICK k \in DOMAIN s : c \in OpColumns(s[k])
    BY <2>1
  <2>3. k \in 1 .. i - 1
    BY <1>1, <1>2, <2>1
  <2>4. Made(s[k])
    BY <1>0, <1>2, <2>3 DEF UpgradeMade
  <2>. QED BY <2>2, <2>4 DEF Made
<1>10. partial \/ \A r \in 1 .. v : \A c \in Columns(r) : HasColumn(c)
  <2>1. \A r \in 1 .. v : r = v \/ r \in 1 .. a
    BY <1>0, <1>2
  <2>. QED BY <1>2, <1>9, <2>1 DEF UpgradeMade
<1>11. VersionIsBehind'
  <2>1. VersionIsBehind
    BY DEF SchemaInv
  <2>2. \A u \in rows' : u = v \/ u \in rows
    BY <1>1
  <2>3. partial' \/ \A u \in rows' : \A r \in 1 .. u : \A c \in Columns(r) : HasColumn(c)
    BY <1>1, <1>10, <2>1, <2>2 DEF VersionIsBehind, HasColumn
  <2>. QED BY <1>8, <2>3 DEF VersionIsBehind, HasColumn
<1>12. JobIsBehind(o)'
  <2>1. CASE j = NONE
    BY <1>7, <2>1 DEF JobIsBehind, Running, Creating
  <2>2. CASE j # NONE
    <3>1. UpgradeMade(v, 1)
      BY <1>10 DEF UpgradeMade
    <3>2. UpgradeMade(v, 1)'
      BY <1>8, <3>1, MadeStays
    <3>. QED BY <1>4, <1>5, <1>7, <2>2, <3>2 DEF JobIsBehind, Running, Creating, UpgradeJobs
  <2>. QED BY <2>1, <2>2
<1>13. \A p \in Operators \ {o} : JobIsBehind(p)'
  BY <1>7, <1>8, JobStays
<1>. QED BY <1>7, <1>8, <1>11, <1>12, <1>13 DEF SchemaInv

(* A create_schema that starts has made nothing yet. *)
LEMMA CreateSchemaKeeps ==
  ASSUME SchemaInv, NEW o \in Operators, CreateSchema(o)
  PROVE  SchemaInv'
<1>. DEFINE j == [kind |-> "create", todo |-> NONE]
<1>1. UNCHANGED <<db, rows, partial>> /\ job' = [job EXCEPT ![o] = j]
  BY DEF CreateSchema, Begin
<1>2. j \in CreateJobs /\ j.kind # "upgrade" /\ j.todo = NONE
  BY DEF CreateJobs
<1>. HIDE DEF j
<1>3. SchemaTypeOK' /\ job'[o] = j /\ \A p \in Operators \ {o} : job'[p] = job[p]
  BY <1>1, <1>2 DEF SchemaInv, SchemaTypeOK
<1>4. VersionIsBehind' /\ UuidIsUnique'
  BY <1>1 DEF SchemaInv, VersionIsBehind, UuidIsUnique, HasField
<1>5. (\A c : HasColumn(c) => HasColumn(c)') /\ (HasNewUuid => HasNewUuid') /\ (partial => partial')
  BY <1>1 DEF HasColumn, HasField, HasNewUuid
<1>6. JobIsBehind(o)'
  BY <1>2, <1>3 DEF JobIsBehind, Running, Creating
<1>7. \A p \in Operators \ {o} : JobIsBehind(p)'
  BY <1>3, <1>5, JobStays
<1>. QED BY <1>3, <1>4, <1>6, <1>7 DEF SchemaInv

(* It lists all tables, unless it meets some. *)
LEMMA ListMissingKeeps ==
  ASSUME SchemaInv, NEW o \in Operators, ListMissing(o)
  PROVE  SchemaInv'
<1>0. PICK todo : todo = {m \in DOMAIN Models : Models[m].name \notin DOMAIN db}
  OBVIOUS
<1>. DEFINE j == [job[o] EXCEPT !.todo = todo]
<1>1. /\ Running(o, "create") /\ UNCHANGED <<db, rows>> /\ job' = [job EXCEPT ![o] = j]
      /\ partial' = (partial \/ DOMAIN db # {})
  BY <1>0 DEF ListMissing
<1>2. j \in CreateJobs /\ j.kind # "upgrade" /\ j.todo = todo
  BY <1>0, <1>1, JobFields DEF CreateJobs
<1>. HIDE DEF j
<1>3. SchemaTypeOK' /\ job'[o] = j /\ \A p \in Operators \ {o} : job'[p] = job[p]
  BY <1>1, <1>2 DEF SchemaInv, SchemaTypeOK
<1>4. (\A c : HasColumn(c) => HasColumn(c)') /\ (HasNewUuid => HasNewUuid') /\ (partial => partial')
  BY <1>1 DEF HasColumn, HasField, HasNewUuid
<1>5. VersionIsBehind' /\ UuidIsUnique'
  BY <1>1 DEF SchemaInv, VersionIsBehind, UuidIsUnique, HasField
<1>6. CreateMade(todo)'
  <2>. SUFFICES ASSUME NEW m \in DOMAIN Models \ todo
                PROVE  Made(CreateTable(Models[m]))'
    BY DEF CreateMade
  <2>1. partial'
    BY <1>0, <1>1
  <2>2. CreateTable(Models[m]) # AddsUuid
    BY DEF CreateTable, AddsUuid, AddUnique
  <2>. QED BY <2>1, <2>2 DEF Made
<1>7. JobIsBehind(o)'
  BY <1>2, <1>3, <1>6 DEF JobIsBehind, Running, Creating
<1>8. \A p \in Operators \ {o} : JobIsBehind(p)'
  BY <1>3, <1>4, JobStays
<1>. QED BY <1>3, <1>5, <1>7, <1>8 DEF SchemaInv

(* The first of a list is the least.                                        *)
LEMMA FirstIsLeast ==
  ASSUME NEW todo \in SUBSET DOMAIN Models, todo # {}
  PROVE  First(todo) \in todo /\ \A j \in todo : First(todo) <= j
<1>. DEFINE less == OpToRel(<, Nat)
<1>1. todo \in SUBSET Nat
  BY ModelPlaces
<1>2. \A m, n \in Nat : m < n => <<m, n>> \in less
  BY DEF OpToRel
<1>3. IsWellFoundedOn(less, Nat)
  BY NatLessThanWellFounded
<1>. HIDE DEF less
<1>4. PICK i \in todo : \A j \in todo : <<j, i>> \notin less
  BY <1>1, <1>3, WFMin
<1>5. ASSUME NEW j \in todo PROVE i <= j
  <2>1. ~(j < i)
    BY <1>1, <1>2, <1>4, Zenon
  <2>. QED BY <1>1, <2>1
<1>. QED BY <1>5 DEF First

(* A table of a create_schema. *)
LEMMA CreateModelKeeps ==
  ASSUME SchemaInv, NEW o \in Operators, CreateModel(o)
  PROVE  SchemaInv'
<1>0. PICK todo, m, op : todo = job[o].todo /\ m = First(todo) /\ op = CreateTable(Models[m])
  OBVIOUS
<1>. DEFINE j == [job[o] EXCEPT !.todo = todo \ {m}]
<1>1. /\ Running(o, "create") /\ todo # NONE /\ todo # {} /\ CanApply(op) /\ db' = Applied(op)
      /\ job' = [job EXCEPT ![o] = j] /\ UNCHANGED <<rows, partial>>
  BY <1>0 DEF CreateModel, Creating, NextModel, ghosts
<1>2. job[o] \in CreateJobs /\ todo \in SUBSET DOMAIN Models /\ CreateMade(todo)
  <2>1. job[o] \in CreateJobs /\ todo \in SUBSET DOMAIN Models
    BY <1>0, <1>1, JobFields
  <2>2. Creating(o) => CreateMade(job[o].todo)
    BY DEF SchemaInv, JobIsBehind
  <2>. QED BY <1>0, <1>1, <2>1, <2>2 DEF Creating
<1>3. m \in todo
  BY <1>0, <1>1, <1>2, FirstIsLeast
<1>4. May(op) /\ op.do = "create_table"
  BY <1>0, <1>2, <1>3, ModelTables DEF May, CreateTable
<1>5. /\ \A u \in DOMAIN db' :
           db'[u] = [fields |-> db'[u].fields, uniques |-> db'[u].uniques, keys |-> db'[u].keys]
      /\ \A c : HasColumn(c) => HasColumn(c)'
      /\ HasNewUuid => HasNewUuid'
      /\ UuidIsUnique'
      /\ \A c \in OpColumns(op) : HasColumn(c)'
      /\ op = AddsUuid => HasNewUuid'
  BY <1>1, <1>4, ChangeEffect DEF SchemaInv
<1>6. j \in CreateJobs /\ j.kind # "upgrade" /\ j.todo = todo \ {m}
  BY <1>2 DEF CreateJobs
<1>. HIDE DEF j
<1>7. SchemaTypeOK' /\ job'[o] = j /\ \A p \in Operators \ {o} : job'[p] = job[p]
  BY <1>1, <1>5, <1>6 DEF SchemaInv, SchemaTypeOK
<1>8. VersionIsBehind'
  BY <1>1, <1>5, MadeStays DEF SchemaInv
<1>9. CreateMade(todo \ {m})'
  <2>1. Made(op)'
    BY <1>5 DEF Made
  <2>2. CreateMade(todo)'
    BY <1>1, <1>2, <1>5, MadeStays
  <2>. QED BY <1>0, <2>1, <2>2 DEF CreateMade
<1>10. JobIsBehind(o)'
  BY <1>6, <1>7, <1>9 DEF JobIsBehind, Running, Creating
<1>11. \A p \in Operators \ {o} : JobIsBehind(p)'
  BY <1>1, <1>5, <1>7, JobStays
<1>. QED BY <1>5, <1>7, <1>8, <1>10, <1>11 DEF SchemaInv

(* What a revision asks for, the models have: every column of a revision is *)
(* one of the tables that create_schema makes.                             *)
LEMMA RevisionsAreModelled ==
  ASSUME NEW r \in 1 .. 8, NEW c \in Columns(r)
  PROVE  \E m \in DOMAIN Models : c \in OpColumns(CreateTable(Models[m]))
<1>1. PICK i \in DOMAIN Revisions[r] : c \in OpColumns(Revisions[r][i])
  BY RevisionFacts
<1>2. PICK op : op = Revisions[r][i]
  OBVIOUS
<1>3. May(op)
  BY <1>1, <1>2, RevisionFacts, RevisionsSound DEF Sound
<1>4. \E tab, n : c = <<tab, n>> /\ IsModelled(tab, n)
  <2>1. CASE op.do = "create_table"
    <3>1. PICK f \in op.def.fields : c = <<op.def.name, f.name>>
      BY <1>1, <1>2, <2>1 DEF OpColumns
    <3>2. IsModelled(op.def.name, f.name)
      BY <1>3, <2>1 DEF May, MayTable
    <3>. QED BY <3>1, <3>2
  <2>2. CASE op.do = "add_column"
    <3>1. c = <<op.table, op.field.name>>
      BY <1>1, <1>2, <2>2 DEF OpColumns
    <3>2. IsModelled(op.table, op.field.name)
      BY <1>3, <2>2 DEF May
    <3>. QED BY <3>1, <3>2
  <2>. QED BY <1>1, <1>2, <2>1, <2>2 DEF OpColumns
<1>5. PICK tab, n : c = <<tab, n>> /\ IsModelled(tab, n)
  BY <1>4
<1>6. PICK m \in DOMAIN Models : Models[m].name = tab /\ HasName(Models[m].fields, n)
  BY <1>5 DEF IsModelled
<1>. QED BY <1>5, <1>6 DEF HasName, OpColumns, CreateTable

(* The stamp: every table of the models is made. *)
LEMMA StampKeeps ==
  ASSUME SchemaInv, NEW o \in Operators, Stamp(o)
  PROVE  SchemaInv'
<1>1. /\ Creating(o) /\ job[o].todo = {} /\ rows' = {8} /\ UNCHANGED <<db, partial>>
      /\ job' = [job EXCEPT ![o] = NONE]
  BY RevisionFacts DEF Stamp, Done, ghosts
<1>2. CreateMade({})
  BY <1>1 DEF SchemaInv, JobIsBehind
<1>3. SchemaTypeOK' /\ \A p \in Operators : job'[p] = job[p] \/ job'[p] = NONE
  BY <1>1, RevisionFacts DEF SchemaInv, SchemaTypeOK
<1>4. /\ UuidIsUnique' /\ (\A c : HasColumn(c) => HasColumn(c)')
      /\ (HasNewUuid => HasNewUuid') /\ (partial => partial')
  BY <1>1 DEF SchemaInv, UuidIsUnique, HasField, HasColumn, HasNewUuid
<1>5. ASSUME ~partial, NEW r \in 1 .. 8, NEW c \in Columns(r) PROVE HasColumn(c)
  <2>1. PICK m \in DOMAIN Models : c \in OpColumns(CreateTable(Models[m]))
    BY RevisionsAreModelled
  <2>. QED BY <1>2, <1>5, <2>1 DEF CreateMade, Made
<1>6. VersionIsBehind'
  <2>1. partial' \/ \A v \in rows' : \A r \in 1 .. v : \A c \in Columns(r) : HasColumn(c)
    BY <1>1, <1>5
  <2>. QED BY <1>4, <2>1 DEF VersionIsBehind, HasColumn
<1>7. \A p \in Operators : JobIsBehind(p)'
  <2>. SUFFICES ASSUME NEW p \in Operators PROVE JobIsBehind(p)'
    OBVIOUS
  <2>1. CASE job'[p] = job[p]
    BY <1>4, <2>1, JobStays
  <2>2. CASE job'[p] = NONE
    BY <2>2 DEF JobIsBehind, Running, Creating
  <2>. QED BY <1>3, <2>1, <2>2
<1>. QED BY <1>3, <1>4, <1>6, <1>7 DEF SchemaInv

(* Every step keeps the invariant. *)
LEMMA SchemaStep == SchemaInv /\ [SchemaNext]_schemaVars => SchemaInv'
<1>. SUFFICES ASSUME SchemaInv, [SchemaNext]_schemaVars PROVE SchemaInv'
  OBVIOUS
<1>1. ASSUME NEW o \in Operators, Raise(o) \/ CutOff(o) PROVE SchemaInv'
  <2>1. UNCHANGED <<db, rows, partial>> /\ job' = [job EXCEPT ![o] = NONE]
    BY <1>1 DEF Raise, CutOff, Done, ghosts
  <2>2. /\ job' \in [Operators -> UpgradeJobs \cup CreateJobs \cup {NONE}]
        /\ \A p \in Operators : job'[p] = job[p] \/ job'[p] = NONE
    BY <2>1 DEF SchemaInv, SchemaTypeOK
  <2>. QED BY <2>1, <2>2, EndInv
<1>2. CASE UNCHANGED schemaVars
  <2>1. UNCHANGED <<db, rows, partial, job>>
    BY <1>2 DEF schemaVars, ghosts
  <2>2. job' \in [Operators -> UpgradeJobs \cup CreateJobs \cup {NONE}]
    BY <2>1 DEF SchemaInv, SchemaTypeOK
  <2>. QED BY <2>1, <2>2, EndInv
<1>. QED BY <1>1, <1>2, UpgradeInv, ChangeKeeps, UpdateVersionKeeps, CreateSchemaKeeps,
            ListMissingKeeps, CreateModelKeeps, StampKeeps DEF SchemaNext

(* The inductive invariant of the schema. *)
THEOREM SchemaInductive == SchemaSpec => []SchemaInv
BY SchemaInit, SchemaStep, PTL DEF SchemaSpec

(* The version never runs ahead of the schema, whatever number of operators *)
(* run upgrade and create_schema at once, and whatever is cut off or raises.*)
THEOREM VersionNeverAhead == SchemaSpec => []VersionIsBehind
<1>1. SchemaInv => VersionIsBehind
  BY DEF SchemaInv
<1>. QED BY <1>1, SchemaInductive, PTL

(* At no moment between two changes does a table lack the constraint that   *)
(* keeps its uuids apart.                                                  *)
THEOREM UuidStaysUnique == SchemaSpec => []UuidIsUnique
<1>1. SchemaInv => UuidIsUnique
  BY DEF SchemaInv
<1>. QED BY <1>1, SchemaInductive, PTL

-----------------------------------------------------------------------------
(* What one change makes of one table *)

TableAs(F, Q, K) == [fields |-> F, uniques |-> Q, keys |-> K]
Is(t, as) == t \in DOMAIN db /\ db[t] = as
(* Only the table t changes. *)
Becomes(t, as) ==
  /\ DOMAIN db' = DOMAIN db \cup {t} /\ db'[t] = as
  /\ \A u \in DOMAIN db \ {t} : db'[u] = db[u]
Makes(op, t, as) == CanApply(op) /\ (db' = Applied(op) => Becomes(t, as))

NumberedKeys(keys) == {<<i, keys[i]>> : i \in DOMAIN keys}
Fresh(t)       == TableAs(t.fields, t.uniques, NumberedKeys(t.keys))

(* A table that was not there, whose keys refer to tables that are.        *)
LEMMA CreateMakes ==
  ASSUME NEW def, def.name \notin DOMAIN db,
         \A i \in DOMAIN def.keys : def.keys[i].ref[1] \in DOMAIN db \cup {def.name}
  PROVE  Makes(CreateTable(def), def.name, Fresh(def))
<1>. DEFINE op == CreateTable(def)
<1>1. op.do = "create_table" /\ op.def = def
  BY DEF CreateTable
<1>. HIDE DEF op
<1>2. CanApply(op)
  BY <1>1 DEF CanApply
<1>3. Applied(op) =
        [t \in DOMAIN db \cup {def.name} |-> IF t # def.name THEN db[t] ELSE Fresh(def)]
  BY <1>1 DEF Applied, Fresh, TableAs, NumberedKeys
<1>. QED BY <1>2, <1>3 DEF Makes, Becomes, op

(* A column of another name.                                               *)
LEMMA AddColumnMakes ==
  ASSUME NEW t, NEW F, NEW Q, NEW K, Is(t, TableAs(F, Q, K)), NEW f, ~HasName(F, f.name)
  PROVE  Makes(AddColumn(t, f), t, TableAs(F \cup {f}, Q, K))
<1>. DEFINE op == AddColumn(t, f)
<1>1. op.do = "add_column" /\ op.table = t /\ op.field = f
  BY DEF AddColumn
<1>. HIDE DEF op
<1>2. CanApply(op)
  BY <1>1 DEF CanApply, Is, TableAs, HasField, HasName
<1>3. Applied(op) = [db EXCEPT ![op.table].fields = @ \cup {op.field}]
  BY <1>1 DEF Applied
<1>. DEFINE X == F \cup {f}
<1>4. Applied(op) = [db EXCEPT ![t].fields = X]
  BY <1>1, <1>3 DEF Is, TableAs
<1>. HIDE DEF X
<1>5. /\ DOMAIN Applied(op) = DOMAIN db /\ Applied(op)[t] = [db[t] EXCEPT !.fields = X]
      /\ \A u \in DOMAIN db \ {t} : Applied(op)[u] = db[u]
  BY <1>4 DEF Is
<1>6. [db[t] EXCEPT !.fields = X] = TableAs(X, Q, K)
  BY DEF Is, TableAs
<1>. QED BY <1>2, <1>5, <1>6 DEF Makes, Becomes, Is, op, X

(* The one column of that name becomes another.                            *)
LEMMA AlterMakes ==
  ASSUME NEW t, NEW F, NEW Q, NEW K, Is(t, TableAs(F, Q, K)), NEW f,
         NEW g \in F, g.name = f.name, \A e \in F : e.name = f.name => e = g
  PROVE  Makes(AlterColumn(t, f), t, TableAs((F \ {g}) \cup {f}, Q, K))
<1>. DEFINE op == AlterColumn(t, f)
<1>1. op.do = "alter_column" /\ op.table = t /\ op.field = f
  BY DEF AlterColumn
<1>. HIDE DEF op
<1>2. CanApply(op)
  BY <1>1 DEF CanApply, Is, TableAs, HasField
<1>3. Field(t, f.name) = g
  BY DEF Field, Is, TableAs
<1>4. Applied(op) =
        [db EXCEPT ![op.table].fields = (@ \ {Field(op.table, op.field.name)}) \cup {op.field}]
  BY <1>1 DEF Applied
<1>. DEFINE X == (F \ {g}) \cup {f}
<1>5. Applied(op) = [db EXCEPT ![t].fields = X]
  BY <1>1, <1>4, <1>3 DEF Is, TableAs
<1>. HIDE DEF X
<1>6. /\ DOMAIN Applied(op) = DOMAIN db /\ Applied(op)[t] = [db[t] EXCEPT !.fields = X]
      /\ \A u \in DOMAIN db \ {t} : Applied(op)[u] = db[u]
  BY <1>5 DEF Is
<1>7. [db[t] EXCEPT !.fields = X] = TableAs(X, Q, K)
  BY DEF Is, TableAs
<1>. QED BY <1>2, <1>6, <1>7 DEF Makes, Becomes, Is, op, X

(* A key gets the next number.                                             *)
LEMMA AddKeyMakes ==
  ASSUME NEW t, NEW F, NEW Q, NEW K, Is(t, TableAs(F, Q, K)), NEW key, key.ref[1] \in DOMAIN db
  PROVE  Makes(AddKey(t, key), t, TableAs(F, Q, K \cup {<<NextNumber(K), key>>}))
<1>. DEFINE op == AddKey(t, key)
            k == <<NextNumber(K), key>>
<1>1. op.do = "add_key" /\ op.table = t /\ op.key = key
  BY DEF AddKey
<1>. HIDE DEF op
<1>2. CanApply(op)
  BY <1>1 DEF CanApply, Is
<1>3. db[t].keys = K
  BY DEF Is, TableAs
<1>4. Applied(op) = [db EXCEPT ![op.table].keys = @ \cup {<<NextNumber(@), op.key>>}]
  BY <1>1 DEF Applied
<1>. DEFINE X == K \cup {<<NextNumber(K), key>>}
<1>5. Applied(op) = [db EXCEPT ![t].keys = X]
  BY <1>1, <1>4, <1>3 DEF Is, TableAs
<1>. HIDE DEF X
<1>6. /\ DOMAIN Applied(op) = DOMAIN db /\ Applied(op)[t] = [db[t] EXCEPT !.keys = X]
      /\ \A u \in DOMAIN db \ {t} : Applied(op)[u] = db[u]
  BY <1>5 DEF Is
<1>7. [db[t] EXCEPT !.keys = X] = TableAs(F, Q, X)
  BY DEF Is, TableAs
<1>. QED BY <1>2, <1>6, <1>7 DEF Makes, Becomes, Is, op, X

(* The one key of that number goes.                                        *)
LEMMA DropKeyMakes ==
  ASSUME NEW t, NEW F, NEW Q, NEW K, Is(t, TableAs(F, Q, K)), NEW n, NEW k \in K, k[1] = n,
         \A l \in K : l[1] = n => l = k
  PROVE  Makes(DropKey(t, n), t, TableAs(F, Q, K \ {k}))
<1>. DEFINE op == DropKey(t, n)
<1>1. op.do = "drop_key" /\ op.table = t /\ op.n = n
  BY DEF DropKey
<1>. HIDE DEF op
<1>2. CanApply(op)
  BY <1>1 DEF CanApply, Is, TableAs
<1>3. {l \in K : l[1] # n} = K \ {k}
  OBVIOUS
<1>4. Applied(op) = [db EXCEPT ![op.table].keys = {l \in @ : l[1] # op.n}]
  BY <1>1 DEF Applied
<1>. DEFINE X == {l \in K : l[1] # n}
<1>5. Applied(op) = [db EXCEPT ![t].keys = X]
  BY <1>1, <1>4 DEF Is, TableAs
<1>. HIDE DEF X
<1>6. /\ DOMAIN Applied(op) = DOMAIN db /\ Applied(op)[t] = [db[t] EXCEPT !.keys = X]
      /\ \A u \in DOMAIN db \ {t} : Applied(op)[u] = db[u]
  BY <1>5 DEF Is
<1>7. [db[t] EXCEPT !.keys = X] = TableAs(F, Q, X)
  BY DEF Is, TableAs
<1>. QED BY <1>2, <1>3, <1>6, <1>7 DEF Makes, Becomes, Is, op, X

(* A constraint of another name.                                           *)
LEMMA AddUniqueMakes ==
  ASSUME NEW t, NEW F, NEW Q, NEW K, Is(t, TableAs(F, Q, K)), NEW u, \A q \in Q : q.name # u.name
  PROVE  Makes(AddUnique(t, u), t, TableAs(F, Q \cup {u}, K))
<1>. DEFINE op == AddUnique(t, u)
<1>1. op.do = "add_unique" /\ op.table = t /\ op.unique = u
  BY DEF AddUnique
<1>. HIDE DEF op
<1>2. CanApply(op)
  BY <1>1 DEF CanApply, Is, TableAs
<1>3. Applied(op) = [db EXCEPT ![op.table].uniques = @ \cup {op.unique}]
  BY <1>1 DEF Applied
<1>. DEFINE X == Q \cup {u}
<1>4. Applied(op) = [db EXCEPT ![t].uniques = X]
  BY <1>1, <1>3 DEF Is, TableAs
<1>. HIDE DEF X
<1>5. /\ DOMAIN Applied(op) = DOMAIN db /\ Applied(op)[t] = [db[t] EXCEPT !.uniques = X]
      /\ \A v \in DOMAIN db \ {t} : Applied(op)[v] = db[v]
  BY <1>4 DEF Is
<1>6. [db[t] EXCEPT !.uniques = X] = TableAs(F, X, K)
  BY DEF Is, TableAs
<1>. QED BY <1>2, <1>5, <1>6 DEF Makes, Becomes, Is, op, X

(* The one constraint of that name goes.                                   *)
LEMMA DropUniqueMakes ==
  ASSUME NEW t, NEW F, NEW Q, NEW K, Is(t, TableAs(F, Q, K)), NEW n, NEW u \in Q, u.name = n,
         \A q \in Q : q.name = n => q = u
  PROVE  Makes(DropUnique(t, n), t, TableAs(F, Q \ {u}, K))
<1>. DEFINE op == DropUnique(t, n)
<1>1. op.do = "drop_unique" /\ op.table = t /\ op.name = n
  BY DEF DropUnique
<1>. HIDE DEF op
<1>2. CanApply(op)
  BY <1>1 DEF CanApply, Is, TableAs
<1>3. {q \in Q : q.name # n} = Q \ {u}
  OBVIOUS
<1>4. Applied(op) = [db EXCEPT ![op.table].uniques = {q \in @ : q.name # op.name}]
  BY <1>1 DEF Applied
<1>. DEFINE X == {q \in Q : q.name # n}
<1>5. Applied(op) = [db EXCEPT ![t].uniques = X]
  BY <1>1, <1>4 DEF Is, TableAs
<1>. HIDE DEF X
<1>6. /\ DOMAIN Applied(op) = DOMAIN db /\ Applied(op)[t] = [db[t] EXCEPT !.uniques = X]
      /\ \A v \in DOMAIN db \ {t} : Applied(op)[v] = db[v]
  BY <1>5 DEF Is
<1>7. [db[t] EXCEPT !.uniques = X] = TableAs(F, X, K)
  BY DEF Is, TableAs
<1>. QED BY <1>2, <1>3, <1>6, <1>7 DEF Makes, Becomes, Is, op, X

(* The number that a key without a name gets. *)
LEMMA Numbers ==
  /\ NextNumber({}) = 1
  /\ \A key : NextNumber({<<2, key>>}) = 3
<1>1. NextNumber({}) = 1
  <2>1. Cardinality({}) = 0
    BY FS_EmptySet
  <2>2. \A n \in 1 .. 2 : n = 1 <=> n = 1 \/ \E k \in {} : k[1] = n - 1
    OBVIOUS
  <2>. QED BY <2>1, <2>2 DEF NextNumber
<1>2. ASSUME NEW key PROVE NextNumber({<<2, key>>}) = 3
  <2>. DEFINE K == {<<2, key>>}
  <2>1. Cardinality(K) = 1
    BY FS_Singleton
  <2>2. \A n \in 1 .. 3 : n = 3 <=> (\A k \in K : k[1] < n)
          /\ (n = 1 \/ \E k \in K : k[1] = n - 1)
    OBVIOUS
  <2>. HIDE DEF K
  <2>3. 3 \in 1 .. 3 /\ 1 + 2 = 3
    OBVIOUS
  <2>4. NextNumber(K) = 3
    BY <2>1, <2>2, <2>3 DEF NextNumber
  <2>. QED BY <2>4 DEF K
<1>. QED BY <1>1, <1>2

-----------------------------------------------------------------------------
(* The changes of the revisions, one after the other *)

MadeNull(t, name, type) == AlterColumn(t, Column(name, type))
Remade(t, col) == AddKey(t, ToBoard(col, TRUE))
(* HardDeviceDelete, change by change. *)
Deletion(k) ==
  CASE k = 1  -> DropKey("enabled_webservices", 1)
    [] k = 2  -> Remade("enabled_webservices", "board_uuid")
    [] k = 3  -> DropKey("exposed_services", 1)
    [] k = 4  -> Remade("exposed_services", "board_uuid")
    [] k = 5  -> DropKey("injection_plugins", 1)
    [] k = 6  -> Remade("injection_plugins", "board_uuid")
    [] k = 7  -> DropKey("locations", 1)
    [] k = 8  -> Remade("locations", "board_id")
    [] k = 9  -> DropKey("ports_on_boards", 1)
    [] k = 10 -> Remade("ports_on_boards", "board_uuid")
    [] k = 11 -> MadeNull("requests", "action", Str(20))
    [] k = 12 -> MadeNull("requests", "destination_uuid", Str(36))
    [] k = 13 -> MadeNull("requests", "pending_requests", Integer)
    [] k = 14 -> MadeNull("requests", "status", Str(10))
    [] k = 15 -> MadeNull("requests", "type", Integer)
    [] k = 16 -> MadeNull("requests", "uuid", Str(36))
    [] k = 17 -> MadeNull("results", "board_uuid", Str(36))
    [] k = 18 -> MadeNull("results", "request_uuid", Str(36))
    [] k = 19 -> MadeNull("results", "result", Str(10))
    [] k = 20 -> DropKey("results", 1)
    [] k = 21 -> DropKey("results", 2)
    [] k = 22 -> DropKey("sessions", 1)
    [] k = 23 -> Remade("sessions", "board_id")
    [] k = 24 -> AddsUuid
    [] k = 25 -> DropUnique("webservices", OldUuid)
    [] k = 26 -> DropKey("webservices", 1)
    [] k = 27 -> Remade("webservices", "board_uuid")

(* HardDeviceDelete, change by change, unfolded once.                      *)
LEMMA DeletionIs ==
  /\ Deletion(1) = DropKey("enabled_webservices", 1)
  /\ Deletion(2) = Remade("enabled_webservices", "board_uuid")
  /\ Deletion(3) = DropKey("exposed_services", 1)
  /\ Deletion(4) = Remade("exposed_services", "board_uuid")
  /\ Deletion(5) = DropKey("injection_plugins", 1)
  /\ Deletion(6) = Remade("injection_plugins", "board_uuid")
  /\ Deletion(7) = DropKey("locations", 1)
  /\ Deletion(8) = Remade("locations", "board_id")
  /\ Deletion(9) = DropKey("ports_on_boards", 1)
  /\ Deletion(10) = Remade("ports_on_boards", "board_uuid")
  /\ Deletion(11) = MadeNull("requests", "action", Str(20))
  /\ Deletion(12) = MadeNull("requests", "destination_uuid", Str(36))
  /\ Deletion(13) = MadeNull("requests", "pending_requests", Integer)
  /\ Deletion(14) = MadeNull("requests", "status", Str(10))
  /\ Deletion(15) = MadeNull("requests", "type", Integer)
  /\ Deletion(16) = MadeNull("requests", "uuid", Str(36))
  /\ Deletion(17) = MadeNull("results", "board_uuid", Str(36))
  /\ Deletion(18) = MadeNull("results", "request_uuid", Str(36))
  /\ Deletion(19) = MadeNull("results", "result", Str(10))
  /\ Deletion(20) = DropKey("results", 1)
  /\ Deletion(21) = DropKey("results", 2)
  /\ Deletion(22) = DropKey("sessions", 1)
  /\ Deletion(23) = Remade("sessions", "board_id")
  /\ Deletion(24) = AddsUuid
  /\ Deletion(25) = DropUnique("webservices", OldUuid)
  /\ Deletion(26) = DropKey("webservices", 1)
  /\ Deletion(27) = Remade("webservices", "board_uuid")
BY DEF Deletion

(* s is the changes of HardDeviceDelete from the one after a to b. *)
Part(s, a, b) ==
  /\ IsList(s) /\ Len(s) = b - a
  /\ \A k \in 1 .. b - a : s[k] = Deletion(a + k)

(* Two lists that follow each other. *)
LEMMA PartsJoin ==
  ASSUME NEW a \in Nat, NEW b \in Nat, NEW c \in Nat, a <= b, b <= c,
         NEW s, NEW t, Part(s, a, b), Part(t, b, c)
  PROVE  Part(s \o t, a, c)
<1>1. PICK S : s \in Seq(S)
  BY DEF Part, IsList
<1>2. PICK T : t \in Seq(T)
  BY DEF Part, IsList
<1>. DEFINE U == S \cup T
            st == s \o t
<1>3. s \in Seq(U) /\ t \in Seq(U)
  BY <1>1, <1>2
<1>. HIDE DEF U
<1>4. /\ st \in Seq(U) /\ Len(st) = Len(s) + Len(t)
      /\ \A i \in 1 .. Len(s) : st[i] = s[i]
      /\ \A i \in 1 .. Len(t) : st[Len(s) + i] = t[i]
  <2>1. st \in Seq(U) /\ Len(st) = Len(s) + Len(t)
    BY <1>3
  <2>2. \A i \in 1 .. Len(s) : st[i] = s[i]
    BY <1>3
  <2>3. \A i \in 1 .. Len(t) : st[Len(s) + i] = t[i]
    BY <1>3
  <2>. QED BY <2>1, <2>2, <2>3
<1>. HIDE DEF st
<1>5. Len(st) = c - a
  BY <1>4 DEF Part
<1>6. ASSUME NEW k \in 1 .. c - a PROVE st[k] = Deletion(a + k)
  <2>1. CASE k <= b - a
    BY <1>4, <2>1 DEF Part
  <2>2. CASE k > b - a
    <3>1. k - (b - a) \in 1 .. c - b /\ k = Len(s) + (k - (b - a)) /\ b + (k - (b - a)) = a + k
      BY <2>2 DEF Part
    <3>2. st[Len(s) + (k - (b - a))] = Deletion(b + (k - (b - a)))
      BY <1>4, <3>1 DEF Part
    <3>. QED BY <3>1, <3>2
  <2>. QED BY <2>1, <2>2
<1>7. IsList(st)
  BY <1>4 DEF IsList
<1>. QED BY <1>5, <1>6, <1>7 DEF Part, st

(* Lists of two changes and of one. *)

(* Two changes that follow each other.                                     *)
LEMMA PartOfTwo ==
  ASSUME NEW a \in Nat, NEW b, NEW c, b = a + 1, c = a + 2, NEW x, NEW y, Deletion(b) = x,
         Deletion(c) = y
  PROVE  Part(<<x, y>>, a, c)
<1>. DEFINE s == <<x, y>>
<1>1. s \in Seq({x, y}) /\ Len(s) = 2 /\ s[1] = x /\ s[2] = y
  OBVIOUS
<1>. HIDE DEF s
<1>2. IsList(s)
  BY <1>1 DEF IsList
<1>3. \A k \in 1 .. c - a : k = 1 \/ k = 2
  OBVIOUS
<1>4. c - a = 2
  OBVIOUS
<1>5. Part(s, a, c)
  BY <1>1, <1>2, <1>3, <1>4 DEF Part
<1>. QED BY <1>5 DEF s

(* A key that is dropped and made anew.                                    *)
LEMMA CascadePart ==
  ASSUME NEW a \in Nat, NEW b, NEW c, b = a + 1, c = a + 2, NEW t, NEW col,
         Deletion(b) = DropKey(t, 1), Deletion(c) = Remade(t, col)
  PROVE  Part(Cascade(t, col), a, c)
BY PartOfTwo DEF Cascade, Remade

(* A column that is made nullable.                                         *)
LEMMA NullablePart ==
  ASSUME NEW a \in Nat, NEW b, b = a + 1, NEW t, NEW type, NEW name,
         Deletion(b) = MadeNull(t, name, type)
  PROVE  Part(Nullable(t, type, <<name>>), a, b)
<1>. DEFINE s == Nullable(t, type, <<name>>)
<1>1. s = [i \in 1 .. 1 |-> MadeNull(t, <<name>>[i], type)]
  BY DEF Nullable, MadeNull
<1>. HIDE DEF s
<1>2. s \in Seq({MadeNull(t, name, type)}) /\ Len(s) = 1 /\ s[1] = MadeNull(t, name, type)
  BY <1>1
<1>3. IsList(s)
  BY <1>2 DEF IsList
<1>4. b - a = 1 /\ \A k \in 1 .. b - a : k = 1
  OBVIOUS
<1>. QED BY <1>2, <1>3, <1>4 DEF Part, s

(* What HardDeviceDelete does, in its order. *)
LEMMA DeletionParts == Part(HardDeviceDelete, 0, 27)
<1>1. Part(Cascade("enabled_webservices", "board_uuid"), 0, 2)
  BY DeletionIs, CascadePart
<1>2. Part(Cascade("exposed_services", "board_uuid"), 2, 4)
  BY DeletionIs, CascadePart
<1>3. Part(Cascade("injection_plugins", "board_uuid"), 4, 6)
  BY DeletionIs, CascadePart
<1>4. Part(Cascade("locations", "board_id"), 6, 8)
  BY DeletionIs, CascadePart
<1>5. Part(Cascade("ports_on_boards", "board_uuid"), 8, 10)
  BY DeletionIs, CascadePart
<1>6. Part(Cascade("sessions", "board_id"), 21, 23)
  BY DeletionIs, CascadePart
<1>7. Part(Cascade("webservices", "board_uuid"), 25, 27)
  BY DeletionIs, CascadePart
<1>8. Part(Nullable("requests", Str(20), <<"action">>), 10, 11)
  BY DeletionIs, NullablePart
<1>9. Part(Nullable("requests", Str(36), <<"destination_uuid">>), 11, 12)
  BY DeletionIs, NullablePart
<1>10. Part(Nullable("requests", Integer, <<"pending_requests">>), 12, 13)
  BY DeletionIs, NullablePart
<1>11. Part(Nullable("requests", Str(10), <<"status">>), 13, 14)
  BY DeletionIs, NullablePart
<1>12. Part(Nullable("requests", Integer, <<"type">>), 14, 15)
  BY DeletionIs, NullablePart
<1>13. Part(Nullable("requests", Str(36), <<"uuid">>), 15, 16)
  BY DeletionIs, NullablePart
<1>14. Part(Nullable("results", Str(10), <<"result">>), 18, 19)
  BY DeletionIs, NullablePart
<1>15. Part(Nullable("results", Str(36), <<"board_uuid", "request_uuid">>), 16, 18)
  <2>. DEFINE x == MadeNull("results", "board_uuid", Str(36))
              y == MadeNull("results", "request_uuid", Str(36))
  <2>1. Nullable("results", Str(36), <<"board_uuid", "request_uuid">>) = <<x, y>>
    BY DEF Nullable, MadeNull
  <2>2. x = Deletion(17) /\ y = Deletion(18)
    BY DeletionIs
  <2>. HIDE DEF x, y
  <2>3. Part(<<x, y>>, 16, 18)
    BY <2>2, PartOfTwo
  <2>. QED BY <2>1, <2>3
<1>16. Part(<<DropKey("results", 1), DropKey("results", 2)>>, 19, 21)
  BY DeletionIs, PartOfTwo
<1>17. Part(RenameUuid, 23, 25)
  <2>1. RenameUuid = <<AddsUuid, DropUnique("webservices", OldUuid)>>
    BY DEF RenameUuid, AddsUuid, NewUuid, OldUuid
  <2>. QED BY <2>1, DeletionIs, PartOfTwo
<1>. DEFINE first == Cascade("enabled_webservices", "board_uuid")
                     \o Cascade("exposed_services", "board_uuid")
                     \o Cascade("injection_plugins", "board_uuid")
                       \o Cascade("locations", "board_id")
                     \o Cascade("ports_on_boards", "board_uuid")
            second == first
  \o Nullable("requests", Str(20), <<"action">>)
  \o Nullable("requests", Str(36), <<"destination_uuid">>)
  \o Nullable("requests", Integer, <<"pending_requests">>)
  \o Nullable("requests", Str(10), <<"status">>) \o Nullable("requests", Integer, <<"type">>)
            third == second
  \o Nullable("requests", Str(36), <<"uuid">>)
  \o Nullable("results", Str(36), <<"board_uuid", "request_uuid">>)
  \o Nullable("results", Str(10), <<"result">>)
  \o <<DropKey("results", 1), DropKey("results", 2)>>
<1>18. \A a, b, c \in 0 .. 27 : \A s, t :
         a <= b /\ b <= c /\ Part(s, a, b) /\ Part(t, b, c) => Part(s \o t, a, c)
  BY PartsJoin
<1>19. Part(first, 0, 10)
  BY <1>1, <1>2, <1>3, <1>4, <1>5, <1>18
<1>. HIDE DEF first
<1>20. Part(second, 0, 15)
  BY <1>8, <1>9, <1>10, <1>11, <1>12, <1>18, <1>19
<1>. HIDE DEF second
<1>21. Part(third, 0, 21)
  BY <1>13, <1>14, <1>15, <1>16, <1>18, <1>20
<1>. HIDE DEF third
<1>22. Part(third \o Cascade("sessions", "board_id") \o RenameUuid
             \o Cascade("webservices", "board_uuid"), 0, 27)
  BY <1>6, <1>7, <1>17, <1>18, <1>21
<1>. QED BY <1>22 DEF HardDeviceDelete, first, second, third

-----------------------------------------------------------------------------
(* The tables after so many changes *)

(* The tables after the first p changes of the revisions, if nothing else   *)
(* changes them: those that are only created, ...                           *)
SimpleAt(p, def, from) ==
  /\ p < from => def.name \notin DOMAIN db
  /\ from <= p => Is(def.name, Fresh(def))
(* ... those whose key is made anew by the changes drop and drop + 1, ...   *)
KeyedAs(def, K) == TableAs(def.fields, def.uniques, K)
CascadeAt(p, def, from, drop, others, key) ==
  /\ p < from => def.name \notin DOMAIN db
  /\ from <= p /\ p < drop => Is(def.name, Fresh(def))
  /\ p = drop => Is(def.name, KeyedAs(def, others))
  /\ drop < p => Is(def.name, KeyedAs(def, others \cup {key}))

(* ... boards, ...                                                          *)
FleetColumn  == Column("fleet", Str(36))
LrColumn     == Column("lr_version", Str(20))
ConnColumn   == Column("connectivity", Json)
OldCode      == Column("code", Str(25))
NewCode      == [Column("code", Str(36)) EXCEPT !.null = FALSE]
FleetKeys    == {<<1, To("fleet", "fleets")>>}
BoardsAs(F, K) == TableAs(F, InitBoards.uniques, K)
WithFleet    == InitBoards.fields \cup {FleetColumn}
WithLr       == WithFleet \cup {LrColumn}
WithConn     == WithLr \cup {ConnColumn}
WithCode     == (WithConn \ {OldCode}) \cup {NewCode}
BoardsAt(p) ==
  /\ p < 1 => "boards" \notin DOMAIN db
  /\ 1 <= p /\ p < 12 => Is("boards", BoardsAs(InitBoards.fields, {}))
  /\ p = 12 => Is("boards", BoardsAs(WithFleet, {}))
  /\ 13 <= p /\ p < 16 => Is("boards", BoardsAs(WithFleet, FleetKeys))
  /\ p = 16 => Is("boards", BoardsAs(WithLr, FleetKeys))
  /\ 17 <= p /\ p < 47 => Is("boards", BoardsAs(WithConn, FleetKeys))
  /\ 47 <= p => Is("boards", BoardsAs(WithCode, FleetKeys))

(* ... webservices, ...                                                     *)
OldUnique == [name |-> OldUuid, cols |-> {"uuid"}]
WebAs(Q, K) == TableAs(WebservicesTable.fields, Q, K)
WithNew     == WebservicesTable.uniques \cup {NewUuid}
WithoutOld  == WithNew \ {OldUnique}
WebservicesAt(p) ==
  /\ p < 15 => "webservices" \notin DOMAIN db
  /\ 15 <= p /\ p < 43 =>
       Is("webservices", WebAs(WebservicesTable.uniques, {<<1, ToBoard("board_uuid", FALSE)>>}))
  /\ p = 43 => Is("webservices", WebAs(WithNew, {<<1, ToBoard("board_uuid", FALSE)>>}))
  /\ p = 44 => Is("webservices", WebAs(WithoutOld, {<<1, ToBoard("board_uuid", FALSE)>>}))
  /\ p = 45 => Is("webservices", WebAs(WithoutOld, {}))
  /\ 46 <= p => Is("webservices", WebAs(WithoutOld, {<<1, ToBoard("board_uuid", TRUE)>>}))

(* ... and those whose columns may be NULL from a change on.                *)
FieldsAt(p, types, from) ==
  {[name |-> n, type |-> types[n], null |-> from[n] <= p] : n \in DOMAIN types}
RequestNames == {"created_at", "updated_at", "id", "main_request_uuid", "project", "uuid",
                 "destination_uuid", "pending_requests", "type", "status", "action"}
RequestTypes == [n \in RequestNames |->
  IF n \in {"created_at", "updated_at"} THEN DateTime
  ELSE IF n \in {"id", "pending_requests", "type"} THEN Integer
  ELSE IF n = "status" THEN Str(10) ELSE IF n = "action" THEN Str(20) ELSE Str(36)]
RequestNulls == [n \in RequestNames |->
  CASE n = "action" -> 30 [] n = "destination_uuid" -> 31 [] n = "pending_requests" -> 32
    [] n = "status" -> 33 [] n = "type" -> 34 [] n = "uuid" -> 35 [] n = "id" -> 48 [] OTHER -> 0]
RequestsAt(p) ==
  /\ p < 18 => "requests" \notin DOMAIN db
  /\ 18 <= p => Is("requests", TableAs(FieldsAt(p, RequestTypes, RequestNulls),
       RequestsTable.uniques,
                                       NumberedKeys(RequestsTable.keys)))

ResultNames == {"created_at", "updated_at", "id", "message", "board_uuid", "request_uuid",
  "result"}
ResultTypes == [n \in ResultNames |->
  IF n \in {"created_at", "updated_at"} THEN DateTime ELSE IF n = "id" THEN Integer
  ELSE IF n = "message" THEN Text ELSE IF n = "result" THEN Str(10) ELSE Str(36)]
ResultNulls == [n \in ResultNames |->
  CASE n = "board_uuid" -> 36 [] n = "request_uuid" -> 37 [] n = "result" -> 38 [] n = "id" -> 48
    [] OTHER -> 0]
ResultKeys(p) == {k \in NumberedKeys(ResultsTable.keys) : p < 38 + k[1]}
ResultsAt(p) ==
  /\ p < 19 => "results" \notin DOMAIN db
  /\ 19 <= p => Is("results", TableAs(FieldsAt(p, ResultTypes, ResultNulls), ResultsTable.uniques,
                                      ResultKeys(p)))

ByUuid == <<1, ToBoard("board_uuid", TRUE)>>
ById   == <<1, ToBoard("board_id", TRUE)>>
Third  == <<3, ToBoard("board_uuid", TRUE)>>
TableNames == {"conductors", "wampagents", "plugins", "services", "fleets", "requests", "results",
               "boards", "locations", "sessions", "injection_plugins", "exposed_services",
               "ports_on_boards", "webservices", "enabled_webservices"}
At(p) ==
  /\ DOMAIN db \subseteq TableNames
  /\ BoardsAt(p) /\ WebservicesAt(p) /\ RequestsAt(p) /\ ResultsAt(p)
  /\ SimpleAt(p, InitConductors, 2)
  /\ SimpleAt(p, InitPlugins, 3)
  /\ SimpleAt(p, InitServices, 4)
  /\ SimpleAt(p, InitWampagents, 5)
  /\ SimpleAt(p, Fleet, 11)
  /\ CascadeAt(p, InitExposedServices, 6, 22, {<<2, To("service_uuid", "services")>>}, Third)
  /\ CascadeAt(p, InitInjectionPlugins, 7, 24, {<<2, To("plugin_uuid", "plugins")>>}, Third)
  /\ CascadeAt(p, InitLocations, 8, 26, {}, ById)
  /\ CascadeAt(p, InitPortsOnBoards, 9, 28, {}, ByUuid)
  /\ CascadeAt(p, InitSessions, 10, 41, {}, ById)
  /\ CascadeAt(p, EnabledWebservicesTable, 14, 20, {}, ByUuid)

(* The change number n. *)
Op(n) ==
  IF n <= 10 THEN InitSchema[n]
  ELSE IF n <= 11 THEN AddFleets[n - 10]
  ELSE IF n <= 13 THEN AddBoardsInFleet[n - 11]
  ELSE IF n <= 15 THEN AddWebservices[n - 13]
  ELSE IF n <= 17 THEN BoardsLrData[n - 15]
  ELSE IF n <= 19 THEN AddResultsRequests[n - 17]
  ELSE IF n <= 46 THEN Deletion(n - 19)
  ELSE ExtendedBoardCode[n - 46]

-----------------------------------------------------------------------------
(* What a change of another table leaves *)

Unaffected(t) ==
  /\ t \in DOMAIN db' <=> t \in DOMAIN db
  /\ t \in DOMAIN db => db'[t] = db[t]

(* A table that a step leaves alone stays what it is.                      *)
LEMMA IsStays ==
  ASSUME NEW t, Unaffected(t)
  PROVE  (\A as : Is(t, as) => Is(t, as)') /\ (t \notin DOMAIN db => t \notin DOMAIN db')
BY DEF Unaffected, Is

(* What is said of a table that is only created stays true.                *)
LEMMA SimpleStays ==
  ASSUME NEW p \in Nat, NEW q, q = p + 1, NEW def, NEW from \in Nat, q # from,
         Unaffected(def.name), SimpleAt(p, def, from)
  PROVE  SimpleAt(q, def, from)'
<1>1. (q < from => p < from) /\ (from <= q => from <= p)
  OBVIOUS
<1>2. (\A as : Is(def.name, as) => Is(def.name, as)')
        /\ (def.name \notin DOMAIN db => def.name \notin DOMAIN db')
  BY IsStays
<1>. QED BY <1>1, <1>2 DEF SimpleAt

(* What is said of a table whose key is made anew stays true.              *)
LEMMA CascadeStays ==
  ASSUME NEW p \in Nat, NEW q, q = p + 1, NEW def, NEW from \in Nat, NEW drop \in Nat,
         q \notin {from, drop, drop + 1}, Unaffected(def.name), NEW others, NEW key,
         CascadeAt(p, def, from, drop, others, key)
  PROVE  CascadeAt(q, def, from, drop, others, key)'
<1>1. /\ q < from => p < from
      /\ from <= q /\ q < drop => from <= p /\ p < drop
      /\ q # drop
      /\ drop < q => drop < p
  OBVIOUS
<1>2. (\A as : Is(def.name, as) => Is(def.name, as)')
        /\ (def.name \notin DOMAIN db => def.name \notin DOMAIN db')
  BY IsStays
<1>. QED BY <1>1, <1>2 DEF CascadeAt

(* What is said of boards stays true.                                      *)
LEMMA BoardsStay ==
  ASSUME NEW p \in Nat, NEW q, q = p + 1, q \notin {1, 12, 13, 16, 17, 47}, Unaffected("boards"),
         BoardsAt(p)
  PROVE  BoardsAt(q)'
<1>1. /\ q < 1 => p < 1
      /\ 1 <= q /\ q < 12 => 1 <= p /\ p < 12
      /\ q # 12 /\ q # 16
      /\ 13 <= q /\ q < 16 => 13 <= p /\ p < 16
      /\ 17 <= q /\ q < 47 => 17 <= p /\ p < 47
      /\ 47 <= q => 47 <= p
  OBVIOUS
<1>2. (\A as : Is("boards", as) => Is("boards", as)')
        /\ ("boards" \notin DOMAIN db => "boards" \notin DOMAIN db')
  BY IsStays
<1>. QED BY <1>1, <1>2 DEF BoardsAt

(* What is said of webservices stays true.                                 *)
LEMMA WebservicesStay ==
  ASSUME NEW p \in Nat, NEW q, q = p + 1, q \notin {15, 43, 44, 45, 46},
         Unaffected("webservices"),
         WebservicesAt(p)
  PROVE  WebservicesAt(q)'
<1>1. /\ q < 15 => p < 15
      /\ 15 <= q /\ q < 43 => 15 <= p /\ p < 43
      /\ q # 43 /\ q # 44 /\ q # 45
      /\ 46 <= q => 46 <= p
  OBVIOUS
<1>2. /\ \A as : Is("webservices", as) => Is("webservices", as)'
      /\ "webservices" \notin DOMAIN db => "webservices" \notin DOMAIN db'
  BY IsStays
<1>. QED BY <1>1, <1>2 DEF WebservicesAt

(* Columns that no change makes nullable. *)
LEMMA FieldsStay ==
  ASSUME NEW p \in Nat, NEW q, q = p + 1, NEW types, NEW from,
         \A n \in DOMAIN types : from[n] \in Nat,
         \A n \in DOMAIN types : from[n] # q
  PROVE  FieldsAt(q, types, from) = FieldsAt(p, types, from)
<1>1. \A n \in DOMAIN types : from[n] <= q <=> from[n] <= p
  OBVIOUS
<1>2. \A n \in DOMAIN types : (from[n] <= q) = (from[n] <= p)
  BY <1>1
<1>. QED BY <1>2 DEF FieldsAt

(* The changes that make columns nullable are numbers.                     *)
LEMMA NullPlaces ==
  /\ DOMAIN RequestTypes = RequestNames
       /\ \A n \in RequestNames : RequestNulls[n] \in {0, 30, 31, 32, 33, 34, 35, 48}
  /\ DOMAIN ResultTypes = ResultNames
       /\ \A n \in ResultNames : ResultNulls[n] \in {0, 36, 37, 38, 48}
BY DEF RequestTypes, RequestNames, RequestNulls, ResultTypes, ResultNames, ResultNulls

(* What is said of requests stays true.                                    *)
LEMMA RequestsStay ==
  ASSUME NEW p \in 0 .. 46, NEW q, q = p + 1, q \notin {18, 30, 31, 32, 33, 34, 35},
         Unaffected("requests"),
         RequestsAt(p)
  PROVE  RequestsAt(q)'
<1>1. (q < 18 => p < 18) /\ (18 <= q => 18 <= p)
  OBVIOUS
<1>2. FieldsAt(q, RequestTypes, RequestNulls) = FieldsAt(p, RequestTypes, RequestNulls)
  BY FieldsStay, NullPlaces
<1>3. (\A as : Is("requests", as) => Is("requests", as)')
        /\ ("requests" \notin DOMAIN db => "requests" \notin DOMAIN db')
  BY IsStays
<1>. QED BY <1>1, <1>2, <1>3 DEF RequestsAt

(* What is said of results stays true.                                     *)
LEMMA ResultsStay ==
  ASSUME NEW p \in 0 .. 46, NEW q, q = p + 1, q \notin {19, 36, 37, 38, 39, 40},
         Unaffected("results"),
         ResultsAt(p)
  PROVE  ResultsAt(q)'
<1>1. (q < 19 => p < 19) /\ (19 <= q => 19 <= p)
  OBVIOUS
<1>2. FieldsAt(q, ResultTypes, ResultNulls) = FieldsAt(p, ResultTypes, ResultNulls)
  BY FieldsStay, NullPlaces
<1>3. ResultKeys(q) = ResultKeys(p)
  <2>1. \A k \in NumberedKeys(ResultsTable.keys) : k[1] \in {1, 2}
    BY DEF NumberedKeys, ResultsTable, Table
  <2>2. \A k \in NumberedKeys(ResultsTable.keys) : q < 38 + k[1] <=> p < 38 + k[1]
    BY <2>1
  <2>. QED BY <2>2 DEF ResultKeys
<1>4. (\A as : Is("results", as) => Is("results", as)')
        /\ ("results" \notin DOMAIN db => "results" \notin DOMAIN db')
  BY IsStays
<1>. QED BY <1>1, <1>2, <1>3, <1>4 DEF ResultsAt

-----------------------------------------------------------------------------
(* What the change of a table makes of it *)

(* A table becomes what it should be, and the others stay. *)
LEMMA Others ==
  ASSUME NEW t, NEW as, Becomes(t, as)
  PROVE  Is(t, as)' /\ \A u : u # t => Unaffected(u)
BY DEF Becomes, Is, Unaffected

(* A table without keys is created.                                        *)
LEMMA CreateSimple ==
  ASSUME NEW p \in Nat, NEW n, n = p + 1, NEW def, def.keys = <<>>, SimpleAt(p, def, n)
  PROVE  /\ Makes(CreateTable(def), def.name, Fresh(def))
         /\ Becomes(def.name, Fresh(def)) => SimpleAt(n, def, n)'
<1>1. def.name \notin DOMAIN db
  BY DEF SimpleAt
<1>2. Makes(CreateTable(def), def.name, Fresh(def))
  BY <1>1, CreateMakes
<1>3. ASSUME Becomes(def.name, Fresh(def)) PROVE SimpleAt(n, def, n)'
  <2>1. Is(def.name, Fresh(def))'
    BY <1>3, Others
  <2>. QED BY <2>1 DEF SimpleAt
<1>. QED BY <1>2, <1>3

(* A table whose key is made anew later is created.                        *)
LEMMA CreateCascade ==
  ASSUME NEW p \in Nat, NEW n, n = p + 1, NEW def, NEW drop \in Nat, n < drop, NEW others,
         NEW key,
         CascadeAt(p, def, n, drop, others, key),
         \A i \in DOMAIN def.keys : def.keys[i].ref[1] \in DOMAIN db
  PROVE  /\ Makes(CreateTable(def), def.name, Fresh(def))
         /\ Becomes(def.name, Fresh(def)) => CascadeAt(n, def, n, drop, others, key)'
<1>1. def.name \notin DOMAIN db
  BY DEF CascadeAt
<1>2. Makes(CreateTable(def), def.name, Fresh(def))
  BY <1>1, CreateMakes
<1>3. ASSUME Becomes(def.name, Fresh(def)) PROVE CascadeAt(n, def, n, drop, others, key)'
  <2>1. Is(def.name, Fresh(def))'
    BY <1>3, Others
  <2>2. ~(n < n) /\ n # drop /\ ~(drop < n)
    OBVIOUS
  <2>. QED BY <2>1, <2>2 DEF CascadeAt
<1>. QED BY <1>2, <1>3

(* The first key of a table goes ...                                        *)
LEMMA DropCascade ==
  ASSUME NEW p \in Nat, NEW n, n = p + 1, NEW def, NEW from \in Nat, from < n, NEW others,
         NEW key,
         CascadeAt(p, def, from, n, others, key),
         NEW old, NumberedKeys(def.keys) = others \cup {<<1, old>>}, \A k \in others : k[1] # 1
  PROVE  /\ Makes(DropKey(def.name, 1), def.name, KeyedAs(def, others))
         /\ Becomes(def.name, KeyedAs(def, others)) => CascadeAt(n, def, from, n, others, key)'
<1>. DEFINE K == NumberedKeys(def.keys)
<1>0. <<1, old>>[1] = 1
  OBVIOUS
<1>1. PICK k : k = <<1, old>>
  OBVIOUS
<1>2. k \in K /\ k[1] = 1 /\ (\A l \in K : l[1] = 1 => l = k) /\ K \ {k} = others
  BY <1>0, <1>1
<1>3. Is(def.name, TableAs(def.fields, def.uniques, K))
  <2>1. from <= p /\ p < n
    OBVIOUS
  <2>. QED BY <2>1 DEF CascadeAt, Fresh
<1>. HIDE DEF K
<1>4. Makes(DropKey(def.name, 1), def.name, TableAs(def.fields, def.uniques, K \ {k}))
  BY <1>2, <1>3, DropKeyMakes
<1>5. ASSUME Becomes(def.name, KeyedAs(def, others))
      PROVE  CascadeAt(n, def, from, n, others, key)'
  <2>1. Is(def.name, KeyedAs(def, others))'
    BY <1>5, Others
  <2>2. ~(n < from) /\ ~(n < n)
    OBVIOUS
  <2>. QED BY <2>1, <2>2 DEF CascadeAt
<1>. QED BY <1>2, <1>4, <1>5 DEF KeyedAs

(* ... and comes back with its cascade.                                     *)
LEMMA AddCascade ==
  ASSUME NEW p \in Nat, NEW n, n = p + 1, NEW def, NEW from \in Nat, from < p, NEW others,
         NEW key,
         CascadeAt(p, def, from, p, others, key), NEW new,
         key = <<NextNumber(others), new>>, new.ref[1] \in DOMAIN db
  PROVE  /\ Makes(AddKey(def.name, new), def.name, KeyedAs(def, others \cup {key}))
         /\ Becomes(def.name, KeyedAs(def, others \cup {key})) =>
              CascadeAt(n, def, from, p, others, key)'
<1>1. Is(def.name, TableAs(def.fields, def.uniques, others))
  BY DEF CascadeAt, KeyedAs
<1>2. Makes(AddKey(def.name, new), def.name,
            TableAs(def.fields, def.uniques, others \cup {<<NextNumber(others), new>>}))
  BY <1>1, AddKeyMakes
<1>3. ASSUME Becomes(def.name, KeyedAs(def, others \cup {key}))
      PROVE  CascadeAt(n, def, from, p, others, key)'
  <2>1. Is(def.name, KeyedAs(def, others \cup {key}))'
    BY <1>3, Others
  <2>2. ~(n < from) /\ ~(n < p) /\ n # p
    OBVIOUS
  <2>. QED BY <2>1, <2>2 DEF CascadeAt
<1>. QED BY <1>2, <1>3 DEF KeyedAs

(* The keys of the tables whose first key is made anew. *)
LEMMA KeysOfTables ==
  /\ NumberedKeys(InitExposedServices.keys) =
       {<<2, To("service_uuid", "services")>>} \cup {<<1, ToBoard("board_uuid", FALSE)>>}
  /\ NumberedKeys(InitInjectionPlugins.keys) =
       {<<2, To("plugin_uuid", "plugins")>>} \cup {<<1, ToBoard("board_uuid", FALSE)>>}
  /\ NumberedKeys(InitLocations.keys) = {} \cup {<<1, ToBoard("board_id", FALSE)>>}
  /\ NumberedKeys(InitPortsOnBoards.keys) = {} \cup {<<1, ToBoard("board_uuid", FALSE)>>}
  /\ NumberedKeys(InitSessions.keys) = {} \cup {<<1, ToBoard("board_id", FALSE)>>}
  /\ NumberedKeys(EnabledWebservicesTable.keys) = {} \cup {<<1, ToBoard("board_uuid", FALSE)>>}
  /\ NumberedKeys(WebservicesTable.keys) = {<<1, ToBoard("board_uuid", FALSE)>>}
  /\ NumberedKeys(ResultsTable.keys) =
       {<<1, ToBoard("board_uuid", FALSE)>>, <<2, To("request_uuid", "requests")>>}
  /\ NumberedKeys(<<>>) = {}
<1>1. ASSUME NEW a PROVE NumberedKeys(<<a>>) = {} \cup {<<1, a>>}
  <2>1. \A i : i \in DOMAIN <<a>> <=> i = 1
    OBVIOUS
  <2>. QED BY <2>1 DEF NumberedKeys
<1>2. ASSUME NEW a, NEW b PROVE NumberedKeys(<<a, b>>) = {<<2, b>>} \cup {<<1, a>>}
  <2>1. \A i : i \in DOMAIN <<a, b>> <=> i = 1 \/ i = 2
    OBVIOUS
  <2>2. <<a, b>>[1] = a /\ <<a, b>>[2] = b
    OBVIOUS
  <2>. QED BY <2>1, <2>2 DEF NumberedKeys
<1>3. NumberedKeys(<<>>) = {}
  BY DEF NumberedKeys
<1>4. /\ InitExposedServices.keys = <<ToBoard("board_uuid", FALSE),
           To("service_uuid", "services")>>
      /\ InitInjectionPlugins.keys
           = <<ToBoard("board_uuid", FALSE), To("plugin_uuid", "plugins")>>
      /\ InitLocations.keys = <<ToBoard("board_id", FALSE)>>
      /\ InitPortsOnBoards.keys = <<ToBoard("board_uuid", FALSE)>>
      /\ InitSessions.keys = <<ToBoard("board_id", FALSE)>>
      /\ EnabledWebservicesTable.keys = <<ToBoard("board_uuid", FALSE)>>
      /\ WebservicesTable.keys = <<ToBoard("board_uuid", FALSE)>>
      /\ ResultsTable.keys = <<ToBoard("board_uuid", FALSE), To("request_uuid", "requests")>>
  BY DEF InitExposedServices, InitInjectionPlugins, InitLocations, InitPortsOnBoards,
       InitSessions,
         EnabledWebservicesTable, WebservicesTable, ResultsTable, Table
<1>5. /\ NumberedKeys(InitExposedServices.keys) =
            {<<2, To("service_uuid", "services")>>} \cup {<<1, ToBoard("board_uuid", FALSE)>>}
      /\ NumberedKeys(InitInjectionPlugins.keys) =
            {<<2, To("plugin_uuid", "plugins")>>} \cup {<<1, ToBoard("board_uuid", FALSE)>>}
  BY <1>2, <1>4
<1>6. NumberedKeys(ResultsTable.keys) =
        {<<1, ToBoard("board_uuid", FALSE)>>, <<2, To("request_uuid", "requests")>>}
  <2>1. \A x, y : {x} \cup {y} = {y, x}
    OBVIOUS
  <2>2. NumberedKeys(ResultsTable.keys) =
          {<<2, To("request_uuid", "requests")>>} \cup {<<1, ToBoard("board_uuid", FALSE)>>}
    BY <1>2, <1>4
  <2>. QED BY <2>1, <2>2
<1>7. \A x : {} \cup {x} = {x}
  OBVIOUS
<1>. QED BY <1>1, <1>3, <1>4, <1>5, <1>6, <1>7

-----------------------------------------------------------------------------
(* What each change of the revisions makes of its table *)

(* The changes of the other revisions.                                     *)
LEMMA OpsAre ==
  /\ Op(1) = CreateTable(InitBoards) /\ Op(2) = CreateTable(InitConductors)
  /\ Op(3) = CreateTable(InitPlugins) /\ Op(4) = CreateTable(InitServices)
  /\ Op(5) = CreateTable(InitWampagents) /\ Op(6) = CreateTable(InitExposedServices)
  /\ Op(7) = CreateTable(InitInjectionPlugins) /\ Op(8) = CreateTable(InitLocations)
  /\ Op(9) = CreateTable(InitPortsOnBoards) /\ Op(10) = CreateTable(InitSessions)
  /\ Op(11) = CreateTable(Fleet)
  /\ Op(12) = AddColumn("boards", FleetColumn) /\ Op(13) = AddKey("boards", To("fleet", "fleets"))
  /\ Op(14) = CreateTable(EnabledWebservicesTable) /\ Op(15) = CreateTable(WebservicesTable)
  /\ Op(16) = AddColumn("boards", LrColumn) /\ Op(17) = AddColumn("boards", ConnColumn)
  /\ Op(18) = CreateTable(RequestsTable) /\ Op(19) = CreateTable(ResultsTable)
  /\ \A n \in 20 .. 46 : Op(n) = Deletion(n - 19)
  /\ Op(47) = AlterColumn("boards", NewCode)
<1>1. /\ Op(1) = InitSchema[1] /\ Op(2) = InitSchema[2] /\ Op(3) = InitSchema[3]
      /\ Op(4) = InitSchema[4] /\ Op(5) = InitSchema[5] /\ Op(6) = InitSchema[6]
      /\ Op(7) = InitSchema[7] /\ Op(8) = InitSchema[8] /\ Op(9) = InitSchema[9]
      /\ Op(10) = InitSchema[10]
  BY DEF Op
<1>2. \A n \in 1 .. 10 : InitSchema[n] = CreateTable(InitTables[n])
  BY DEF InitSchema, InitTables
<1>3. /\ InitTables[1] = InitBoards /\ InitTables[2] = InitConductors
      /\ InitTables[3] = InitPlugins /\ InitTables[4] = InitServices
      /\ InitTables[5] = InitWampagents /\ InitTables[6] = InitExposedServices
      /\ InitTables[7] = InitInjectionPlugins /\ InitTables[8] = InitLocations
      /\ InitTables[9] = InitPortsOnBoards /\ InitTables[10] = InitSessions
  BY DEF InitTables
<1>4. Op(11) = CreateTable(Fleet)
  <2>1. Op(11) = AddFleets[1]
    BY DEF Op
  <2>. QED BY <2>1 DEF AddFleets, Fleet
<1>5. Op(12) = AddColumn("boards", FleetColumn)
        /\ Op(13) = AddKey("boards", To("fleet", "fleets"))
  <2>1. Op(12) = AddBoardsInFleet[1] /\ Op(13) = AddBoardsInFleet[2]
    BY DEF Op
  <2>. QED BY <2>1 DEF AddBoardsInFleet, FleetColumn
<1>6. Op(14) = CreateTable(EnabledWebservicesTable) /\ Op(15) = CreateTable(WebservicesTable)
  <2>1. Op(14) = AddWebservices[1] /\ Op(15) = AddWebservices[2]
    BY DEF Op
  <2>. QED BY <2>1 DEF AddWebservices
<1>7. Op(16) = AddColumn("boards", LrColumn) /\ Op(17) = AddColumn("boards", ConnColumn)
  <2>1. Op(16) = BoardsLrData[1] /\ Op(17) = BoardsLrData[2]
    BY DEF Op
  <2>. QED BY <2>1 DEF BoardsLrData, LrColumn, ConnColumn
<1>8. Op(18) = CreateTable(RequestsTable) /\ Op(19) = CreateTable(ResultsTable)
  <2>1. Op(18) = AddResultsRequests[1] /\ Op(19) = AddResultsRequests[2]
    BY DEF Op
  <2>. QED BY <2>1 DEF AddResultsRequests
<1>9. \A n \in 20 .. 46 : Op(n) = Deletion(n - 19)
  BY DEF Op
<1>10. Op(47) = AlterColumn("boards", NewCode)
  <2>1. Op(47) = ExtendedBoardCode[1]
    BY DEF Op
  <2>. QED BY <2>1 DEF ExtendedBoardCode, NewCode
<1>11. /\ Op(1) = CreateTable(InitBoards) /\ Op(2) = CreateTable(InitConductors)
       /\ Op(3) = CreateTable(InitPlugins) /\ Op(4) = CreateTable(InitServices)
       /\ Op(5) = CreateTable(InitWampagents)
  BY <1>1, <1>2, <1>3
<1>12. /\ Op(6) = CreateTable(InitExposedServices) /\ Op(7) = CreateTable(InitInjectionPlugins)
       /\ Op(8) = CreateTable(InitLocations) /\ Op(9) = CreateTable(InitPortsOnBoards)
       /\ Op(10) = CreateTable(InitSessions)
  BY <1>1, <1>2, <1>3
<1>. QED BY <1>4, <1>5, <1>6, <1>7, <1>8, <1>9, <1>10, <1>11, <1>12

(* A column may be NULL from its change on. *)
LEMMA NullStep ==
  ASSUME NEW p \in Nat, NEW n, n = p + 1, NEW types, NEW from,
         \A c \in DOMAIN types : from[c] \in Nat,
         NEW name \in DOMAIN types, \A c \in DOMAIN types : from[c] = n <=> c = name,
         NEW t, NEW Q, NEW K, Is(t, TableAs(FieldsAt(p, types, from), Q, K)),
         NEW type, types[name] = type
  PROVE  Makes(MadeNull(t, name, type), t, TableAs(FieldsAt(n, types, from), Q, K))
<1>. DEFINE F == FieldsAt(p, types, from)
            f == Column(name, type)
            g == [name |-> name, type |-> type, null |-> FALSE]
            at(c, q) == [name |-> c, type |-> types[c], null |-> from[c] <= q]
<1>1. (from[name] <= p) = FALSE /\ (from[name] <= n) = TRUE
  OBVIOUS
<1>2. \A c \in DOMAIN types : c # name => (from[c] <= p) = (from[c] <= n)
  OBVIOUS
<1>3. at(name, p) = g /\ at(name, n) = f
  BY <1>1 DEF Column
<1>4. \A c \in DOMAIN types : c # name => at(c, p) = at(c, n)
  BY <1>2
<1>5. \A c, q : at(c, q).name = c
  OBVIOUS
<1>6. F = {at(c, p) : c \in DOMAIN types}
        /\ FieldsAt(n, types, from) = {at(c, n) : c \in DOMAIN types}
  BY DEF FieldsAt
<1>. HIDE DEF at, F
<1>7. g \in F
  BY <1>3, <1>6
<1>8. \A e \in F : e.name = name => e = g
  BY <1>3, <1>5, <1>6
<1>9. (F \ {g}) \cup {f} = FieldsAt(n, types, from)
  BY <1>3, <1>4, <1>5, <1>6
<1>10. g.name = f.name /\ f.name = name
  BY DEF Column
<1>. HIDE DEF f, g
<1>11. Makes(AlterColumn(t, f), t, TableAs((F \ {g}) \cup {f}, Q, K))
  BY <1>7, <1>8, <1>10, AlterMakes DEF F
<1>. QED BY <1>9, <1>11 DEF MadeNull, f

-----------------------------------------------------------------------------
(* boards *)

(* The columns that revisions add to boards are new.                       *)
LEMMA BoardsFields ==
  /\ ~HasName(InitBoards.fields, "fleet") /\ ~HasName(WithFleet, "lr_version")
  /\ ~HasName(WithLr, "connectivity")
  /\ OldCode \in WithConn /\ \A e \in WithConn : e.name = "code" => e = OldCode
  /\ FleetColumn.name = "fleet" /\ LrColumn.name = "lr_version"
       /\ ConnColumn.name = "connectivity"
  /\ OldCode.name = "code" /\ NewCode.name = "code"
<1>1. \A e \in InitBoards.fields :
        /\ e.name \notin {"fleet", "lr_version", "connectivity"}
        /\ e.name = "code" => e = OldCode
  BY DEF InitBoards, Table, Common, Fields, Required, OldCode, Column
<1>2. /\ FleetColumn.name = "fleet" /\ LrColumn.name = "lr_version"
      /\ ConnColumn.name = "connectivity" /\ OldCode.name = "code" /\ NewCode.name = "code"
  BY DEF FleetColumn, LrColumn, ConnColumn, OldCode, NewCode, Column
<1>3. OldCode \in InitBoards.fields
  BY DEF InitBoards, Table, Fields, OldCode, Column
<1>. QED BY <1>1, <1>2, <1>3 DEF HasName, WithFleet, WithLr, WithConn

(* Each change of boards.                                                  *)
LEMMA BoardsSteps ==
  ASSUME NEW n \in {1, 12, 13, 16, 17, 47}, NEW p, p = n - 1, At(p)
  PROVE  \E as : Makes(Op(n), "boards", as) /\ (Becomes("boards", as) => BoardsAt(n)')
<1>0. BoardsAt(p) /\ SimpleAt(p, Fleet, 11)
  BY DEF At
<1>1. CASE n = 1
  <2>1. InitBoards.name = "boards" /\ InitBoards.keys = <<>>
    BY DEF InitBoards, Table
  <2>2. Fresh(InitBoards) = BoardsAs(InitBoards.fields, {})
    BY <2>1, KeysOfTables DEF Fresh, BoardsAs
  <2>3. "boards" \notin DOMAIN db
    BY <1>0, <1>1 DEF BoardsAt
  <2>4. Makes(Op(1), "boards", BoardsAs(InitBoards.fields, {}))
    <3>1. \A i \in DOMAIN InitBoards.keys :
            InitBoards.keys[i].ref[1] \in DOMAIN db \cup {InitBoards.name}
      BY <2>1
    <3>2. InitBoards.name \notin DOMAIN db
      BY <2>1, <2>3
    <3>3. Makes(CreateTable(InitBoards), InitBoards.name, Fresh(InitBoards))
      BY <3>1, <3>2, CreateMakes
    <3>. QED BY <2>1, <2>2, <3>3, OpsAre
  <2>5. Becomes("boards", BoardsAs(InitBoards.fields, {})) => BoardsAt(1)'
    BY Others DEF BoardsAt
  <2>. QED BY <1>1, <2>4, <2>5
<1>2. CASE n = 12
  <2>1. Is("boards", BoardsAs(InitBoards.fields, {}))
    BY <1>0, <1>2 DEF BoardsAt
  <2>2. Makes(Op(12), "boards", BoardsAs(WithFleet, {}))
    BY <2>1, BoardsFields, AddColumnMakes, OpsAre DEF BoardsAs, WithFleet
  <2>3. Becomes("boards", BoardsAs(WithFleet, {})) => BoardsAt(12)'
    BY Others DEF BoardsAt
  <2>. QED BY <1>2, <2>2, <2>3
<1>3. CASE n = 13
  <2>1. Is("boards", BoardsAs(WithFleet, {}))
    BY <1>0, <1>3 DEF BoardsAt
  <2>2. Is("fleets", Fresh(Fleet))
    BY <1>0, <1>3 DEF SimpleAt, Fleet, Table
  <2>3. To("fleet", "fleets").ref[1] \in DOMAIN db
    BY <2>2 DEF To, Is
  <2>4. {} \cup {<<NextNumber({}), To("fleet", "fleets")>>} = FleetKeys
    BY Numbers DEF FleetKeys
  <2>5. Makes(Op(13), "boards", BoardsAs(WithFleet, FleetKeys))
    BY <2>1, <2>3, <2>4, AddKeyMakes, OpsAre DEF BoardsAs
  <2>6. Becomes("boards", BoardsAs(WithFleet, FleetKeys)) => BoardsAt(13)'
    BY Others DEF BoardsAt
  <2>. QED BY <1>3, <2>5, <2>6
<1>4. CASE n = 16
  <2>1. Is("boards", BoardsAs(WithFleet, FleetKeys))
    BY <1>0, <1>4 DEF BoardsAt
  <2>2. Makes(Op(16), "boards", BoardsAs(WithLr, FleetKeys))
    BY <2>1, BoardsFields, AddColumnMakes, OpsAre DEF BoardsAs, WithLr
  <2>3. Becomes("boards", BoardsAs(WithLr, FleetKeys)) => BoardsAt(16)'
    BY Others DEF BoardsAt
  <2>. QED BY <1>4, <2>2, <2>3
<1>5. CASE n = 17
  <2>1. Is("boards", BoardsAs(WithLr, FleetKeys))
    BY <1>0, <1>5 DEF BoardsAt
  <2>2. Makes(Op(17), "boards", BoardsAs(WithConn, FleetKeys))
    BY <2>1, BoardsFields, AddColumnMakes, OpsAre DEF BoardsAs, WithConn
  <2>3. Becomes("boards", BoardsAs(WithConn, FleetKeys)) => BoardsAt(17)'
    BY Others DEF BoardsAt
  <2>. QED BY <1>5, <2>2, <2>3
<1>6. CASE n = 47
  <2>1. Is("boards", BoardsAs(WithConn, FleetKeys))
    BY <1>0, <1>6 DEF BoardsAt
  <2>2. Makes(Op(47), "boards", BoardsAs(WithCode, FleetKeys))
    BY <2>1, BoardsFields, AlterMakes, OpsAre DEF BoardsAs, WithCode
  <2>3. Becomes("boards", BoardsAs(WithCode, FleetKeys)) => BoardsAt(47)'
    BY Others DEF BoardsAt
  <2>. QED BY <1>6, <2>2, <2>3
<1>. QED BY <1>1, <1>2, <1>3, <1>4, <1>5, <1>6

-----------------------------------------------------------------------------
(* The other tables *)

(* The tables that others refer to. *)
LEMMA TablesThere ==
  ASSUME NEW p \in 1 .. 46, At(p)
  PROVE  /\ "boards" \in DOMAIN db
         /\ 3 <= p => "plugins" \in DOMAIN db
         /\ 4 <= p => "services" \in DOMAIN db
         /\ 18 <= p => "requests" \in DOMAIN db
<1>1. "boards" \in DOMAIN db
  <2>1. BoardsAt(p)
    BY DEF At
  <2>2. (1 <= p /\ p < 12) \/ p = 12 \/ (13 <= p /\ p < 16) \/ p = 16 \/ (17 <= p /\ p < 47)
    OBVIOUS
  <2>. QED BY <2>1, <2>2 DEF BoardsAt, Is
<1>2. SimpleAt(p, InitPlugins, 3) /\ SimpleAt(p, InitServices, 4) /\ RequestsAt(p)
  BY DEF At
<1>3. InitPlugins.name = "plugins" /\ InitServices.name = "services"
  BY DEF InitPlugins, InitServices, Table
<1>. QED BY <1>1, <1>2, <1>3 DEF SimpleAt, RequestsAt, Is

(* What a key refers to.                                                   *)
LEMMA KeysRefer ==
  /\ \A col, cascade : ToBoard(col, cascade).ref[1] = "boards"
  /\ \A col, t : To(col, t).ref[1] = t
BY DEF ToBoard, To

(* Each change of webservices: one uuid constraint is always there.        *)
LEMMA WebservicesSteps ==
  ASSUME NEW n \in {15, 43, 44, 45, 46}, NEW p, p = n - 1, At(p)
  PROVE  \E as : Makes(Op(n), "webservices", as)
           /\ (Becomes("webservices", as) => WebservicesAt(n)')
<1>0. WebservicesAt(p) /\ "boards" \in DOMAIN db
  BY TablesThere DEF At
<1>. DEFINE U == WebservicesTable.uniques
            old == <<1, ToBoard("board_uuid", FALSE)>>
            new == <<1, ToBoard("board_uuid", TRUE)>>
<1>1. WebservicesTable.name = "webservices"
        /\ WebservicesTable.keys = <<ToBoard("board_uuid", FALSE)>>
  BY DEF WebservicesTable, Table
<1>2. /\ OldUnique \in U /\ \A u \in U : u.name # NewUuid.name
           /\ (u.name = OldUuid => u = OldUnique)
      /\ OldUnique.name = OldUuid /\ NewUuid.name # OldUuid
  BY DEF WebservicesTable, Table, Unique, OldUnique, NewUuid, OldUuid
<1>3. /\ Op(43) = AddUnique("webservices", NewUuid) /\ Op(44) = DropUnique("webservices", OldUuid)
      /\ Op(45) = DropKey("webservices", 1)
      /\ Op(46) = AddKey("webservices", ToBoard("board_uuid", TRUE))
  <2>1. Op(43) = Deletion(24) /\ Op(44) = Deletion(25) /\ Op(45) = Deletion(26)
          /\ Op(46) = Deletion(27)
    BY OpsAre
  <2>. QED BY <2>1, DeletionIs DEF AddsUuid, Remade
<1>4. CASE n = 15
  <2>1. Fresh(WebservicesTable) = WebAs(U, {old})
    BY KeysOfTables DEF Fresh, WebAs
  <2>2. "webservices" \notin DOMAIN db
    BY <1>0, <1>4 DEF WebservicesAt
  <2>3. Makes(Op(15), "webservices", WebAs(U, {old}))
    <3>1. \A i \in DOMAIN WebservicesTable.keys :
            WebservicesTable.keys[i].ref[1] \in DOMAIN db \cup {WebservicesTable.name}
      <4>1. DOMAIN WebservicesTable.keys = {1}
            /\ WebservicesTable.keys[1] = ToBoard("board_uuid", FALSE)
        BY <1>1
      <4>2. ToBoard("board_uuid", FALSE).ref[1] = "boards"
        BY KeysRefer
      <4>. QED BY <1>0, <4>1, <4>2
    <3>2. Makes(CreateTable(WebservicesTable), WebservicesTable.name, Fresh(WebservicesTable))
      BY <1>1, <2>2, <3>1, CreateMakes
    <3>. QED BY <1>1, <2>1, <3>2, OpsAre
  <2>4. Becomes("webservices", WebAs(U, {old})) => WebservicesAt(15)'
    BY Others DEF WebservicesAt
  <2>. QED BY <1>4, <2>3, <2>4
<1>5. CASE n = 43
  <2>1. Is("webservices", WebAs(U, {old}))
    BY <1>0, <1>5 DEF WebservicesAt
  <2>2. Makes(Op(43), "webservices", WebAs(WithNew, {old}))
    BY <1>2, <1>3, <2>1, AddUniqueMakes DEF WebAs, WithNew
  <2>3. Becomes("webservices", WebAs(WithNew, {old})) => WebservicesAt(43)'
    BY Others DEF WebservicesAt
  <2>. QED BY <1>5, <2>2, <2>3
<1>6. CASE n = 44
  <2>1. Is("webservices", WebAs(WithNew, {old}))
    BY <1>0, <1>6 DEF WebservicesAt
  <2>2. OldUnique \in WithNew /\ \A u \in WithNew : u.name = OldUuid => u = OldUnique
    BY <1>2 DEF WithNew
  <2>3. Makes(Op(44), "webservices", WebAs(WithoutOld, {old}))
    BY <1>2, <1>3, <2>1, <2>2, DropUniqueMakes DEF WebAs, WithoutOld
  <2>4. Becomes("webservices", WebAs(WithoutOld, {old})) => WebservicesAt(44)'
    BY Others DEF WebservicesAt
  <2>. QED BY <1>6, <2>3, <2>4
<1>7. CASE n = 45
  <2>1. Is("webservices", WebAs(WithoutOld, {old}))
    BY <1>0, <1>7 DEF WebservicesAt
  <2>2. old[1] = 1 /\ {old} \ {old} = {}
    OBVIOUS
  <2>3. Makes(Op(45), "webservices", WebAs(WithoutOld, {}))
    <3>. HIDE DEF old
    <3>. QED BY <1>3, <2>1, <2>2, DropKeyMakes DEF WebAs
  <2>4. Becomes("webservices", WebAs(WithoutOld, {})) => WebservicesAt(45)'
    BY Others DEF WebservicesAt
  <2>. QED BY <1>7, <2>3, <2>4
<1>8. CASE n = 46
  <2>1. Is("webservices", WebAs(WithoutOld, {}))
    BY <1>0, <1>8 DEF WebservicesAt
  <2>2. {} \cup {<<NextNumber({}), ToBoard("board_uuid", TRUE)>>} = {new}
    BY Numbers
  <2>3. Makes(Op(46), "webservices", WebAs(WithoutOld, {new}))
    <3>1. ToBoard("board_uuid", TRUE).ref[1] \in DOMAIN db
      BY <1>0, KeysRefer
    <3>2. Is("webservices", TableAs(WebservicesTable.fields, WithoutOld, {}))
      BY <2>1 DEF WebAs
    <3>3. Makes(AddKey("webservices", ToBoard("board_uuid", TRUE)), "webservices",
                TableAs(WebservicesTable.fields, WithoutOld,
                        {} \cup {<<NextNumber({}), ToBoard("board_uuid", TRUE)>>}))
      BY <3>1, <3>2, AddKeyMakes
    <3>. QED BY <1>3, <2>2, <3>3 DEF WebAs
  <2>4. Becomes("webservices", WebAs(WithoutOld, {new})) => WebservicesAt(46)'
    BY Others DEF WebservicesAt
  <2>. QED BY <1>8, <2>3, <2>4
<1>. QED BY <1>4, <1>5, <1>6, <1>7, <1>8

(* Columns of one type as a set of records. *)
Columned(type, names, null) == {[name |-> c, type |-> type, null |-> null] : c \in names}

(* A column that is made to take, or to refuse, NULL.                      *)
LEMMA NullSet ==
  ASSUME NEW c, NEW type, NEW x, NEW y
  PROVE  [[name |-> c, type |-> type, null |-> x] EXCEPT !.null = y]
           = [name |-> c, type |-> type, null |-> y]
OBVIOUS

(* Columns that are listed one by one.                                     *)
LEMMA RequiredAre ==
  /\ \A type, names : Fields(type, names) = Columned(type, names, TRUE)
  /\ \A type, names : Required(Fields(type, names)) = Columned(type, names, FALSE)
  /\ \A A, B : Required(A \cup B) = Required(A) \cup Required(B)
<1>1. ASSUME NEW type, NEW names
      PROVE  /\ Fields(type, names) = Columned(type, names, TRUE)
             /\ Required(Fields(type, names)) = Columned(type, names, FALSE)
  <2>. DEFINE on(c)  == [name |-> c, type |-> type, null |-> TRUE]
              off(c) == [name |-> c, type |-> type, null |-> FALSE]
  <2>1. \A c : [[name |-> c, type |-> type, null |-> TRUE] EXCEPT !.null = FALSE]
              = [name |-> c, type |-> type, null |-> FALSE]
    BY NullSet
  <2>2. Fields(type, names) = {on(c) : c \in names}
    BY DEF Fields
  <2>3. Required(Fields(type, names)) = {[f EXCEPT !.null = FALSE] : f \in Fields(type, names)}
    BY DEF Required
  <2>4. \A c : [on(c) EXCEPT !.null = FALSE] = off(c)
    BY <2>1
  <2>. HIDE DEF on, off
  <2>5. Required(Fields(type, names)) = {off(c) : c \in names}
    BY <2>2, <2>3, <2>4
  <2>. QED BY <2>2, <2>5 DEF on, off, Columned
<1>2. \A A, B : Required(A \cup B) = Required(A) \cup Required(B)
  BY DEF Required
<1>. QED BY <1>1, <1>2

(* The columns of requests and results as the revision makes them. *)
LEMMA FieldsMade ==
  /\ FieldsAt(18, RequestTypes, RequestNulls) = RequestsTable.fields
  /\ FieldsAt(19, ResultTypes, ResultNulls) = ResultsTable.fields
<1>. DEFINE rec(c, type, null) == [name |-> c, type |-> type, null |-> null]
<1>1. FieldsAt(18, RequestTypes, RequestNulls) = RequestsTable.fields
  <2>. DEFINE at(c) == rec(c, RequestTypes[c], RequestNulls[c] <= 18)
  <2>1. /\ \A c \in {"created_at", "updated_at"} : at(c) = rec(c, DateTime, TRUE)
        /\ \A c \in {"id"} : at(c) = rec(c, Integer, FALSE)
        /\ \A c \in {"main_request_uuid", "project"} : at(c) = rec(c, Str(36), TRUE)
        /\ \A c \in {"uuid", "destination_uuid"} : at(c) = rec(c, Str(36), FALSE)
        /\ \A c \in {"pending_requests", "type"} : at(c) = rec(c, Integer, FALSE)
        /\ \A c \in {"status"} : at(c) = rec(c, Str(10), FALSE)
        /\ \A c \in {"action"} : at(c) = rec(c, Str(20), FALSE)
    <3>1. /\ \A c \in {"created_at", "updated_at"} : RequestTypes[c] = DateTime
          /\ \A c \in {"id"} : RequestTypes[c] = Integer
          /\ \A c \in {"main_request_uuid", "project"} : RequestTypes[c] = Str(36)
          /\ \A c \in {"uuid", "destination_uuid"} : RequestTypes[c] = Str(36)
          /\ \A c \in {"pending_requests", "type"} : RequestTypes[c] = Integer
          /\ \A c \in {"status"} : RequestTypes[c] = Str(10)
          /\ \A c \in {"action"} : RequestTypes[c] = Str(20)
      BY DEF RequestTypes, RequestNames
    <3>2. /\ \A c \in {"created_at", "updated_at"} : (RequestNulls[c] <= 18) = TRUE
          /\ \A c \in {"id"} : (RequestNulls[c] <= 18) = FALSE
          /\ \A c \in {"main_request_uuid", "project"} : (RequestNulls[c] <= 18) = TRUE
          /\ \A c \in {"uuid", "destination_uuid"} : (RequestNulls[c] <= 18) = FALSE
          /\ \A c \in {"pending_requests", "type"} : (RequestNulls[c] <= 18) = FALSE
          /\ \A c \in {"status"} : (RequestNulls[c] <= 18) = FALSE
          /\ \A c \in {"action"} : (RequestNulls[c] <= 18) = FALSE
      BY DEF RequestNulls, RequestNames
    <3>. HIDE DEF rec
    <3>. QED BY <3>1, <3>2
  <2>2. RequestNames = {"created_at", "updated_at"} \cup {"id"}
          \cup {"main_request_uuid", "project"}
                       \cup {"uuid", "destination_uuid"} \cup {"pending_requests", "type"}
                       \cup {"status"} \cup {"action"}
    BY DEF RequestNames
  <2>3. FieldsAt(18, RequestTypes, RequestNulls) = {at(c) : c \in RequestNames}
    BY NullPlaces DEF FieldsAt
  <2>4. RequestsTable.fields =
          Columned(DateTime, {"created_at", "updated_at"}, TRUE)
          \cup Columned(Integer, {"id"}, FALSE)
          \cup (Columned(Str(36), {"main_request_uuid", "project"}, TRUE)
          \cup (Columned(Str(36), {"uuid", "destination_uuid"}, FALSE)
          \cup Columned(Integer, {"pending_requests", "type"}, FALSE)
          \cup Columned(Str(10), {"status"}, FALSE)
          \cup Columned(Str(20), {"action"}, FALSE)))
    <3>1. RequestsTable.fields =
            (Fields(DateTime, {"created_at", "updated_at"})
              \cup Required(Fields(Integer, {"id"})))
            \cup (Fields(Str(36), {"main_request_uuid", "project"})
                  \cup Required(Fields(Str(36), {"uuid", "destination_uuid"})
                          \cup Fields(Integer, {"pending_requests", "type"})
                          \cup Fields(Str(10), {"status"}) \cup Fields(Str(20), {"action"})))
      BY DEF RequestsTable, Table, Common
    <3>2. Required(Fields(Str(36), {"uuid", "destination_uuid"})
                   \cup Fields(Integer, {"pending_requests", "type"})
                   \cup Fields(Str(10), {"status"}) \cup Fields(Str(20), {"action"}))
          = Required(Fields(Str(36), {"uuid", "destination_uuid"}))
            \cup Required(Fields(Integer, {"pending_requests", "type"}))
            \cup Required(Fields(Str(10), {"status"})) \cup Required(Fields(Str(20), {"action"}))
      <4>1. \A A, B, C, D : Required(A \cup B \cup C \cup D)
                              = Required(A) \cup Required(B) \cup Required(C) \cup Required(D)
        <5>1. ASSUME NEW A, NEW B, NEW C, NEW D
              PROVE  Required(A \cup B \cup C \cup D)
                       = Required(A) \cup Required(B) \cup Required(C) \cup Required(D)
          <6>1. Required(A \cup B \cup C \cup D) = Required(A \cup B \cup C) \cup Required(D)
            BY RequiredAre
          <6>2. Required(A \cup B \cup C) = Required(A \cup B) \cup Required(C)
            BY RequiredAre
          <6>3. Required(A \cup B) = Required(A) \cup Required(B)
            BY RequiredAre
          <6>. QED BY <6>1, <6>2, <6>3
        <5>. QED BY <5>1
      <4>. QED BY <4>1
    <3>3. /\ Fields(DateTime, {"created_at", "updated_at"})
               = Columned(DateTime, {"created_at", "updated_at"}, TRUE)
          /\ Required(Fields(Integer, {"id"})) = Columned(Integer, {"id"}, FALSE)
          /\ Fields(Str(36), {"main_request_uuid", "project"})
               = Columned(Str(36), {"main_request_uuid", "project"}, TRUE)
          /\ Required(Fields(Str(36), {"uuid", "destination_uuid"}))
               = Columned(Str(36), {"uuid", "destination_uuid"}, FALSE)
          /\ Required(Fields(Integer, {"pending_requests", "type"}))
               = Columned(Integer, {"pending_requests", "type"}, FALSE)
          /\ Required(Fields(Str(10), {"status"})) = Columned(Str(10), {"status"}, FALSE)
          /\ Required(Fields(Str(20), {"action"})) = Columned(Str(20), {"action"}, FALSE)
      BY RequiredAre
    <3>. QED BY <3>1, <3>2, <3>3
  <2>. DEFINE img(G) == {at(c) : c \in G}
  <2>5. \A G, H : img(G \cup H) = img(G) \cup img(H)
    OBVIOUS
  <2>6. /\ img({"created_at", "updated_at"})
             = Columned(DateTime, {"created_at", "updated_at"}, TRUE)
        /\ img({"id"}) = Columned(Integer, {"id"}, FALSE)
        /\ img({"main_request_uuid", "project"})
             = Columned(Str(36), {"main_request_uuid", "project"}, TRUE)
        /\ img({"uuid", "destination_uuid"})
             = Columned(Str(36), {"uuid", "destination_uuid"}, FALSE)
        /\ img({"pending_requests", "type"})
             = Columned(Integer, {"pending_requests", "type"}, FALSE)
        /\ img({"status"}) = Columned(Str(10), {"status"}, FALSE)
        /\ img({"action"}) = Columned(Str(20), {"action"}, FALSE)
    <3>1. \A type, names, null : Columned(type, names, null) = {rec(c, type, null) : c \in names}
      BY DEF Columned
    <3>. HIDE DEF at, rec
    <3>. QED BY <2>1, <3>1
  <2>. HIDE DEF img
  <2>7. img(RequestNames) =
          img({"created_at", "updated_at"})
          \cup img({"id"})
          \cup img({"main_request_uuid", "project"})
          \cup img({"uuid", "destination_uuid"})
          \cup img({"pending_requests", "type"})
          \cup img({"status"})
          \cup img({"action"})
    <3>1. img({"created_at", "updated_at"}
                \cup {"id"})
            = img({"created_at", "updated_at"})
              \cup img({"id"})
      BY <2>5
    <3>2. img({"created_at", "updated_at"} \cup {"id"}
                \cup {"main_request_uuid", "project"})
            = img({"created_at", "updated_at"} \cup {"id"})
              \cup img({"main_request_uuid", "project"})
      BY <2>5
    <3>3. img({"created_at", "updated_at"} \cup {"id"} \cup {"main_request_uuid", "project"}
                \cup {"uuid", "destination_uuid"})
            = img({"created_at", "updated_at"} \cup {"id"} \cup {"main_request_uuid", "project"})
              \cup img({"uuid", "destination_uuid"})
      BY <2>5
    <3>4. img({"created_at", "updated_at"} \cup {"id"} \cup {"main_request_uuid", "project"}
            \cup {"uuid", "destination_uuid"}
                \cup {"pending_requests", "type"})
            = img({"created_at", "updated_at"} \cup {"id"} \cup {"main_request_uuid", "project"}
              \cup {"uuid", "destination_uuid"})
              \cup img({"pending_requests", "type"})
      BY <2>5
    <3>5. img({"created_at", "updated_at"} \cup {"id"} \cup {"main_request_uuid", "project"}
            \cup {"uuid", "destination_uuid"} \cup {"pending_requests", "type"}
                \cup {"status"})
            = img({"created_at", "updated_at"} \cup {"id"} \cup {"main_request_uuid", "project"}
              \cup {"uuid", "destination_uuid"} \cup {"pending_requests", "type"})
              \cup img({"status"})
      BY <2>5
    <3>6. img({"created_at", "updated_at"} \cup {"id"} \cup {"main_request_uuid", "project"}
            \cup {"uuid", "destination_uuid"} \cup {"pending_requests", "type"} \cup {"status"}
                \cup {"action"})
            = img({"created_at", "updated_at"} \cup {"id"} \cup {"main_request_uuid", "project"}
              \cup {"uuid", "destination_uuid"} \cup {"pending_requests", "type"} \cup {"status"})
              \cup img({"action"})
      BY <2>5
    <3>. QED BY <2>2, <3>1, <3>2, <3>3, <3>4, <3>5, <3>6
  <2>8. FieldsAt(18, RequestTypes, RequestNulls) = img(RequestNames)
    BY <2>3 DEF img
  <2>. HIDE DEF at
  <2>9. \A a, b, c, d, e, f, g : (a \cup b) \cup (c \cup (d \cup e \cup f \cup g))
                                 = a \cup b \cup c \cup d \cup e \cup f \cup g
    OBVIOUS
  <2>. DEFINE all ==
         Columned(DateTime, {"created_at", "updated_at"}, TRUE)
         \cup Columned(Integer, {"id"}, FALSE)
         \cup Columned(Str(36), {"main_request_uuid", "project"}, TRUE)
         \cup Columned(Str(36), {"uuid", "destination_uuid"}, FALSE)
         \cup Columned(Integer, {"pending_requests", "type"}, FALSE)
         \cup Columned(Str(10), {"status"}, FALSE)
         \cup Columned(Str(20), {"action"}, FALSE)
  <2>10. FieldsAt(18, RequestTypes, RequestNulls) = all
    BY <2>6, <2>7, <2>8
  <2>11. RequestsTable.fields = all
    BY <2>4, <2>9
  <2>. QED BY <2>10, <2>11
<1>2. FieldsAt(19, ResultTypes, ResultNulls) = ResultsTable.fields
  <2>. DEFINE at(c) == rec(c, ResultTypes[c], ResultNulls[c] <= 19)
  <2>1. /\ \A c \in {"created_at", "updated_at"} : at(c) = rec(c, DateTime, TRUE)
        /\ \A c \in {"id"} : at(c) = rec(c, Integer, FALSE)
        /\ \A c \in {"message"} : at(c) = rec(c, Text, TRUE)
        /\ \A c \in {"board_uuid", "request_uuid"} : at(c) = rec(c, Str(36), FALSE)
        /\ \A c \in {"result"} : at(c) = rec(c, Str(10), FALSE)
    <3>1. /\ \A c \in {"created_at", "updated_at"} : ResultTypes[c] = DateTime
          /\ \A c \in {"id"} : ResultTypes[c] = Integer
          /\ \A c \in {"message"} : ResultTypes[c] = Text
          /\ \A c \in {"board_uuid", "request_uuid"} : ResultTypes[c] = Str(36)
          /\ \A c \in {"result"} : ResultTypes[c] = Str(10)
      BY DEF ResultTypes, ResultNames
    <3>2. /\ \A c \in {"created_at", "updated_at"} : (ResultNulls[c] <= 19) = TRUE
          /\ \A c \in {"id"} : (ResultNulls[c] <= 19) = FALSE
          /\ \A c \in {"message"} : (ResultNulls[c] <= 19) = TRUE
          /\ \A c \in {"board_uuid", "request_uuid"} : (ResultNulls[c] <= 19) = FALSE
          /\ \A c \in {"result"} : (ResultNulls[c] <= 19) = FALSE
      BY DEF ResultNulls, ResultNames
    <3>. HIDE DEF rec
    <3>. QED BY <3>1, <3>2
  <2>2. ResultNames = {"created_at", "updated_at"} \cup {"id"} \cup {"message"}
                      \cup {"board_uuid", "request_uuid"} \cup {"result"}
    BY DEF ResultNames
  <2>3. FieldsAt(19, ResultTypes, ResultNulls) = {at(c) : c \in ResultNames}
    BY NullPlaces DEF FieldsAt
  <2>4. ResultsTable.fields =
          Columned(DateTime, {"created_at", "updated_at"}, TRUE)
          \cup Columned(Integer, {"id"}, FALSE)
          \cup (Columned(Text, {"message"}, TRUE)
          \cup (Columned(Str(36), {"board_uuid", "request_uuid"}, FALSE)
          \cup Columned(Str(10), {"result"}, FALSE)))
    <3>1. ResultsTable.fields =
            (Fields(DateTime, {"created_at", "updated_at"})
              \cup Required(Fields(Integer, {"id"})))
            \cup (Fields(Text, {"message"})
                  \cup Required(Fields(Str(36), {"board_uuid", "request_uuid"})
                          \cup Fields(Str(10), {"result"})))
      BY DEF ResultsTable, Table, Common
    <3>2. Required(Fields(Str(36), {"board_uuid", "request_uuid"})
            \cup Fields(Str(10), {"result"}))
          = Required(Fields(Str(36), {"board_uuid", "request_uuid"}))
            \cup Required(Fields(Str(10), {"result"}))
      BY RequiredAre
    <3>3. /\ Fields(DateTime, {"created_at", "updated_at"})
               = Columned(DateTime, {"created_at", "updated_at"}, TRUE)
          /\ Required(Fields(Integer, {"id"})) = Columned(Integer, {"id"}, FALSE)
          /\ Fields(Text, {"message"}) = Columned(Text, {"message"}, TRUE)
          /\ Required(Fields(Str(36), {"board_uuid", "request_uuid"}))
               = Columned(Str(36), {"board_uuid", "request_uuid"}, FALSE)
          /\ Required(Fields(Str(10), {"result"})) = Columned(Str(10), {"result"}, FALSE)
      BY RequiredAre
    <3>. QED BY <3>1, <3>2, <3>3
  <2>. DEFINE img(G) == {at(c) : c \in G}
  <2>5. \A G, H : img(G \cup H) = img(G) \cup img(H)
    OBVIOUS
  <2>6. /\ img({"created_at", "updated_at"})
             = Columned(DateTime, {"created_at", "updated_at"}, TRUE)
        /\ img({"id"}) = Columned(Integer, {"id"}, FALSE)
        /\ img({"message"}) = Columned(Text, {"message"}, TRUE)
        /\ img({"board_uuid", "request_uuid"})
             = Columned(Str(36), {"board_uuid", "request_uuid"}, FALSE)
        /\ img({"result"}) = Columned(Str(10), {"result"}, FALSE)
    <3>1. \A type, names, null : Columned(type, names, null) = {rec(c, type, null) : c \in names}
      BY DEF Columned
    <3>. HIDE DEF at, rec
    <3>. QED BY <2>1, <3>1
  <2>. HIDE DEF img
  <2>7. img(ResultNames) =
          img({"created_at", "updated_at"})
          \cup img({"id"})
          \cup img({"message"})
          \cup img({"board_uuid", "request_uuid"})
          \cup img({"result"})
    <3>1. img({"created_at", "updated_at"}
                \cup {"id"})
            = img({"created_at", "updated_at"})
              \cup img({"id"})
      BY <2>5
    <3>2. img({"created_at", "updated_at"} \cup {"id"}
                \cup {"message"})
            = img({"created_at", "updated_at"} \cup {"id"})
              \cup img({"message"})
      BY <2>5
    <3>3. img({"created_at", "updated_at"} \cup {"id"} \cup {"message"}
                \cup {"board_uuid", "request_uuid"})
            = img({"created_at", "updated_at"} \cup {"id"} \cup {"message"})
              \cup img({"board_uuid", "request_uuid"})
      BY <2>5
    <3>4. img({"created_at", "updated_at"} \cup {"id"} \cup {"message"}
            \cup {"board_uuid", "request_uuid"}
                \cup {"result"})
            = img({"created_at", "updated_at"} \cup {"id"} \cup {"message"}
              \cup {"board_uuid", "request_uuid"})
              \cup img({"result"})
      BY <2>5
    <3>. QED BY <2>2, <3>1, <3>2, <3>3, <3>4
  <2>8. FieldsAt(19, ResultTypes, ResultNulls) = img(ResultNames)
    BY <2>3 DEF img
  <2>. HIDE DEF at
  <2>. QED BY <2>4, <2>6, <2>7, <2>8
<1>. QED BY <1>1, <1>2

(* Each change of requests.                                                *)
LEMMA RequestsSteps ==
  ASSUME NEW n \in {18, 30, 31, 32, 33, 34, 35}, NEW p, p = n - 1, At(p)
  PROVE  \E as : Makes(Op(n), "requests", as) /\ (Becomes("requests", as) => RequestsAt(n)')
<1>. DEFINE as(q) == TableAs(FieldsAt(q, RequestTypes, RequestNulls), RequestsTable.uniques,
                            NumberedKeys(RequestsTable.keys))
<1>1. RequestsAt(p) /\ p \in Nat /\ n = p + 1 /\ 18 <= n
  BY DEF At
<1>2. Becomes("requests", as(n)) => RequestsAt(n)'
  BY <1>1, Others DEF RequestsAt
<1>3. CASE n = 18
  <2>1. /\ RequestsTable.name = "requests"
        /\ RequestsTable.keys = <<To("main_request_uuid", "requests")>>
    BY DEF RequestsTable, Table
  <2>2. RequestsTable.name \notin DOMAIN db
    BY <1>1, <1>3, <2>1 DEF RequestsAt
  <2>3. \A i \in DOMAIN RequestsTable.keys :
          RequestsTable.keys[i].ref[1] \in DOMAIN db \cup {RequestsTable.name}
    <3>1. DOMAIN RequestsTable.keys = {1}
            /\ RequestsTable.keys[1] = To("main_request_uuid", "requests")
      BY <2>1
    <3>2. To("main_request_uuid", "requests").ref[1] = "requests"
      BY KeysRefer
    <3>. QED BY <2>1, <3>1, <3>2
  <2>4. Makes(CreateTable(RequestsTable), RequestsTable.name, Fresh(RequestsTable))
    BY <2>2, <2>3, CreateMakes
  <2>5. Fresh(RequestsTable) = as(18)
    BY FieldsMade DEF Fresh
  <2>. QED BY <1>2, <1>3, <2>1, <2>4, <2>5, OpsAre
<1>4. Is("requests", as(p)) \/ n = 18
  BY <1>1 DEF RequestsAt
<1>5. ASSUME NEW name \in RequestNames, NEW type, RequestTypes[name] = type, n # 18,
             \A c \in RequestNames : RequestNulls[c] = n <=> c = name,
             Op(n) = MadeNull("requests", name, type)
      PROVE  Makes(Op(n), "requests", as(n))
  <2>1. \A c \in DOMAIN RequestTypes : RequestNulls[c] \in Nat
    BY NullPlaces
  <2>. QED BY <1>1, <1>4, <1>5, <2>1, NullStep, NullPlaces
<1>6. CASE n = 30
  <2>1. Op(30) = MadeNull("requests", "action", Str(20))
    <3>1. Op(30) = Deletion(11)
      BY OpsAre
    <3>. QED BY <3>1, DeletionIs
  <2>2. "action" \in RequestNames /\ RequestTypes["action"] = Str(20)
    BY DEF RequestTypes, RequestNames
  <2>3. \A c \in RequestNames : RequestNulls[c] = 30 <=> c = "action"
    BY DEF RequestNulls, RequestNames
  <2>. QED BY <1>2, <1>5, <1>6, <2>1, <2>2, <2>3
<1>7. CASE n = 31
  <2>1. Op(31) = MadeNull("requests", "destination_uuid", Str(36))
    <3>1. Op(31) = Deletion(12)
      BY OpsAre
    <3>. QED BY <3>1, DeletionIs
  <2>2. "destination_uuid" \in RequestNames /\ RequestTypes["destination_uuid"] = Str(36)
    BY DEF RequestTypes, RequestNames
  <2>3. \A c \in RequestNames : RequestNulls[c] = 31 <=> c = "destination_uuid"
    BY DEF RequestNulls, RequestNames
  <2>. QED BY <1>2, <1>5, <1>7, <2>1, <2>2, <2>3
<1>8. CASE n = 32
  <2>1. Op(32) = MadeNull("requests", "pending_requests", Integer)
    <3>1. Op(32) = Deletion(13)
      BY OpsAre
    <3>. QED BY <3>1, DeletionIs
  <2>2. "pending_requests" \in RequestNames /\ RequestTypes["pending_requests"] = Integer
    BY DEF RequestTypes, RequestNames
  <2>3. \A c \in RequestNames : RequestNulls[c] = 32 <=> c = "pending_requests"
    BY DEF RequestNulls, RequestNames
  <2>. QED BY <1>2, <1>5, <1>8, <2>1, <2>2, <2>3
<1>9. CASE n = 33
  <2>1. Op(33) = MadeNull("requests", "status", Str(10))
    <3>1. Op(33) = Deletion(14)
      BY OpsAre
    <3>. QED BY <3>1, DeletionIs
  <2>2. "status" \in RequestNames /\ RequestTypes["status"] = Str(10)
    BY DEF RequestTypes, RequestNames
  <2>3. \A c \in RequestNames : RequestNulls[c] = 33 <=> c = "status"
    BY DEF RequestNulls, RequestNames
  <2>. QED BY <1>2, <1>5, <1>9, <2>1, <2>2, <2>3
<1>10. CASE n = 34
  <2>1. Op(34) = MadeNull("requests", "type", Integer)
    <3>1. Op(34) = Deletion(15)
      BY OpsAre
    <3>. QED BY <3>1, DeletionIs
  <2>2. "type" \in RequestNames /\ RequestTypes["type"] = Integer
    BY DEF RequestTypes, RequestNames
  <2>3. \A c \in RequestNames : RequestNulls[c] = 34 <=> c = "type"
    BY DEF RequestNulls, RequestNames
  <2>. QED BY <1>2, <1>5, <1>10, <2>1, <2>2, <2>3
<1>11. CASE n = 35
  <2>1. Op(35) = MadeNull("requests", "uuid", Str(36))
    <3>1. Op(35) = Deletion(16)
      BY OpsAre
    <3>. QED BY <3>1, DeletionIs
  <2>2. "uuid" \in RequestNames /\ RequestTypes["uuid"] = Str(36)
    BY DEF RequestTypes, RequestNames
  <2>3. \A c \in RequestNames : RequestNulls[c] = 35 <=> c = "uuid"
    BY DEF RequestNulls, RequestNames
  <2>. QED BY <1>2, <1>5, <1>11, <2>1, <2>2, <2>3
<1>. QED BY <1>3, <1>6, <1>7, <1>8, <1>9, <1>10, <1>11

(* Each change of results.                                                 *)
LEMMA ResultsSteps ==
  ASSUME NEW n \in {19, 36, 37, 38, 39, 40}, NEW p, p = n - 1, At(p)
  PROVE  \E as : Makes(Op(n), "results", as) /\ (Becomes("results", as) => ResultsAt(n)')
<1>. DEFINE as(q) == TableAs(FieldsAt(q, ResultTypes, ResultNulls), ResultsTable.uniques,
                            ResultKeys(q))
            all == NumberedKeys(ResultsTable.keys)
            first == <<1, ToBoard("board_uuid", FALSE)>>
            second == <<2, To("request_uuid", "requests")>>
<1>1. ResultsAt(p) /\ p \in Nat /\ n = p + 1 /\ 19 <= n
  BY DEF At
<1>2. Becomes("results", as(n)) => ResultsAt(n)'
  BY <1>1, Others DEF ResultsAt
<1>0. all = {first, second} /\ first[1] = 1 /\ second[1] = 2
  BY KeysOfTables
<1>. HIDE DEF first, second, all
<1>10. /\ ResultKeys(19) = {first, second} /\ ResultKeys(35) = {first, second}
       /\ ResultKeys(36) = {first, second} /\ ResultKeys(37) = {first, second}
       /\ ResultKeys(38) = {first, second} /\ ResultKeys(39) = {second} /\ ResultKeys(40) = {}
  <2>1. \A q : ResultKeys(q) = {k \in all : q < 38 + k[1]}
    BY DEF ResultKeys, all
  <2>. QED BY <1>0, <2>1
<1>3. CASE n = 19
  <2>1. /\ ResultsTable.name = "results"
        /\ ResultsTable.keys = <<ToBoard("board_uuid", FALSE), To("request_uuid", "requests")>>
    BY DEF ResultsTable, Table
  <2>2. ResultsTable.name \notin DOMAIN db
    BY <1>1, <1>3, <2>1 DEF ResultsAt
  <2>3. \A i \in DOMAIN ResultsTable.keys :
          ResultsTable.keys[i].ref[1] \in DOMAIN db \cup {ResultsTable.name}
    <3>1. /\ DOMAIN ResultsTable.keys = {1, 2}
               /\ ResultsTable.keys[1] = ToBoard("board_uuid", FALSE)
          /\ ResultsTable.keys[2] = To("request_uuid", "requests")
      BY <2>1
    <3>2. /\ To("request_uuid", "requests").ref[1] = "requests"
          /\ ToBoard("board_uuid", FALSE).ref[1] = "boards"
      BY KeysRefer
    <3>3. "boards" \in DOMAIN db /\ "requests" \in DOMAIN db
      BY <1>3, TablesThere
    <3>. QED BY <3>1, <3>2, <3>3
  <2>4. Makes(CreateTable(ResultsTable), ResultsTable.name, Fresh(ResultsTable))
    BY <2>2, <2>3, CreateMakes
  <2>5. Fresh(ResultsTable) = as(19)
    BY <1>0, <1>10, FieldsMade DEF Fresh, all
  <2>. QED BY <1>2, <1>3, <2>1, <2>4, <2>5, OpsAre
<1>4. Is("results", as(p)) \/ n = 19
  BY <1>1 DEF ResultsAt
<1>5. ASSUME NEW name \in ResultNames, NEW type, ResultTypes[name] = type, n \in {36, 37, 38},
             \A c \in ResultNames : ResultNulls[c] = n <=> c = name,
             Op(n) = MadeNull("results", name, type)
      PROVE  Makes(Op(n), "results", as(n))
  <2>1. \A c \in DOMAIN ResultTypes : ResultNulls[c] \in Nat
    BY NullPlaces
  <2>2. ResultKeys(p) = ResultKeys(n)
    <3>1. p \in {35, 36, 37}
      BY <1>1, <1>5
    <3>. QED BY <1>5, <1>10, <3>1
  <2>. QED BY <1>1, <1>4, <1>5, <2>1, <2>2, NullStep, NullPlaces
<1>6. CASE n = 36
  <2>1. Op(36) = MadeNull("results", "board_uuid", Str(36))
    <3>1. Op(36) = Deletion(17)
      BY OpsAre
    <3>. QED BY <3>1, DeletionIs
  <2>2. "board_uuid" \in ResultNames /\ ResultTypes["board_uuid"] = Str(36)
    BY DEF ResultTypes, ResultNames
  <2>3. \A c \in ResultNames : ResultNulls[c] = 36 <=> c = "board_uuid"
    BY DEF ResultNulls, ResultNames
  <2>. QED BY <1>2, <1>5, <1>6, <2>1, <2>2, <2>3
<1>7. CASE n = 37
  <2>1. Op(37) = MadeNull("results", "request_uuid", Str(36))
    <3>1. Op(37) = Deletion(18)
      BY OpsAre
    <3>. QED BY <3>1, DeletionIs
  <2>2. "request_uuid" \in ResultNames /\ ResultTypes["request_uuid"] = Str(36)
    BY DEF ResultTypes, ResultNames
  <2>3. \A c \in ResultNames : ResultNulls[c] = 37 <=> c = "request_uuid"
    BY DEF ResultNulls, ResultNames
  <2>. QED BY <1>2, <1>5, <1>7, <2>1, <2>2, <2>3
<1>8. CASE n = 38
  <2>1. Op(38) = MadeNull("results", "result", Str(10))
    <3>1. Op(38) = Deletion(19)
      BY OpsAre
    <3>. QED BY <3>1, DeletionIs
  <2>2. "result" \in ResultNames /\ ResultTypes["result"] = Str(10)
    BY DEF ResultTypes, ResultNames
  <2>3. \A c \in ResultNames : ResultNulls[c] = 38 <=> c = "result"
    BY DEF ResultNulls, ResultNames
  <2>. QED BY <1>2, <1>5, <1>8, <2>1, <2>2, <2>3
<1>11. n \in {39, 40} => FieldsAt(n, ResultTypes, ResultNulls)
         = FieldsAt(p, ResultTypes, ResultNulls)
  BY <1>1, FieldsStay, NullPlaces
<1>12. CASE n = 39
  <2>1. Op(39) = DropKey("results", 1)
    <3>1. Op(39) = Deletion(20)
      BY OpsAre
    <3>. QED BY <3>1, DeletionIs
  <2>2. ResultKeys(p) = {first, second} /\ {first, second} \ {first} = ResultKeys(39)
    <3>1. p = 38 /\ first # second
      BY <1>0, <1>12
    <3>. QED BY <1>10, <3>1
  <2>3. Makes(Op(39), "results", as(39))
    BY <1>0, <1>4, <1>11, <1>12, <2>1, <2>2, DropKeyMakes
  <2>. QED BY <1>2, <1>12, <2>3
<1>13. CASE n = 40
  <2>1. Op(40) = DropKey("results", 2)
    <3>1. Op(40) = Deletion(21)
      BY OpsAre
    <3>. QED BY <3>1, DeletionIs
  <2>2. ResultKeys(p) = {second} /\ {second} \ {second} = ResultKeys(40)
    <3>1. p = 39
      BY <1>13
    <3>. QED BY <1>10, <3>1
  <2>3. Makes(Op(40), "results", as(40))
    BY <1>0, <1>4, <1>11, <1>13, <2>1, <2>2, DropKeyMakes
  <2>. QED BY <1>2, <1>13, <2>3
<1>. QED BY <1>3, <1>6, <1>7, <1>8, <1>12, <1>13

-----------------------------------------------------------------------------
(* The tables after one more change *)

(* The table that a change is about. *)
TableOf(n) ==
  IF n \in {1, 12, 13, 16, 17, 47} THEN "boards"
  ELSE IF n \in {15, 43, 44, 45, 46} THEN "webservices"
  ELSE IF n \in {18, 30, 31, 32, 33, 34, 35} THEN "requests"
  ELSE IF n \in {19, 36, 37, 38, 39, 40} THEN "results"
  ELSE IF n \in {6, 22, 23} THEN "exposed_services"
  ELSE IF n \in {7, 24, 25} THEN "injection_plugins"
  ELSE IF n \in {8, 26, 27} THEN "locations"
  ELSE IF n \in {9, 28, 29} THEN "ports_on_boards"
  ELSE IF n \in {10, 41, 42} THEN "sessions"
  ELSE IF n \in {14, 20, 21} THEN "enabled_webservices"
  ELSE IF n \in {2} THEN "conductors"
  ELSE IF n \in {3} THEN "plugins"
  ELSE IF n \in {4} THEN "services"
  ELSE IF n \in {5} THEN "wampagents"
  ELSE "fleets"
(* What At(n) says of the table t. *)
Own(t, n) ==
  /\ t = "boards" => BoardsAt(n)
  /\ t = "webservices" => WebservicesAt(n)
  /\ t = "requests" => RequestsAt(n)
  /\ t = "results" => ResultsAt(n)
  /\ t = "conductors" => SimpleAt(n, InitConductors, 2)
  /\ t = "plugins" => SimpleAt(n, InitPlugins, 3)
  /\ t = "services" => SimpleAt(n, InitServices, 4)
  /\ t = "wampagents" => SimpleAt(n, InitWampagents, 5)
  /\ t = "fleets" => SimpleAt(n, Fleet, 11)
  /\ t = "exposed_services" => CascadeAt(n, InitExposedServices, 6, 22,
       {<<2, To("service_uuid", "services")>>}, Third)
  /\ t = "injection_plugins" => CascadeAt(n, InitInjectionPlugins, 7, 24,
       {<<2, To("plugin_uuid", "plugins")>>}, Third)
  /\ t = "locations" => CascadeAt(n, InitLocations, 8, 26, {}, ById)
  /\ t = "ports_on_boards" => CascadeAt(n, InitPortsOnBoards, 9, 28, {}, ByUuid)
  /\ t = "sessions" => CascadeAt(n, InitSessions, 10, 41, {}, ById)
  /\ t = "enabled_webservices" => CascadeAt(n, EnabledWebservicesTable, 14, 20, {}, ByUuid)

(* The names of the tables of the revisions.                               *)
LEMMA NamesAre ==
  /\ InitConductors.name = "conductors"
  /\ InitPlugins.name = "plugins"
  /\ InitServices.name = "services"
  /\ InitWampagents.name = "wampagents"
  /\ Fleet.name = "fleets"
  /\ InitExposedServices.name = "exposed_services"
  /\ InitInjectionPlugins.name = "injection_plugins"
  /\ InitLocations.name = "locations"
  /\ InitPortsOnBoards.name = "ports_on_boards"
  /\ InitSessions.name = "sessions"
  /\ EnabledWebservicesTable.name = "enabled_webservices"
  /\ InitConductors.keys = <<>>
  /\ InitPlugins.keys = <<>>
  /\ InitServices.keys = <<>>
  /\ InitWampagents.keys = <<>>
  /\ Fleet.keys = <<>>
BY DEF InitConductors, InitPlugins, InitServices, InitWampagents, Fleet, InitExposedServices,
       InitInjectionPlugins, InitLocations, InitPortsOnBoards, InitSessions,
         EnabledWebservicesTable, Table

(* The other tables stay as they were, and a change is about one table only. *)
LEMMA AtJoins ==
  ASSUME NEW n \in 1 .. 47, NEW p, p = n - 1, At(p), NEW t, t = TableOf(n), NEW as,
         Becomes(t, as),
         Own(t, n)'
  PROVE  At(n)'
<1>1. p \in Nat /\ p \in 0 .. 46 /\ n = p + 1
  OBVIOUS
<1>2. \A u : u # t => Unaffected(u)
  BY Others
<1>3. t \in TableNames
  BY DEF TableOf, TableNames
<1>4. (DOMAIN db \subseteq TableNames)'
  BY <1>3 DEF At, Becomes
<1>5. BoardsAt(n)'
  <2>1. CASE t = "boards"
    BY <2>1 DEF Own
  <2>2. CASE t # "boards"
    <3>1. n \notin {1, 12, 13, 16, 17, 47}
      BY <2>2 DEF TableOf
    <3>2. Unaffected("boards") /\ BoardsAt(p)
      BY <1>2, <2>2 DEF At
    <3>. QED BY <1>1, <3>1, <3>2, BoardsStay
  <2>. QED BY <2>1, <2>2
<1>6. WebservicesAt(n)'
  <2>1. CASE t = "webservices"
    BY <2>1 DEF Own
  <2>2. CASE t # "webservices"
    <3>1. n \notin {15, 43, 44, 45, 46}
      BY <2>2 DEF TableOf
    <3>2. Unaffected("webservices") /\ WebservicesAt(p)
      BY <1>2, <2>2 DEF At
    <3>. QED BY <1>1, <3>1, <3>2, WebservicesStay
  <2>. QED BY <2>1, <2>2
<1>7. RequestsAt(n)'
  <2>1. CASE t = "requests"
    BY <2>1 DEF Own
  <2>2. CASE t # "requests"
    <3>1. n \notin {18, 30, 31, 32, 33, 34, 35}
      BY <2>2 DEF TableOf
    <3>2. Unaffected("requests") /\ RequestsAt(p)
      BY <1>2, <2>2 DEF At
    <3>. QED BY <1>1, <3>1, <3>2, RequestsStay
  <2>. QED BY <2>1, <2>2
<1>8. ResultsAt(n)'
  <2>1. CASE t = "results"
    BY <2>1 DEF Own
  <2>2. CASE t # "results"
    <3>1. n \notin {19, 36, 37, 38, 39, 40}
      BY <2>2 DEF TableOf
    <3>2. Unaffected("results") /\ ResultsAt(p)
      BY <1>2, <2>2 DEF At
    <3>. QED BY <1>1, <3>1, <3>2, ResultsStay
  <2>. QED BY <2>1, <2>2
<1>9. SimpleAt(n, InitConductors, 2)'
  <2>1. CASE t = "conductors"
    BY <2>1 DEF Own
  <2>2. CASE t # "conductors"
    <3>1. n # 2
      BY <2>2 DEF TableOf
    <3>2. Unaffected(InitConductors.name) /\ SimpleAt(p, InitConductors, 2)
      BY <1>2, <2>2, NamesAre DEF At
    <3>. QED BY <1>1, <3>1, <3>2, SimpleStays
  <2>. QED BY <2>1, <2>2
<1>10. SimpleAt(n, InitPlugins, 3)'
  <2>1. CASE t = "plugins"
    BY <2>1 DEF Own
  <2>2. CASE t # "plugins"
    <3>1. n # 3
      BY <2>2 DEF TableOf
    <3>2. Unaffected(InitPlugins.name) /\ SimpleAt(p, InitPlugins, 3)
      BY <1>2, <2>2, NamesAre DEF At
    <3>. QED BY <1>1, <3>1, <3>2, SimpleStays
  <2>. QED BY <2>1, <2>2
<1>11. SimpleAt(n, InitServices, 4)'
  <2>1. CASE t = "services"
    BY <2>1 DEF Own
  <2>2. CASE t # "services"
    <3>1. n # 4
      BY <2>2 DEF TableOf
    <3>2. Unaffected(InitServices.name) /\ SimpleAt(p, InitServices, 4)
      BY <1>2, <2>2, NamesAre DEF At
    <3>. QED BY <1>1, <3>1, <3>2, SimpleStays
  <2>. QED BY <2>1, <2>2
<1>12. SimpleAt(n, InitWampagents, 5)'
  <2>1. CASE t = "wampagents"
    BY <2>1 DEF Own
  <2>2. CASE t # "wampagents"
    <3>1. n # 5
      BY <2>2 DEF TableOf
    <3>2. Unaffected(InitWampagents.name) /\ SimpleAt(p, InitWampagents, 5)
      BY <1>2, <2>2, NamesAre DEF At
    <3>. QED BY <1>1, <3>1, <3>2, SimpleStays
  <2>. QED BY <2>1, <2>2
<1>13. SimpleAt(n, Fleet, 11)'
  <2>1. CASE t = "fleets"
    BY <2>1 DEF Own
  <2>2. CASE t # "fleets"
    <3>1. n # 11
      BY <2>2 DEF TableOf
    <3>2. Unaffected(Fleet.name) /\ SimpleAt(p, Fleet, 11)
      BY <1>2, <2>2, NamesAre DEF At
    <3>. QED BY <1>1, <3>1, <3>2, SimpleStays
  <2>. QED BY <2>1, <2>2
<1>14. CascadeAt(n, InitExposedServices, 6, 22, {<<2, To("service_uuid", "services")>>}, Third)'
  <2>1. CASE t = "exposed_services"
    BY <2>1 DEF Own
  <2>2. CASE t # "exposed_services"
    <3>1. n \notin {6, 22, 22 + 1}
      BY <2>2 DEF TableOf
    <3>2. Unaffected(InitExposedServices.name)
            /\ CascadeAt(p, InitExposedServices, 6, 22, {<<2, To("service_uuid", "services")>>},
                 Third)
      BY <1>2, <2>2, NamesAre DEF At
    <3>. QED BY <1>1, <3>1, <3>2, CascadeStays
  <2>. QED BY <2>1, <2>2
<1>15. CascadeAt(n, InitInjectionPlugins, 7, 24, {<<2, To("plugin_uuid", "plugins")>>}, Third)'
  <2>1. CASE t = "injection_plugins"
    BY <2>1 DEF Own
  <2>2. CASE t # "injection_plugins"
    <3>1. n \notin {7, 24, 24 + 1}
      BY <2>2 DEF TableOf
    <3>2. Unaffected(InitInjectionPlugins.name)
            /\ CascadeAt(p, InitInjectionPlugins, 7, 24, {<<2, To("plugin_uuid", "plugins")>>},
                 Third)
      BY <1>2, <2>2, NamesAre DEF At
    <3>. QED BY <1>1, <3>1, <3>2, CascadeStays
  <2>. QED BY <2>1, <2>2
<1>16. CascadeAt(n, InitLocations, 8, 26, {}, ById)'
  <2>1. CASE t = "locations"
    BY <2>1 DEF Own
  <2>2. CASE t # "locations"
    <3>1. n \notin {8, 26, 26 + 1}
      BY <2>2 DEF TableOf
    <3>2. Unaffected(InitLocations.name) /\ CascadeAt(p, InitLocations, 8, 26, {}, ById)
      BY <1>2, <2>2, NamesAre DEF At
    <3>. QED BY <1>1, <3>1, <3>2, CascadeStays
  <2>. QED BY <2>1, <2>2
<1>17. CascadeAt(n, InitPortsOnBoards, 9, 28, {}, ByUuid)'
  <2>1. CASE t = "ports_on_boards"
    BY <2>1 DEF Own
  <2>2. CASE t # "ports_on_boards"
    <3>1. n \notin {9, 28, 28 + 1}
      BY <2>2 DEF TableOf
    <3>2. Unaffected(InitPortsOnBoards.name) /\ CascadeAt(p, InitPortsOnBoards, 9, 28, {}, ByUuid)
      BY <1>2, <2>2, NamesAre DEF At
    <3>. QED BY <1>1, <3>1, <3>2, CascadeStays
  <2>. QED BY <2>1, <2>2
<1>18. CascadeAt(n, InitSessions, 10, 41, {}, ById)'
  <2>1. CASE t = "sessions"
    BY <2>1 DEF Own
  <2>2. CASE t # "sessions"
    <3>1. n \notin {10, 41, 41 + 1}
      BY <2>2 DEF TableOf
    <3>2. Unaffected(InitSessions.name) /\ CascadeAt(p, InitSessions, 10, 41, {}, ById)
      BY <1>2, <2>2, NamesAre DEF At
    <3>. QED BY <1>1, <3>1, <3>2, CascadeStays
  <2>. QED BY <2>1, <2>2
<1>19. CascadeAt(n, EnabledWebservicesTable, 14, 20, {}, ByUuid)'
  <2>1. CASE t = "enabled_webservices"
    BY <2>1 DEF Own
  <2>2. CASE t # "enabled_webservices"
    <3>1. n \notin {14, 20, 20 + 1}
      BY <2>2 DEF TableOf
    <3>2. Unaffected(EnabledWebservicesTable.name)
            /\ CascadeAt(p, EnabledWebservicesTable, 14, 20, {}, ByUuid)
      BY <1>2, <2>2, NamesAre DEF At
    <3>. QED BY <1>1, <3>1, <3>2, CascadeStays
  <2>. QED BY <2>1, <2>2
<1>. QED BY <1>4, <1>5, <1>6, <1>7, <1>8, <1>9, <1>10, <1>11, <1>12, <1>13, <1>14, <1>15, <1>16,
     <1>17, <1>18, <1>19 DEF At

(* What each change makes of its table, and that it can. *)
LEMMA OwnSteps ==
  ASSUME NEW n \in 1 .. 47, NEW p, p = n - 1, At(p)
  PROVE  \E as : Makes(Op(n), TableOf(n), as) /\ (Becomes(TableOf(n), as) => Own(TableOf(n), n)')
<1>0. p \in Nat /\ n = p + 1
  OBVIOUS
<1>1. CASE n \in {1, 12, 13, 16, 17, 47}
  <2>1. TableOf(n) = "boards"
    BY <1>1 DEF TableOf
  <2>2. BoardsAt(n)' => Own("boards", n)'
    BY DEF Own
  <2>. QED BY <1>1, <2>1, <2>2, BoardsSteps
<1>2. CASE n \in {15, 43, 44, 45, 46}
  <2>1. TableOf(n) = "webservices"
    BY <1>2 DEF TableOf
  <2>2. WebservicesAt(n)' => Own("webservices", n)'
    BY DEF Own
  <2>. QED BY <1>2, <2>1, <2>2, WebservicesSteps
<1>3. CASE n \in {18, 30, 31, 32, 33, 34, 35}
  <2>1. TableOf(n) = "requests"
    BY <1>3 DEF TableOf
  <2>2. RequestsAt(n)' => Own("requests", n)'
    BY DEF Own
  <2>. QED BY <1>3, <2>1, <2>2, RequestsSteps
<1>4. CASE n \in {19, 36, 37, 38, 39, 40}
  <2>1. TableOf(n) = "results"
    BY <1>4 DEF TableOf
  <2>2. ResultsAt(n)' => Own("results", n)'
    BY DEF Own
  <2>. QED BY <1>4, <2>1, <2>2, ResultsSteps
<1>5. CASE n = 2
  <2>1. TableOf(n) = "conductors"
    BY <1>5 DEF TableOf
  <2>2. SimpleAt(n, InitConductors, n)' => Own("conductors", n)'
    BY <1>5 DEF Own
  <2>3. SimpleAt(p, InitConductors, n)
    BY <1>5 DEF At
  <2>4. /\ Makes(CreateTable(InitConductors), InitConductors.name, Fresh(InitConductors))
        /\ Becomes(InitConductors.name, Fresh(InitConductors)) => SimpleAt(n, InitConductors, n)'
    BY <1>0, <2>3, CreateSimple, NamesAre
  <2>. QED BY <1>5, <2>1, <2>2, <2>4, NamesAre, OpsAre
<1>6. CASE n = 3
  <2>1. TableOf(n) = "plugins"
    BY <1>6 DEF TableOf
  <2>2. SimpleAt(n, InitPlugins, n)' => Own("plugins", n)'
    BY <1>6 DEF Own
  <2>3. SimpleAt(p, InitPlugins, n)
    BY <1>6 DEF At
  <2>4. /\ Makes(CreateTable(InitPlugins), InitPlugins.name, Fresh(InitPlugins))
        /\ Becomes(InitPlugins.name, Fresh(InitPlugins)) => SimpleAt(n, InitPlugins, n)'
    BY <1>0, <2>3, CreateSimple, NamesAre
  <2>. QED BY <1>6, <2>1, <2>2, <2>4, NamesAre, OpsAre
<1>7. CASE n = 4
  <2>1. TableOf(n) = "services"
    BY <1>7 DEF TableOf
  <2>2. SimpleAt(n, InitServices, n)' => Own("services", n)'
    BY <1>7 DEF Own
  <2>3. SimpleAt(p, InitServices, n)
    BY <1>7 DEF At
  <2>4. /\ Makes(CreateTable(InitServices), InitServices.name, Fresh(InitServices))
        /\ Becomes(InitServices.name, Fresh(InitServices)) => SimpleAt(n, InitServices, n)'
    BY <1>0, <2>3, CreateSimple, NamesAre
  <2>. QED BY <1>7, <2>1, <2>2, <2>4, NamesAre, OpsAre
<1>8. CASE n = 5
  <2>1. TableOf(n) = "wampagents"
    BY <1>8 DEF TableOf
  <2>2. SimpleAt(n, InitWampagents, n)' => Own("wampagents", n)'
    BY <1>8 DEF Own
  <2>3. SimpleAt(p, InitWampagents, n)
    BY <1>8 DEF At
  <2>4. /\ Makes(CreateTable(InitWampagents), InitWampagents.name, Fresh(InitWampagents))
        /\ Becomes(InitWampagents.name, Fresh(InitWampagents)) => SimpleAt(n, InitWampagents, n)'
    BY <1>0, <2>3, CreateSimple, NamesAre
  <2>. QED BY <1>8, <2>1, <2>2, <2>4, NamesAre, OpsAre
<1>9. CASE n = 11
  <2>1. TableOf(n) = "fleets"
    BY <1>9 DEF TableOf
  <2>2. SimpleAt(n, Fleet, n)' => Own("fleets", n)'
    BY <1>9 DEF Own
  <2>3. SimpleAt(p, Fleet, n)
    BY <1>9 DEF At
  <2>4. /\ Makes(CreateTable(Fleet), Fleet.name, Fresh(Fleet))
        /\ Becomes(Fleet.name, Fresh(Fleet)) => SimpleAt(n, Fleet, n)'
    BY <1>0, <2>3, CreateSimple, NamesAre
  <2>. QED BY <1>9, <2>1, <2>2, <2>4, NamesAre, OpsAre
<1>10. CASE n = 6
  <2>1. TableOf(n) = "exposed_services"
    BY <1>10 DEF TableOf
  <2>2. CascadeAt(n, InitExposedServices, n, 22, {<<2, To("service_uuid", "services")>>}, Third)'
          => Own("exposed_services", n)'
    BY <1>10 DEF Own
  <2>3. CascadeAt(p, InitExposedServices, n, 22, {<<2, To("service_uuid", "services")>>}, Third)
    BY <1>10 DEF At
  <2>4. \A i \in DOMAIN InitExposedServices.keys :
          InitExposedServices.keys[i].ref[1] \in DOMAIN db
    <3>1. InitExposedServices.keys = <<ToBoard("board_uuid", FALSE),
            To("service_uuid", "services")>>
      BY DEF InitExposedServices, Table
    <3>2. /\ DOMAIN InitExposedServices.keys = {1, 2}
          /\ InitExposedServices.keys[1] = ToBoard("board_uuid", FALSE)
          /\ InitExposedServices.keys[2] = To("service_uuid", "services")
      BY <3>1
    <3>3. /\ ToBoard("board_uuid", FALSE).ref[1] = "boards"
          /\ To("service_uuid", "services").ref[1] = "services"
      BY KeysRefer
    <3>4. "boards" \in DOMAIN db /\ "services" \in DOMAIN db
      BY <1>10, TablesThere
    <3>. QED BY <3>2, <3>3, <3>4
  <2>5. /\ Makes(CreateTable(InitExposedServices), InitExposedServices.name,
             Fresh(InitExposedServices))
        /\ Becomes(InitExposedServices.name, Fresh(InitExposedServices))
             => CascadeAt(n, InitExposedServices, n, 22, {<<2, To("service_uuid", "services")>>},
               Third)'
    <3>1. n < 22
      BY <1>10
    <3>. QED BY <1>0, <2>3, <2>4, <3>1, CreateCascade
  <2>. QED BY <1>10, <2>1, <2>2, <2>5, NamesAre, OpsAre
<1>11. CASE n = 22
  <2>1. TableOf(n) = "exposed_services"
    BY <1>11 DEF TableOf
  <2>2. CascadeAt(n, InitExposedServices, 6, n, {<<2, To("service_uuid", "services")>>}, Third)'
          => Own("exposed_services", n)'
    BY <1>11 DEF Own
  <2>3. CascadeAt(p, InitExposedServices, 6, n, {<<2, To("service_uuid", "services")>>}, Third)
    BY <1>11 DEF At
  <2>4. Op(n) = DropKey("exposed_services", 1)
    <3>1. Op(22) = Deletion(3)
      BY OpsAre
    <3>. QED BY <1>11, <3>1, DeletionIs
  <2>5. /\ NumberedKeys(InitExposedServices.keys)
             = {<<2, To("service_uuid", "services")>>} \cup {<<1, ToBoard("board_uuid", FALSE)>>}
        /\ \A k \in {<<2, To("service_uuid", "services")>>} : k[1] # 1
    BY KeysOfTables
  <2>6. /\ Makes(DropKey(InitExposedServices.name, 1), InitExposedServices.name,
             KeyedAs(InitExposedServices, {<<2, To("service_uuid", "services")>>}))
        /\ Becomes(InitExposedServices.name,
             KeyedAs(InitExposedServices, {<<2, To("service_uuid", "services")>>})) =>
             CascadeAt(n, InitExposedServices, 6, n, {<<2, To("service_uuid", "services")>>},
               Third)'
    <3>1. 6 < n
      BY <1>11
    <3>. QED BY <1>0, <2>3, <2>5, <3>1, DropCascade
  <2>. QED BY <2>1, <2>2, <2>4, <2>6, NamesAre
<1>12. CASE n = 23
  <2>. DEFINE new == ToBoard("board_uuid", TRUE)
  <2>1. TableOf(n) = "exposed_services"
    BY <1>12 DEF TableOf
  <2>2. CascadeAt(n, InitExposedServices, 6, p, {<<2, To("service_uuid", "services")>>}, Third)'
          => Own("exposed_services", n)'
    <3>1. p = 22
      BY <1>12
    <3>. QED BY <3>1 DEF Own
  <2>3. CascadeAt(p, InitExposedServices, 6, p, {<<2, To("service_uuid", "services")>>}, Third)
    <3>1. p = 22
      BY <1>12
    <3>. QED BY <3>1 DEF At
  <2>4. Op(n) = AddKey("exposed_services", new)
    <3>1. Op(23) = Deletion(4)
      BY OpsAre
    <3>. QED BY <1>12, <3>1, DeletionIs DEF Remade
  <2>5. Third = <<NextNumber({<<2, To("service_uuid", "services")>>}), new>>
    BY Numbers DEF Third
  <2>6. new.ref[1] \in DOMAIN db
    <3>1. new.ref[1] = "boards"
      BY KeysRefer
    <3>2. "boards" \in DOMAIN db
      BY <1>12, TablesThere
    <3>. QED BY <3>1, <3>2
  <2>7. /\ Makes(AddKey(InitExposedServices.name, new), InitExposedServices.name,
             KeyedAs(InitExposedServices, {<<2, To("service_uuid", "services")>>} \cup {Third}))
        /\ Becomes(InitExposedServices.name,
             KeyedAs(InitExposedServices, {<<2, To("service_uuid", "services")>>}
               \cup {Third})) =>
             CascadeAt(n, InitExposedServices, 6, p, {<<2, To("service_uuid", "services")>>},
               Third)'
    <3>1. 6 < p
      BY <1>12
    <3>. HIDE DEF new
    <3>. QED BY <1>0, <2>3, <2>5, <2>6, <3>1, AddCascade
  <2>. QED BY <2>1, <2>2, <2>4, <2>7, NamesAre
<1>13. CASE n = 7
  <2>1. TableOf(n) = "injection_plugins"
    BY <1>13 DEF TableOf
  <2>2. CascadeAt(n, InitInjectionPlugins, n, 24, {<<2, To("plugin_uuid", "plugins")>>}, Third)'
          => Own("injection_plugins", n)'
    BY <1>13 DEF Own
  <2>3. CascadeAt(p, InitInjectionPlugins, n, 24, {<<2, To("plugin_uuid", "plugins")>>}, Third)
    BY <1>13 DEF At
  <2>4. \A i \in DOMAIN InitInjectionPlugins.keys :
          InitInjectionPlugins.keys[i].ref[1] \in DOMAIN db
    <3>1. InitInjectionPlugins.keys
            = <<ToBoard("board_uuid", FALSE), To("plugin_uuid", "plugins")>>
      BY DEF InitInjectionPlugins, Table
    <3>2. /\ DOMAIN InitInjectionPlugins.keys = {1, 2}
          /\ InitInjectionPlugins.keys[1] = ToBoard("board_uuid", FALSE)
          /\ InitInjectionPlugins.keys[2] = To("plugin_uuid", "plugins")
      BY <3>1
    <3>3. /\ ToBoard("board_uuid", FALSE).ref[1] = "boards"
          /\ To("plugin_uuid", "plugins").ref[1] = "plugins"
      BY KeysRefer
    <3>4. "boards" \in DOMAIN db /\ "plugins" \in DOMAIN db
      BY <1>13, TablesThere
    <3>. QED BY <3>2, <3>3, <3>4
  <2>5. /\ Makes(CreateTable(InitInjectionPlugins), InitInjectionPlugins.name,
             Fresh(InitInjectionPlugins))
        /\ Becomes(InitInjectionPlugins.name, Fresh(InitInjectionPlugins))
             => CascadeAt(n, InitInjectionPlugins, n, 24, {<<2, To("plugin_uuid", "plugins")>>},
               Third)'
    <3>1. n < 24
      BY <1>13
    <3>. QED BY <1>0, <2>3, <2>4, <3>1, CreateCascade
  <2>. QED BY <1>13, <2>1, <2>2, <2>5, NamesAre, OpsAre
<1>14. CASE n = 24
  <2>1. TableOf(n) = "injection_plugins"
    BY <1>14 DEF TableOf
  <2>2. CascadeAt(n, InitInjectionPlugins, 7, n, {<<2, To("plugin_uuid", "plugins")>>}, Third)'
          => Own("injection_plugins", n)'
    BY <1>14 DEF Own
  <2>3. CascadeAt(p, InitInjectionPlugins, 7, n, {<<2, To("plugin_uuid", "plugins")>>}, Third)
    BY <1>14 DEF At
  <2>4. Op(n) = DropKey("injection_plugins", 1)
    <3>1. Op(24) = Deletion(5)
      BY OpsAre
    <3>. QED BY <1>14, <3>1, DeletionIs
  <2>5. /\ NumberedKeys(InitInjectionPlugins.keys)
             = {<<2, To("plugin_uuid", "plugins")>>} \cup {<<1, ToBoard("board_uuid", FALSE)>>}
        /\ \A k \in {<<2, To("plugin_uuid", "plugins")>>} : k[1] # 1
    BY KeysOfTables
  <2>6. /\ Makes(DropKey(InitInjectionPlugins.name, 1), InitInjectionPlugins.name,
             KeyedAs(InitInjectionPlugins, {<<2, To("plugin_uuid", "plugins")>>}))
        /\ Becomes(InitInjectionPlugins.name,
             KeyedAs(InitInjectionPlugins, {<<2, To("plugin_uuid", "plugins")>>})) =>
             CascadeAt(n, InitInjectionPlugins, 7, n, {<<2, To("plugin_uuid", "plugins")>>},
               Third)'
    <3>1. 7 < n
      BY <1>14
    <3>. QED BY <1>0, <2>3, <2>5, <3>1, DropCascade
  <2>. QED BY <2>1, <2>2, <2>4, <2>6, NamesAre
<1>15. CASE n = 25
  <2>. DEFINE new == ToBoard("board_uuid", TRUE)
  <2>1. TableOf(n) = "injection_plugins"
    BY <1>15 DEF TableOf
  <2>2. CascadeAt(n, InitInjectionPlugins, 7, p, {<<2, To("plugin_uuid", "plugins")>>}, Third)'
          => Own("injection_plugins", n)'
    <3>1. p = 24
      BY <1>15
    <3>. QED BY <3>1 DEF Own
  <2>3. CascadeAt(p, InitInjectionPlugins, 7, p, {<<2, To("plugin_uuid", "plugins")>>}, Third)
    <3>1. p = 24
      BY <1>15
    <3>. QED BY <3>1 DEF At
  <2>4. Op(n) = AddKey("injection_plugins", new)
    <3>1. Op(25) = Deletion(6)
      BY OpsAre
    <3>. QED BY <1>15, <3>1, DeletionIs DEF Remade
  <2>5. Third = <<NextNumber({<<2, To("plugin_uuid", "plugins")>>}), new>>
    BY Numbers DEF Third
  <2>6. new.ref[1] \in DOMAIN db
    <3>1. new.ref[1] = "boards"
      BY KeysRefer
    <3>2. "boards" \in DOMAIN db
      BY <1>15, TablesThere
    <3>. QED BY <3>1, <3>2
  <2>7. /\ Makes(AddKey(InitInjectionPlugins.name, new), InitInjectionPlugins.name,
             KeyedAs(InitInjectionPlugins, {<<2, To("plugin_uuid", "plugins")>>} \cup {Third}))
        /\ Becomes(InitInjectionPlugins.name,
             KeyedAs(InitInjectionPlugins, {<<2, To("plugin_uuid", "plugins")>>} \cup {Third})) =>
             CascadeAt(n, InitInjectionPlugins, 7, p, {<<2, To("plugin_uuid", "plugins")>>},
               Third)'
    <3>1. 7 < p
      BY <1>15
    <3>. HIDE DEF new
    <3>. QED BY <1>0, <2>3, <2>5, <2>6, <3>1, AddCascade
  <2>. QED BY <2>1, <2>2, <2>4, <2>7, NamesAre
<1>16. CASE n = 8
  <2>1. TableOf(n) = "locations"
    BY <1>16 DEF TableOf
  <2>2. CascadeAt(n, InitLocations, n, 26, {}, ById)' => Own("locations", n)'
    BY <1>16 DEF Own
  <2>3. CascadeAt(p, InitLocations, n, 26, {}, ById)
    BY <1>16 DEF At
  <2>4. \A i \in DOMAIN InitLocations.keys : InitLocations.keys[i].ref[1] \in DOMAIN db
    <3>1. InitLocations.keys = <<ToBoard("board_id", FALSE)>>
      BY DEF InitLocations, Table
    <3>2. /\ DOMAIN InitLocations.keys = {1}
          /\ InitLocations.keys[1] = ToBoard("board_id", FALSE)
      BY <3>1
    <3>3. /\ ToBoard("board_id", FALSE).ref[1] = "boards"
      BY KeysRefer
    <3>4. "boards" \in DOMAIN db
      BY <1>16, TablesThere
    <3>. QED BY <3>2, <3>3, <3>4
  <2>5. /\ Makes(CreateTable(InitLocations), InitLocations.name, Fresh(InitLocations))
        /\ Becomes(InitLocations.name, Fresh(InitLocations))
             => CascadeAt(n, InitLocations, n, 26, {}, ById)'
    <3>1. n < 26
      BY <1>16
    <3>. QED BY <1>0, <2>3, <2>4, <3>1, CreateCascade
  <2>. QED BY <1>16, <2>1, <2>2, <2>5, NamesAre, OpsAre
<1>17. CASE n = 26
  <2>1. TableOf(n) = "locations"
    BY <1>17 DEF TableOf
  <2>2. CascadeAt(n, InitLocations, 8, n, {}, ById)' => Own("locations", n)'
    BY <1>17 DEF Own
  <2>3. CascadeAt(p, InitLocations, 8, n, {}, ById)
    BY <1>17 DEF At
  <2>4. Op(n) = DropKey("locations", 1)
    <3>1. Op(26) = Deletion(7)
      BY OpsAre
    <3>. QED BY <1>17, <3>1, DeletionIs
  <2>5. /\ NumberedKeys(InitLocations.keys) = {} \cup {<<1, ToBoard("board_id", FALSE)>>}
        /\ \A k \in {} : k[1] # 1
    BY KeysOfTables
  <2>6. /\ Makes(DropKey(InitLocations.name, 1), InitLocations.name, KeyedAs(InitLocations, {}))
        /\ Becomes(InitLocations.name, KeyedAs(InitLocations, {})) =>
             CascadeAt(n, InitLocations, 8, n, {}, ById)'
    <3>1. 8 < n
      BY <1>17
    <3>. QED BY <1>0, <2>3, <2>5, <3>1, DropCascade
  <2>. QED BY <2>1, <2>2, <2>4, <2>6, NamesAre
<1>18. CASE n = 27
  <2>. DEFINE new == ToBoard("board_id", TRUE)
  <2>1. TableOf(n) = "locations"
    BY <1>18 DEF TableOf
  <2>2. CascadeAt(n, InitLocations, 8, p, {}, ById)' => Own("locations", n)'
    <3>1. p = 26
      BY <1>18
    <3>. QED BY <3>1 DEF Own
  <2>3. CascadeAt(p, InitLocations, 8, p, {}, ById)
    <3>1. p = 26
      BY <1>18
    <3>. QED BY <3>1 DEF At
  <2>4. Op(n) = AddKey("locations", new)
    <3>1. Op(27) = Deletion(8)
      BY OpsAre
    <3>. QED BY <1>18, <3>1, DeletionIs DEF Remade
  <2>5. ById = <<NextNumber({}), new>>
    BY Numbers DEF ById
  <2>6. new.ref[1] \in DOMAIN db
    <3>1. new.ref[1] = "boards"
      BY KeysRefer
    <3>2. "boards" \in DOMAIN db
      BY <1>18, TablesThere
    <3>. QED BY <3>1, <3>2
  <2>7. /\ Makes(AddKey(InitLocations.name, new), InitLocations.name,
             KeyedAs(InitLocations, {} \cup {ById}))
        /\ Becomes(InitLocations.name, KeyedAs(InitLocations, {} \cup {ById})) =>
             CascadeAt(n, InitLocations, 8, p, {}, ById)'
    <3>1. 8 < p
      BY <1>18
    <3>. HIDE DEF new
    <3>. QED BY <1>0, <2>3, <2>5, <2>6, <3>1, AddCascade
  <2>. QED BY <2>1, <2>2, <2>4, <2>7, NamesAre
<1>19. CASE n = 9
  <2>1. TableOf(n) = "ports_on_boards"
    BY <1>19 DEF TableOf
  <2>2. CascadeAt(n, InitPortsOnBoards, n, 28, {}, ByUuid)' => Own("ports_on_boards", n)'
    BY <1>19 DEF Own
  <2>3. CascadeAt(p, InitPortsOnBoards, n, 28, {}, ByUuid)
    BY <1>19 DEF At
  <2>4. \A i \in DOMAIN InitPortsOnBoards.keys : InitPortsOnBoards.keys[i].ref[1] \in DOMAIN db
    <3>1. InitPortsOnBoards.keys = <<ToBoard("board_uuid", FALSE)>>
      BY DEF InitPortsOnBoards, Table
    <3>2. /\ DOMAIN InitPortsOnBoards.keys = {1}
          /\ InitPortsOnBoards.keys[1] = ToBoard("board_uuid", FALSE)
      BY <3>1
    <3>3. /\ ToBoard("board_uuid", FALSE).ref[1] = "boards"
      BY KeysRefer
    <3>4. "boards" \in DOMAIN db
      BY <1>19, TablesThere
    <3>. QED BY <3>2, <3>3, <3>4
  <2>5. /\ Makes(CreateTable(InitPortsOnBoards), InitPortsOnBoards.name, Fresh(InitPortsOnBoards))
        /\ Becomes(InitPortsOnBoards.name, Fresh(InitPortsOnBoards))
             => CascadeAt(n, InitPortsOnBoards, n, 28, {}, ByUuid)'
    <3>1. n < 28
      BY <1>19
    <3>. QED BY <1>0, <2>3, <2>4, <3>1, CreateCascade
  <2>. QED BY <1>19, <2>1, <2>2, <2>5, NamesAre, OpsAre
<1>20. CASE n = 28
  <2>1. TableOf(n) = "ports_on_boards"
    BY <1>20 DEF TableOf
  <2>2. CascadeAt(n, InitPortsOnBoards, 9, n, {}, ByUuid)' => Own("ports_on_boards", n)'
    BY <1>20 DEF Own
  <2>3. CascadeAt(p, InitPortsOnBoards, 9, n, {}, ByUuid)
    BY <1>20 DEF At
  <2>4. Op(n) = DropKey("ports_on_boards", 1)
    <3>1. Op(28) = Deletion(9)
      BY OpsAre
    <3>. QED BY <1>20, <3>1, DeletionIs
  <2>5. /\ NumberedKeys(InitPortsOnBoards.keys) = {} \cup {<<1, ToBoard("board_uuid", FALSE)>>}
        /\ \A k \in {} : k[1] # 1
    BY KeysOfTables
  <2>6. /\ Makes(DropKey(InitPortsOnBoards.name, 1), InitPortsOnBoards.name,
             KeyedAs(InitPortsOnBoards, {}))
        /\ Becomes(InitPortsOnBoards.name, KeyedAs(InitPortsOnBoards, {})) =>
             CascadeAt(n, InitPortsOnBoards, 9, n, {}, ByUuid)'
    <3>1. 9 < n
      BY <1>20
    <3>. QED BY <1>0, <2>3, <2>5, <3>1, DropCascade
  <2>. QED BY <2>1, <2>2, <2>4, <2>6, NamesAre
<1>21. CASE n = 29
  <2>. DEFINE new == ToBoard("board_uuid", TRUE)
  <2>1. TableOf(n) = "ports_on_boards"
    BY <1>21 DEF TableOf
  <2>2. CascadeAt(n, InitPortsOnBoards, 9, p, {}, ByUuid)' => Own("ports_on_boards", n)'
    <3>1. p = 28
      BY <1>21
    <3>. QED BY <3>1 DEF Own
  <2>3. CascadeAt(p, InitPortsOnBoards, 9, p, {}, ByUuid)
    <3>1. p = 28
      BY <1>21
    <3>. QED BY <3>1 DEF At
  <2>4. Op(n) = AddKey("ports_on_boards", new)
    <3>1. Op(29) = Deletion(10)
      BY OpsAre
    <3>. QED BY <1>21, <3>1, DeletionIs DEF Remade
  <2>5. ByUuid = <<NextNumber({}), new>>
    BY Numbers DEF ByUuid
  <2>6. new.ref[1] \in DOMAIN db
    <3>1. new.ref[1] = "boards"
      BY KeysRefer
    <3>2. "boards" \in DOMAIN db
      BY <1>21, TablesThere
    <3>. QED BY <3>1, <3>2
  <2>7. /\ Makes(AddKey(InitPortsOnBoards.name, new), InitPortsOnBoards.name,
             KeyedAs(InitPortsOnBoards, {} \cup {ByUuid}))
        /\ Becomes(InitPortsOnBoards.name, KeyedAs(InitPortsOnBoards, {} \cup {ByUuid})) =>
             CascadeAt(n, InitPortsOnBoards, 9, p, {}, ByUuid)'
    <3>1. 9 < p
      BY <1>21
    <3>. HIDE DEF new
    <3>. QED BY <1>0, <2>3, <2>5, <2>6, <3>1, AddCascade
  <2>. QED BY <2>1, <2>2, <2>4, <2>7, NamesAre
<1>22. CASE n = 10
  <2>1. TableOf(n) = "sessions"
    BY <1>22 DEF TableOf
  <2>2. CascadeAt(n, InitSessions, n, 41, {}, ById)' => Own("sessions", n)'
    BY <1>22 DEF Own
  <2>3. CascadeAt(p, InitSessions, n, 41, {}, ById)
    BY <1>22 DEF At
  <2>4. \A i \in DOMAIN InitSessions.keys : InitSessions.keys[i].ref[1] \in DOMAIN db
    <3>1. InitSessions.keys = <<ToBoard("board_id", FALSE)>>
      BY DEF InitSessions, Table
    <3>2. /\ DOMAIN InitSessions.keys = {1}
          /\ InitSessions.keys[1] = ToBoard("board_id", FALSE)
      BY <3>1
    <3>3. /\ ToBoard("board_id", FALSE).ref[1] = "boards"
      BY KeysRefer
    <3>4. "boards" \in DOMAIN db
      BY <1>22, TablesThere
    <3>. QED BY <3>2, <3>3, <3>4
  <2>5. /\ Makes(CreateTable(InitSessions), InitSessions.name, Fresh(InitSessions))
        /\ Becomes(InitSessions.name, Fresh(InitSessions))
             => CascadeAt(n, InitSessions, n, 41, {}, ById)'
    <3>1. n < 41
      BY <1>22
    <3>. QED BY <1>0, <2>3, <2>4, <3>1, CreateCascade
  <2>. QED BY <1>22, <2>1, <2>2, <2>5, NamesAre, OpsAre
<1>23. CASE n = 41
  <2>1. TableOf(n) = "sessions"
    BY <1>23 DEF TableOf
  <2>2. CascadeAt(n, InitSessions, 10, n, {}, ById)' => Own("sessions", n)'
    BY <1>23 DEF Own
  <2>3. CascadeAt(p, InitSessions, 10, n, {}, ById)
    BY <1>23 DEF At
  <2>4. Op(n) = DropKey("sessions", 1)
    <3>1. Op(41) = Deletion(22)
      BY OpsAre
    <3>. QED BY <1>23, <3>1, DeletionIs
  <2>5. /\ NumberedKeys(InitSessions.keys) = {} \cup {<<1, ToBoard("board_id", FALSE)>>}
        /\ \A k \in {} : k[1] # 1
    BY KeysOfTables
  <2>6. /\ Makes(DropKey(InitSessions.name, 1), InitSessions.name, KeyedAs(InitSessions, {}))
        /\ Becomes(InitSessions.name, KeyedAs(InitSessions, {})) =>
             CascadeAt(n, InitSessions, 10, n, {}, ById)'
    <3>1. 10 < n
      BY <1>23
    <3>. QED BY <1>0, <2>3, <2>5, <3>1, DropCascade
  <2>. QED BY <2>1, <2>2, <2>4, <2>6, NamesAre
<1>24. CASE n = 42
  <2>. DEFINE new == ToBoard("board_id", TRUE)
  <2>1. TableOf(n) = "sessions"
    BY <1>24 DEF TableOf
  <2>2. CascadeAt(n, InitSessions, 10, p, {}, ById)' => Own("sessions", n)'
    <3>1. p = 41
      BY <1>24
    <3>. QED BY <3>1 DEF Own
  <2>3. CascadeAt(p, InitSessions, 10, p, {}, ById)
    <3>1. p = 41
      BY <1>24
    <3>. QED BY <3>1 DEF At
  <2>4. Op(n) = AddKey("sessions", new)
    <3>1. Op(42) = Deletion(23)
      BY OpsAre
    <3>. QED BY <1>24, <3>1, DeletionIs DEF Remade
  <2>5. ById = <<NextNumber({}), new>>
    BY Numbers DEF ById
  <2>6. new.ref[1] \in DOMAIN db
    <3>1. new.ref[1] = "boards"
      BY KeysRefer
    <3>2. "boards" \in DOMAIN db
      BY <1>24, TablesThere
    <3>. QED BY <3>1, <3>2
  <2>7. /\ Makes(AddKey(InitSessions.name, new), InitSessions.name,
             KeyedAs(InitSessions, {} \cup {ById}))
        /\ Becomes(InitSessions.name, KeyedAs(InitSessions, {} \cup {ById})) =>
             CascadeAt(n, InitSessions, 10, p, {}, ById)'
    <3>1. 10 < p
      BY <1>24
    <3>. HIDE DEF new
    <3>. QED BY <1>0, <2>3, <2>5, <2>6, <3>1, AddCascade
  <2>. QED BY <2>1, <2>2, <2>4, <2>7, NamesAre
<1>25. CASE n = 14
  <2>1. TableOf(n) = "enabled_webservices"
    BY <1>25 DEF TableOf
  <2>2. CascadeAt(n, EnabledWebservicesTable, n, 20, {}, ByUuid)'
          => Own("enabled_webservices", n)'
    BY <1>25 DEF Own
  <2>3. CascadeAt(p, EnabledWebservicesTable, n, 20, {}, ByUuid)
    BY <1>25 DEF At
  <2>4. \A i \in DOMAIN EnabledWebservicesTable.keys :
          EnabledWebservicesTable.keys[i].ref[1] \in DOMAIN db
    <3>1. EnabledWebservicesTable.keys = <<ToBoard("board_uuid", FALSE)>>
      BY DEF EnabledWebservicesTable, Table
    <3>2. /\ DOMAIN EnabledWebservicesTable.keys = {1}
          /\ EnabledWebservicesTable.keys[1] = ToBoard("board_uuid", FALSE)
      BY <3>1
    <3>3. /\ ToBoard("board_uuid", FALSE).ref[1] = "boards"
      BY KeysRefer
    <3>4. "boards" \in DOMAIN db
      BY <1>25, TablesThere
    <3>. QED BY <3>2, <3>3, <3>4
  <2>5. /\ Makes(CreateTable(EnabledWebservicesTable), EnabledWebservicesTable.name,
             Fresh(EnabledWebservicesTable))
        /\ Becomes(EnabledWebservicesTable.name, Fresh(EnabledWebservicesTable))
             => CascadeAt(n, EnabledWebservicesTable, n, 20, {}, ByUuid)'
    <3>1. n < 20
      BY <1>25
    <3>. QED BY <1>0, <2>3, <2>4, <3>1, CreateCascade
  <2>. QED BY <1>25, <2>1, <2>2, <2>5, NamesAre, OpsAre
<1>26. CASE n = 20
  <2>1. TableOf(n) = "enabled_webservices"
    BY <1>26 DEF TableOf
  <2>2. CascadeAt(n, EnabledWebservicesTable, 14, n, {}, ByUuid)'
          => Own("enabled_webservices", n)'
    BY <1>26 DEF Own
  <2>3. CascadeAt(p, EnabledWebservicesTable, 14, n, {}, ByUuid)
    BY <1>26 DEF At
  <2>4. Op(n) = DropKey("enabled_webservices", 1)
    <3>1. Op(20) = Deletion(1)
      BY OpsAre
    <3>. QED BY <1>26, <3>1, DeletionIs
  <2>5. /\ NumberedKeys(EnabledWebservicesTable.keys)
             = {} \cup {<<1, ToBoard("board_uuid", FALSE)>>}
        /\ \A k \in {} : k[1] # 1
    BY KeysOfTables
  <2>6. /\ Makes(DropKey(EnabledWebservicesTable.name, 1), EnabledWebservicesTable.name,
             KeyedAs(EnabledWebservicesTable, {}))
        /\ Becomes(EnabledWebservicesTable.name, KeyedAs(EnabledWebservicesTable, {})) =>
             CascadeAt(n, EnabledWebservicesTable, 14, n, {}, ByUuid)'
    <3>1. 14 < n
      BY <1>26
    <3>. QED BY <1>0, <2>3, <2>5, <3>1, DropCascade
  <2>. QED BY <2>1, <2>2, <2>4, <2>6, NamesAre
<1>27. CASE n = 21
  <2>. DEFINE new == ToBoard("board_uuid", TRUE)
  <2>1. TableOf(n) = "enabled_webservices"
    BY <1>27 DEF TableOf
  <2>2. CascadeAt(n, EnabledWebservicesTable, 14, p, {}, ByUuid)'
          => Own("enabled_webservices", n)'
    <3>1. p = 20
      BY <1>27
    <3>. QED BY <3>1 DEF Own
  <2>3. CascadeAt(p, EnabledWebservicesTable, 14, p, {}, ByUuid)
    <3>1. p = 20
      BY <1>27
    <3>. QED BY <3>1 DEF At
  <2>4. Op(n) = AddKey("enabled_webservices", new)
    <3>1. Op(21) = Deletion(2)
      BY OpsAre
    <3>. QED BY <1>27, <3>1, DeletionIs DEF Remade
  <2>5. ByUuid = <<NextNumber({}), new>>
    BY Numbers DEF ByUuid
  <2>6. new.ref[1] \in DOMAIN db
    <3>1. new.ref[1] = "boards"
      BY KeysRefer
    <3>2. "boards" \in DOMAIN db
      BY <1>27, TablesThere
    <3>. QED BY <3>1, <3>2
  <2>7. /\ Makes(AddKey(EnabledWebservicesTable.name, new), EnabledWebservicesTable.name,
             KeyedAs(EnabledWebservicesTable, {} \cup {ByUuid}))
        /\ Becomes(EnabledWebservicesTable.name,
             KeyedAs(EnabledWebservicesTable, {} \cup {ByUuid})) =>
             CascadeAt(n, EnabledWebservicesTable, 14, p, {}, ByUuid)'
    <3>1. 14 < p
      BY <1>27
    <3>. HIDE DEF new
    <3>. QED BY <1>0, <2>3, <2>5, <2>6, <3>1, AddCascade
  <2>. QED BY <2>1, <2>2, <2>4, <2>7, NamesAre
<1>. QED BY <1>1, <1>2, <1>3, <1>4, <1>5, <1>6, <1>7, <1>8, <1>9, <1>10, <1>11, <1>12, <1>13,
     <1>14,
            <1>15, <1>16, <1>17, <1>18, <1>19, <1>20, <1>21, <1>22, <1>23, <1>24, <1>25, <1>26,
              <1>27

(* Each change of the revisions, at its place, can be made and leaves the    *)
(* tables as they are to be after it.                                       *)
LEMMA AtStep ==
  ASSUME NEW n \in 1 .. 47, NEW p, p = n - 1, At(p)
  PROVE  CanApply(Op(n)) /\ (db' = Applied(Op(n)) => At(n)')
<1>1. PICK as : Makes(Op(n), TableOf(n), as) /\ (Becomes(TableOf(n), as) => Own(TableOf(n), n)')
  BY OwnSteps
<1>. QED BY <1>1, AtJoins DEF Makes

(* How many changes there are before the revision v + 1. *)
RevisionStarts == <<0, 10, 11, 13, 15, 17, 19, 46, 47>>

(* The places where the revisions start.                                   *)
LEMMA StartsAre ==
  /\ RevisionStarts[1] = 0 /\ RevisionStarts[2] = 10 /\ RevisionStarts[3] = 11
       /\ RevisionStarts[4] = 13 /\ RevisionStarts[5] = 15
  /\ RevisionStarts[6] = 17 /\ RevisionStarts[7] = 19 /\ RevisionStarts[8] = 46
       /\ RevisionStarts[9] = 47
BY DEF RevisionStarts

(* The changes of a revision are those after the ones before it. *)
Follows(v, s) ==
  /\ RevisionStarts[v + 1] + Len(s) = RevisionStarts[v + 2] /\ Len(s) \in 1 .. 27
       /\ RevisionStarts[v + 1] \in 0 .. 46
  /\ \A i \in 1 .. Len(s) : s[i] = Op(RevisionStarts[v + 1] + i)
       /\ RevisionStarts[v + 1] + i \in 1 .. 47

(* The eight revisions are the changes from one start to the next.         *)
LEMMA RevisionsFollow == \A v \in 0 .. 7 : Follows(v, Revisions[v + 1])
<1>1. Follows(0, InitSchema)
  <2>1. DOMAIN InitTables = 1 .. 10
    BY DEF InitTables
  <2>2. InitSchema = [i \in 1 .. 10 |-> CreateTable(InitTables[i])]
    BY <2>1 DEF InitSchema
  <2>3. InitSchema \in Seq({CreateTable(InitTables[i]) : i \in 1 .. 10}) /\ Len(InitSchema) = 10
    BY <2>2
  <2>4. \A i \in 1 .. 10 : InitSchema[i] = Op(i)
    BY DEF Op
  <2>. HIDE DEF InitSchema
  <2>. QED BY <2>3, <2>4, StartsAre DEF Follows
<1>2. Follows(1, AddFleets)
  <2>1. Len(AddFleets) = 1 /\ \A i \in 1 .. 1 : AddFleets[i] = Op(10 + i)
    BY DEF AddFleets, Op
  <2>. QED BY <2>1, StartsAre DEF Follows
<1>3. Follows(2, AddBoardsInFleet)
  <2>1. Len(AddBoardsInFleet) = 2
    BY DEF AddBoardsInFleet
  <2>2. \A i \in 1 .. 2 : AddBoardsInFleet[i] = Op(11 + i)
    BY DEF Op
  <2>. QED BY <2>1, <2>2, StartsAre DEF Follows
<1>4. Follows(3, AddWebservices)
  <2>1. Len(AddWebservices) = 2
    BY DEF AddWebservices
  <2>2. \A i \in 1 .. 2 : AddWebservices[i] = Op(13 + i)
    BY DEF Op
  <2>. QED BY <2>1, <2>2, StartsAre DEF Follows
<1>5. Follows(4, BoardsLrData)
  <2>1. Len(BoardsLrData) = 2
    BY DEF BoardsLrData
  <2>2. \A i \in 1 .. 2 : BoardsLrData[i] = Op(15 + i)
    BY DEF Op
  <2>. QED BY <2>1, <2>2, StartsAre DEF Follows
<1>6. Follows(5, AddResultsRequests)
  <2>1. Len(AddResultsRequests) = 2
    BY DEF AddResultsRequests
  <2>2. \A i \in 1 .. 2 : AddResultsRequests[i] = Op(17 + i)
    BY DEF Op
  <2>. QED BY <2>1, <2>2, StartsAre DEF Follows
<1>7. Follows(6, HardDeviceDelete)
  <2>1. Len(HardDeviceDelete) = 27 /\ \A i \in 1 .. 27 : HardDeviceDelete[i] = Deletion(i)
    BY DeletionParts DEF Part
  <2>2. \A i \in 1 .. 27 : Op(19 + i) = Deletion(i)
    <3>1. \A i \in 1 .. 27 : 19 + i \in 20 .. 46 /\ (19 + i) - 19 = i
      OBVIOUS
    <3>. QED BY <3>1, OpsAre
  <2>. QED BY <2>1, <2>2, StartsAre DEF Follows
<1>8. Follows(7, ExtendedBoardCode)
  <2>1. Len(ExtendedBoardCode) = 1 /\ \A i \in 1 .. 1 : ExtendedBoardCode[i] = Op(46 + i)
    BY DEF ExtendedBoardCode, Op
  <2>. QED BY <2>1, StartsAre DEF Follows
<1>9. /\ Revisions[1] = InitSchema /\ Revisions[2] = AddFleets /\ Revisions[3] = AddBoardsInFleet
      /\ Revisions[4] = AddWebservices /\ Revisions[5] = BoardsLrData
      /\ Revisions[6] = AddResultsRequests /\ Revisions[7] = HardDeviceDelete
      /\ Revisions[8] = ExtendedBoardCode
  BY DEF Revisions
<1>10. ASSUME NEW v \in 0 .. 7 PROVE Follows(v, Revisions[v + 1])
  <2>1. /\ Follows(0, Revisions[0 + 1]) /\ Follows(1, Revisions[1 + 1])
        /\ Follows(2, Revisions[2 + 1]) /\ Follows(3, Revisions[3 + 1])
        /\ Follows(4, Revisions[4 + 1]) /\ Follows(5, Revisions[5 + 1])
        /\ Follows(6, Revisions[6 + 1]) /\ Follows(7, Revisions[7 + 1])
    BY <1>1, <1>2, <1>3, <1>4, <1>5, <1>6, <1>7, <1>8, <1>9
  <2>2. v = 0 \/ v = 1 \/ v = 2 \/ v = 3 \/ v = 4 \/ v = 5 \/ v = 6 \/ v = 7
    OBVIOUS
  <2>. QED BY <2>1, <2>2
<1>. QED BY <1>10

-----------------------------------------------------------------------------
(* The tables after every change are those of the models *)

(* A table of the database, and of the models, as HeadIsModels compares them.*)
ShapeOf(t, as) == Shape(t, as.fields, as.uniques, {k[2] : k \in as.keys})
ShapeOfModel(m) == Shape(m.name, m.fields, m.uniques, {m.keys[i] : i \in DOMAIN m.keys})

(* The names of the models.                                                *)
LEMMA ModelNames ==
  /\ Conductor.name = "conductors" /\ WampAgent.name = "wampagents" /\ Plugin.name = "plugins"
  /\ Service.name = "services" /\ Fleet.name = "fleets" /\ Request.name = "requests"
  /\ Result.name = "results" /\ Board.name = "boards" /\ Location.name = "locations"
  /\ SessionWP.name = "sessions" /\ InjectionPlugin.name = "injection_plugins"
  /\ ExposedService.name = "exposed_services" /\ Port.name = "ports_on_boards"
  /\ Webservice.name = "webservices" /\ EnabledWebservice.name = "enabled_webservices"
BY DEF Conductor, WampAgent, Plugin, Service, Fleet, Request, Result, Board, Location, SessionWP,
       InjectionPlugin, ExposedService, Port, Webservice, EnabledWebservice, Table

(* The models are the tables, and no two have one name.                    *)
LEMMA NamesOfModels ==
  /\ {Models[i].name : i \in DOMAIN Models} = TableNames
  /\ \A i, j \in DOMAIN Models : Models[i].name = Models[j].name => i = j
<1>1. /\ Models[1].name = "conductors" /\ Models[2].name = "wampagents"
           /\ Models[3].name = "plugins"
      /\ Models[4].name = "services" /\ Models[5].name = "fleets" /\ Models[6].name = "requests"
      /\ Models[7].name = "results" /\ Models[8].name = "boards" /\ Models[9].name = "locations"
      /\ Models[10].name = "sessions" /\ Models[11].name = "injection_plugins"
      /\ Models[12].name = "exposed_services" /\ Models[13].name = "ports_on_boards"
      /\ Models[14].name = "webservices" /\ Models[15].name = "enabled_webservices"
  BY ModelPlaces, ModelNames
<1>2. \A i : i \in DOMAIN Models <=> i \in {1, 2, 3, 4, 5, 6, 7, 8, 9, 10, 11, 12, 13, 14, 15}
  BY ModelPlaces
<1>3. {Models[i].name : i \in DOMAIN Models} = TableNames
  BY <1>1, <1>2 DEF TableNames
<1>4. \A i, j \in DOMAIN Models : Models[i].name = Models[j].name => i = j
  BY <1>1, <1>2
<1>. QED BY <1>3, <1>4

KeySet(m) == {m.keys[i] : i \in DOMAIN m.keys}

(* It is enough that each table has the shape of its model. *)
LEMMA ShapesAgree ==
  ASSUME DOMAIN db = TableNames,
         \A i \in DOMAIN Models : ShapeOf(Models[i].name, db[Models[i].name])
           = ShapeOfModel(Models[i])
  PROVE  Built = Modelled
<1>1. DOMAIN Modelled = TableNames
  BY NamesOfModels DEF Modelled
<1>2. ASSUME NEW i \in DOMAIN Models PROVE Modelled[Models[i].name] = ShapeOfModel(Models[i])
  <2>. DEFINE name == Models[i].name
              all  == {Models[j] : j \in DOMAIN Models}
              t    == CHOOSE m \in all : m.name = name
  <2>1. t = Models[i]
    <3>1. \A m \in all : m.name = name => m = Models[i]
      BY NamesOfModels
    <3>2. Models[i] \in all /\ Models[i].name = name
      OBVIOUS
    <3>. HIDE DEF all, name
    <3>. QED BY <3>1, <3>2
  <2>2. Modelled[name] = Shape(name, t.fields, t.uniques, {t.keys[k] : k \in DOMAIN t.keys})
    BY <1>1, NamesOfModels DEF Modelled
  <2>. HIDE DEF t
  <2>. QED BY <2>1, <2>2 DEF ShapeOfModel
<1>3. ASSUME NEW n \in TableNames PROVE Built[n] = Modelled[n]
  <2>1. PICK i \in DOMAIN Models : n = Models[i].name
    BY NamesOfModels
  <2>2. Built[n] = ShapeOf(n, db[n])
    BY DEF Built, ShapeOf
  <2>. QED BY <1>2, <2>1, <2>2
<1>4. DOMAIN Built = TableNames
  BY DEF Built
<1>5. Built = [n \in TableNames |-> Built[n]] /\ Modelled = [n \in TableNames |-> Modelled[n]]
  BY <1>1, <1>4 DEF Built, Modelled
<1>6. [n \in TableNames |-> Built[n]] = [n \in TableNames |-> Modelled[n]]
  BY <1>3
<1>. QED BY <1>5, <1>6

(* A table that create_schema has made has the shape of its model. *)
LEMMA FreshShape ==
  ASSUME NEW m
  PROVE  ShapeOf(m.name, Fresh(m)) = ShapeOfModel(m)
<1>. DEFINE pair(i) == <<i, m.keys[i]>>
<1>1. \A i : pair(i)[2] = m.keys[i]
  OBVIOUS
<1>2. {k[2] : k \in NumberedKeys(m.keys)} = {m.keys[i] : i \in DOMAIN m.keys}
  <2>1. NumberedKeys(m.keys) = {pair(i) : i \in DOMAIN m.keys}
    BY DEF NumberedKeys
  <2>. HIDE DEF pair
  <2>. QED BY <1>1, <2>1
<1>3. Fresh(m).fields = m.fields /\ Fresh(m).uniques = m.uniques
        /\ Fresh(m).keys = NumberedKeys(m.keys)
  BY DEF Fresh, TableAs
<1>. QED BY <1>2, <1>3 DEF ShapeOf, ShapeOfModel

(* A table built as the model says, whatever the numbers of its keys. *)
LEMMA AsModel ==
  ASSUME NEW m, NEW as, as.fields = m.fields, as.uniques = m.uniques,
         {k[2] : k \in as.keys} = KeySet(m)
  PROVE  ShapeOf(m.name, as) = ShapeOfModel(m)
BY DEF ShapeOf, ShapeOfModel, KeySet

(* The same, of a table given by its parts.                                *)
LEMMA AsModelKeyed ==
  ASSUME NEW m, NEW as, NEW F, NEW Q, NEW K, as = TableAs(F, Q, K), F = m.fields, Q = m.uniques,
         {k[2] : k \in K} = KeySet(m)
  PROVE  ShapeOf(m.name, as) = ShapeOfModel(m)
BY AsModel DEF TableAs

(* The keys of a table without their numbers. *)
LEMMA Seconds ==
  /\ {k[2] : k \in {}} = {}
  /\ \A x : {k[2] : k \in {x}} = {x[2]}
  /\ \A x, y : {k[2] : k \in {x} \cup {y}} = {y[2], x[2]}
OBVIOUS

(* The tables of the models and of the revisions side by side. *)
LEMMA SameTables ==
  /\ InitConductors = Conductor /\ InitPlugins = Plugin /\ InitServices = Service
  /\ InitWampagents = WampAgent
BY DEF InitConductors, Conductor, InitPlugins, Plugin, InitServices, Service, InitWampagents,
     WampAgent

(* Of the other tables the columns are those of the models.                *)
LEMMA SameColumns ==
  /\ InitExposedServices.fields = ExposedService.fields
  /\ InitExposedServices.uniques = ExposedService.uniques
  /\ InitInjectionPlugins.fields = InjectionPlugin.fields
  /\ InitInjectionPlugins.uniques = InjectionPlugin.uniques
  /\ InitLocations.fields = Location.fields /\ InitLocations.uniques = Location.uniques
  /\ InitPortsOnBoards.fields = Port.fields /\ InitPortsOnBoards.uniques = Port.uniques
  /\ InitSessions.fields = SessionWP.fields /\ InitSessions.uniques = SessionWP.uniques
  /\ EnabledWebservicesTable.fields = EnabledWebservice.fields
  /\ EnabledWebservicesTable.uniques = EnabledWebservice.uniques
  /\ WebservicesTable.fields = Webservice.fields
  /\ RequestsTable.uniques = Request.uniques /\ ResultsTable.uniques = Result.uniques
<1>1. /\ InitExposedServices.fields = ExposedService.fields
      /\ InitExposedServices.uniques = ExposedService.uniques
  BY DEF InitExposedServices, ExposedService, Table
<1>2. /\ InitInjectionPlugins.fields = InjectionPlugin.fields
      /\ InitInjectionPlugins.uniques = InjectionPlugin.uniques
  BY DEF InitInjectionPlugins, InjectionPlugin, Table
<1>3. /\ InitLocations.fields = Location.fields /\ InitLocations.uniques = Location.uniques
      /\ InitPortsOnBoards.fields = Port.fields /\ InitPortsOnBoards.uniques = Port.uniques
      /\ InitSessions.fields = SessionWP.fields /\ InitSessions.uniques = SessionWP.uniques
  BY DEF InitLocations, Location, InitPortsOnBoards, Port, InitSessions, SessionWP, Table
<1>4. /\ EnabledWebservicesTable.fields = EnabledWebservice.fields
      /\ EnabledWebservicesTable.uniques = EnabledWebservice.uniques
      /\ WebservicesTable.fields = Webservice.fields
  BY DEF EnabledWebservicesTable, EnabledWebservice, WebservicesTable, Webservice, Table
<1>5. RequestsTable.uniques = Request.uniques /\ ResultsTable.uniques = Result.uniques
  BY DEF RequestsTable, Request, ResultsTable, Result, Table
<1>. QED BY <1>1, <1>2, <1>3, <1>4, <1>5

(* The keys of the models.                                                 *)
LEMMA KeysOfModels ==
  /\ KeySet(Board) = {To("fleet", "fleets")}
  /\ KeySet(Location) = {ToBoard("board_id", TRUE)}
  /\ KeySet(SessionWP) = {ToBoard("board_id", TRUE)}
  /\ KeySet(InjectionPlugin) =
       {ToBoard("board_uuid", TRUE), To("plugin_uuid", "plugins")}
  /\ KeySet(ExposedService) =
       {ToBoard("board_uuid", TRUE), To("service_uuid", "services")}
  /\ KeySet(Port) = {ToBoard("board_uuid", TRUE)}
  /\ KeySet(Webservice) = {ToBoard("board_uuid", TRUE)}
  /\ KeySet(EnabledWebservice) = {ToBoard("board_uuid", TRUE)}
  /\ Request.keys = RequestsTable.keys
  /\ KeySet(Result) = {}
<1>1. ASSUME NEW m, NEW a, m.keys = <<a>> PROVE KeySet(m) = {a}
  <2>1. DOMAIN m.keys = {1} /\ m.keys[1] = a
    BY <1>1
  <2>. QED BY <2>1 DEF KeySet
<1>2. ASSUME NEW m, NEW a, NEW b, m.keys = <<a, b>> PROVE KeySet(m) = {a, b}
  <2>1. DOMAIN m.keys = {1, 2} /\ m.keys[1] = a /\ m.keys[2] = b
    BY <1>2
  <2>. QED BY <2>1 DEF KeySet
<1>3. /\ Board.keys = <<To("fleet", "fleets")>>
      /\ Location.keys = <<ToBoard("board_id", TRUE)>>
      /\ SessionWP.keys = <<ToBoard("board_id", TRUE)>>
      /\ InjectionPlugin.keys = <<ToBoard("board_uuid", TRUE), To("plugin_uuid", "plugins")>>
      /\ ExposedService.keys = <<ToBoard("board_uuid", TRUE), To("service_uuid", "services")>>
      /\ Port.keys = <<ToBoard("board_uuid", TRUE)>>
      /\ Webservice.keys = <<ToBoard("board_uuid", TRUE)>>
      /\ EnabledWebservice.keys = <<ToBoard("board_uuid", TRUE)>>
      /\ Request.keys = RequestsTable.keys /\ Result.keys = <<>>
  BY DEF Board, Location, SessionWP, InjectionPlugin, ExposedService, Port, Webservice,
         EnabledWebservice, Request, RequestsTable, Result, Table
<1>4. KeySet(Result) = {}
  BY <1>3 DEF KeySet
<1>5. /\ KeySet(Board) = {To("fleet", "fleets")}
      /\ KeySet(Location) = {ToBoard("board_id", TRUE)}
      /\ KeySet(SessionWP) = {ToBoard("board_id", TRUE)}
      /\ KeySet(Port) = {ToBoard("board_uuid", TRUE)}
      /\ KeySet(Webservice) = {ToBoard("board_uuid", TRUE)}
      /\ KeySet(EnabledWebservice) =
           {ToBoard("board_uuid", TRUE)}
  BY <1>1, <1>3
<1>6. /\ KeySet(InjectionPlugin) =
           {ToBoard("board_uuid", TRUE), To("plugin_uuid", "plugins")}
      /\ KeySet(ExposedService) =
           {ToBoard("board_uuid", TRUE), To("service_uuid", "services")}
  BY <1>2, <1>3
<1>. QED BY <1>3, <1>4, <1>5, <1>6

(* The columns of requests and results after the last change. *)
LEMMA FieldsAtHead ==
  /\ FieldsAt(47, RequestTypes, RequestNulls) = Request.fields
  /\ FieldsAt(47, ResultTypes, ResultNulls) = Result.fields
<1>. DEFINE rec(c, type, null) == [name |-> c, type |-> type, null |-> null]
<1>1. FieldsAt(47, RequestTypes, RequestNulls) = Request.fields
  <2>. DEFINE at(c) == rec(c, RequestTypes[c], RequestNulls[c] <= 47)
  <2>1. /\ \A c \in {"created_at", "updated_at"} : at(c) = rec(c, DateTime, TRUE)
        /\ \A c \in {"id"} : at(c) = rec(c, Integer, FALSE)
        /\ \A c \in {"uuid", "main_request_uuid", "destination_uuid", "project"} :
             at(c) = rec(c, Str(36), TRUE)
        /\ \A c \in {"pending_requests", "type"} : at(c) = rec(c, Integer, TRUE)
        /\ \A c \in {"status"} : at(c) = rec(c, Str(10), TRUE)
        /\ \A c \in {"action"} : at(c) = rec(c, Str(20), TRUE)
    <3>1. /\ \A c \in {"created_at", "updated_at"} : RequestTypes[c] = DateTime
          /\ \A c \in {"id"} : RequestTypes[c] = Integer
          /\ \A c \in {"uuid", "main_request_uuid", "destination_uuid", "project"} :
               RequestTypes[c] = Str(36)
          /\ \A c \in {"pending_requests", "type"} : RequestTypes[c] = Integer
          /\ \A c \in {"status"} : RequestTypes[c] = Str(10)
          /\ \A c \in {"action"} : RequestTypes[c] = Str(20)
      BY DEF RequestTypes, RequestNames
    <3>2. /\ \A c \in {"created_at", "updated_at"} : (RequestNulls[c] <= 47) = TRUE
          /\ \A c \in {"id"} : (RequestNulls[c] <= 47) = FALSE
          /\ \A c \in {"uuid", "main_request_uuid", "destination_uuid", "project"} :
               (RequestNulls[c] <= 47) = TRUE
          /\ \A c \in {"pending_requests", "type"} : (RequestNulls[c] <= 47) = TRUE
          /\ \A c \in {"status"} : (RequestNulls[c] <= 47) = TRUE
          /\ \A c \in {"action"} : (RequestNulls[c] <= 47) = TRUE
      BY DEF RequestNulls, RequestNames
    <3>. HIDE DEF rec
    <3>. QED BY <3>1, <3>2
  <2>2. RequestNames = {"created_at", "updated_at"} \cup {"id"}
          \cup {"uuid", "main_request_uuid", "destination_uuid", "project"}
            \cup {"pending_requests", "type"} \cup {"status"} \cup {"action"}
    BY DEF RequestNames
  <2>3. FieldsAt(47, RequestTypes, RequestNulls) = {at(c) : c \in RequestNames}
    BY NullPlaces DEF FieldsAt
  <2>. DEFINE img(G) == {at(c) : c \in G}
              all ==
         Columned(DateTime, {"created_at", "updated_at"}, TRUE)
         \cup Columned(Integer, {"id"}, FALSE)
         \cup Columned(Str(36), {"uuid", "main_request_uuid", "destination_uuid", "project"},
           TRUE)
         \cup Columned(Integer, {"pending_requests", "type"}, TRUE)
         \cup Columned(Str(10), {"status"}, TRUE)
         \cup Columned(Str(20), {"action"}, TRUE)
  <2>4. Request.fields = all
    <3>1. Request.fields =
            (Fields(DateTime, {"created_at", "updated_at"})
              \cup Required(Fields(Integer, {"id"})))
            \cup (Fields(Str(36), {"uuid", "main_request_uuid", "destination_uuid", "project"})
              \cup Fields(Integer, {"pending_requests", "type"}) \cup Fields(Str(10), {"status"})
                \cup Fields(Str(20), {"action"}))
      BY DEF Request, Table, Common
    <3>2. /\ Fields(DateTime, {"created_at", "updated_at"})
               = Columned(DateTime, {"created_at", "updated_at"}, TRUE)
          /\ Required(Fields(Integer, {"id"})) = Columned(Integer, {"id"}, FALSE)
          /\ Fields(Str(36), {"uuid", "main_request_uuid", "destination_uuid", "project"})
               = Columned(Str(36), {"uuid", "main_request_uuid", "destination_uuid", "project"},
                 TRUE)
          /\ Fields(Integer, {"pending_requests", "type"})
               = Columned(Integer, {"pending_requests", "type"}, TRUE)
          /\ Fields(Str(10), {"status"}) = Columned(Str(10), {"status"}, TRUE)
          /\ Fields(Str(20), {"action"}) = Columned(Str(20), {"action"}, TRUE)
      BY RequiredAre
    <3>3. \A a, b, c, d, e, f : (a \cup b) \cup (c \cup d \cup e \cup f)
            = a \cup b \cup c \cup d \cup e \cup f
      OBVIOUS
    <3>4. Request.fields = (Columned(DateTime, {"created_at", "updated_at"}, TRUE)
            \cup Columned(Integer, {"id"}, FALSE))
            \cup (Columned(Str(36), {"uuid", "main_request_uuid", "destination_uuid", "project"},
              TRUE) \cup Columned(Integer, {"pending_requests", "type"}, TRUE)
                \cup Columned(Str(10), {"status"}, TRUE) \cup Columned(Str(20), {"action"}, TRUE))
      BY <3>1, <3>2
    <3>. QED BY <3>3, <3>4
  <2>5. \A G, H : img(G \cup H) = img(G) \cup img(H)
    OBVIOUS
  <2>6. /\ img({"created_at", "updated_at"})
             = Columned(DateTime, {"created_at", "updated_at"}, TRUE)
        /\ img({"id"}) = Columned(Integer, {"id"}, FALSE)
        /\ img({"uuid", "main_request_uuid", "destination_uuid", "project"})
             = Columned(Str(36), {"uuid", "main_request_uuid", "destination_uuid", "project"},
               TRUE)
        /\ img({"pending_requests", "type"})
             = Columned(Integer, {"pending_requests", "type"}, TRUE)
        /\ img({"status"}) = Columned(Str(10), {"status"}, TRUE)
        /\ img({"action"}) = Columned(Str(20), {"action"}, TRUE)
    <3>1. \A type, names, null : Columned(type, names, null) = {rec(c, type, null) : c \in names}
      BY DEF Columned
    <3>. HIDE DEF at, rec
    <3>. QED BY <2>1, <3>1
  <2>. HIDE DEF img
  <2>7. img(RequestNames) =
          img({"created_at", "updated_at"})
          \cup img({"id"})
          \cup img({"uuid", "main_request_uuid", "destination_uuid", "project"})
          \cup img({"pending_requests", "type"})
          \cup img({"status"})
          \cup img({"action"})
    <3>1. img({"created_at", "updated_at"}
                \cup {"id"})
            = img({"created_at", "updated_at"})
              \cup img({"id"})
      BY <2>5
    <3>2. img({"created_at", "updated_at"} \cup {"id"}
                \cup {"uuid", "main_request_uuid", "destination_uuid", "project"})
            = img({"created_at", "updated_at"} \cup {"id"})
              \cup img({"uuid", "main_request_uuid", "destination_uuid", "project"})
      BY <2>5
    <3>3. img({"created_at", "updated_at"} \cup {"id"}
            \cup {"uuid", "main_request_uuid", "destination_uuid", "project"}
                \cup {"pending_requests", "type"})
            = img({"created_at", "updated_at"} \cup {"id"}
              \cup {"uuid", "main_request_uuid", "destination_uuid", "project"})
              \cup img({"pending_requests", "type"})
      BY <2>5
    <3>4. img({"created_at", "updated_at"} \cup {"id"}
            \cup {"uuid", "main_request_uuid", "destination_uuid", "project"}
              \cup {"pending_requests", "type"}
                \cup {"status"})
            = img({"created_at", "updated_at"} \cup {"id"}
              \cup {"uuid", "main_request_uuid", "destination_uuid", "project"}
                \cup {"pending_requests", "type"})
              \cup img({"status"})
      BY <2>5
    <3>5. img({"created_at", "updated_at"} \cup {"id"}
            \cup {"uuid", "main_request_uuid", "destination_uuid", "project"}
              \cup {"pending_requests", "type"} \cup {"status"}
                \cup {"action"})
            = img({"created_at", "updated_at"} \cup {"id"}
              \cup {"uuid", "main_request_uuid", "destination_uuid", "project"}
                \cup {"pending_requests", "type"} \cup {"status"})
              \cup img({"action"})
      BY <2>5
    <3>. QED BY <2>2, <3>1, <3>2, <3>3, <3>4, <3>5
  <2>8. FieldsAt(47, RequestTypes, RequestNulls) = img(RequestNames)
    BY <2>3 DEF img
  <2>. HIDE DEF at
  <2>9. FieldsAt(47, RequestTypes, RequestNulls) = all
    BY <2>6, <2>7, <2>8
  <2>. QED BY <2>4, <2>9
<1>2. FieldsAt(47, ResultTypes, ResultNulls) = Result.fields
  <2>. DEFINE at(c) == rec(c, ResultTypes[c], ResultNulls[c] <= 47)
  <2>1. /\ \A c \in {"created_at", "updated_at"} : at(c) = rec(c, DateTime, TRUE)
        /\ \A c \in {"id"} : at(c) = rec(c, Integer, FALSE)
        /\ \A c \in {"board_uuid", "request_uuid"} : at(c) = rec(c, Str(36), TRUE)
        /\ \A c \in {"result"} : at(c) = rec(c, Str(10), TRUE)
        /\ \A c \in {"message"} : at(c) = rec(c, Text, TRUE)
    <3>1. /\ \A c \in {"created_at", "updated_at"} : ResultTypes[c] = DateTime
          /\ \A c \in {"id"} : ResultTypes[c] = Integer
          /\ \A c \in {"board_uuid", "request_uuid"} : ResultTypes[c] = Str(36)
          /\ \A c \in {"result"} : ResultTypes[c] = Str(10)
          /\ \A c \in {"message"} : ResultTypes[c] = Text
      BY DEF ResultTypes, ResultNames
    <3>2. /\ \A c \in {"created_at", "updated_at"} : (ResultNulls[c] <= 47) = TRUE
          /\ \A c \in {"id"} : (ResultNulls[c] <= 47) = FALSE
          /\ \A c \in {"board_uuid", "request_uuid"} : (ResultNulls[c] <= 47) = TRUE
          /\ \A c \in {"result"} : (ResultNulls[c] <= 47) = TRUE
          /\ \A c \in {"message"} : (ResultNulls[c] <= 47) = TRUE
      BY DEF ResultNulls, ResultNames
    <3>. HIDE DEF rec
    <3>. QED BY <3>1, <3>2
  <2>2. ResultNames = {"created_at", "updated_at"} \cup {"id"}
          \cup {"board_uuid", "request_uuid"} \cup {"result"} \cup {"message"}
    BY DEF ResultNames
  <2>3. FieldsAt(47, ResultTypes, ResultNulls) = {at(c) : c \in ResultNames}
    BY NullPlaces DEF FieldsAt
  <2>. DEFINE img(G) == {at(c) : c \in G}
              all ==
         Columned(DateTime, {"created_at", "updated_at"}, TRUE)
         \cup Columned(Integer, {"id"}, FALSE)
         \cup Columned(Str(36), {"board_uuid", "request_uuid"}, TRUE)
         \cup Columned(Str(10), {"result"}, TRUE)
         \cup Columned(Text, {"message"}, TRUE)
  <2>4. Result.fields = all
    <3>1. Result.fields =
            (Fields(DateTime, {"created_at", "updated_at"})
              \cup Required(Fields(Integer, {"id"})))
            \cup (Fields(Str(36), {"board_uuid", "request_uuid"})
              \cup Fields(Str(10), {"result"}) \cup Fields(Text, {"message"}))
      BY DEF Result, Table, Common
    <3>2. /\ Fields(DateTime, {"created_at", "updated_at"})
               = Columned(DateTime, {"created_at", "updated_at"}, TRUE)
          /\ Required(Fields(Integer, {"id"})) = Columned(Integer, {"id"}, FALSE)
          /\ Fields(Str(36), {"board_uuid", "request_uuid"})
               = Columned(Str(36), {"board_uuid", "request_uuid"}, TRUE)
          /\ Fields(Str(10), {"result"}) = Columned(Str(10), {"result"}, TRUE)
          /\ Fields(Text, {"message"}) = Columned(Text, {"message"}, TRUE)
      BY RequiredAre
    <3>3. \A a, b, c, d, e : (a \cup b) \cup (c \cup d \cup e) = a \cup b \cup c \cup d \cup e
      OBVIOUS
    <3>4. Result.fields = (Columned(DateTime, {"created_at", "updated_at"}, TRUE)
            \cup Columned(Integer, {"id"}, FALSE))
            \cup (Columned(Str(36), {"board_uuid", "request_uuid"}, TRUE)
              \cup Columned(Str(10), {"result"}, TRUE) \cup Columned(Text, {"message"}, TRUE))
      BY <3>1, <3>2
    <3>. QED BY <3>3, <3>4
  <2>5. \A G, H : img(G \cup H) = img(G) \cup img(H)
    OBVIOUS
  <2>6. /\ img({"created_at", "updated_at"})
             = Columned(DateTime, {"created_at", "updated_at"}, TRUE)
        /\ img({"id"}) = Columned(Integer, {"id"}, FALSE)
        /\ img({"board_uuid", "request_uuid"})
             = Columned(Str(36), {"board_uuid", "request_uuid"}, TRUE)
        /\ img({"result"}) = Columned(Str(10), {"result"}, TRUE)
        /\ img({"message"}) = Columned(Text, {"message"}, TRUE)
    <3>1. \A type, names, null : Columned(type, names, null) = {rec(c, type, null) : c \in names}
      BY DEF Columned
    <3>. HIDE DEF at, rec
    <3>. QED BY <2>1, <3>1
  <2>. HIDE DEF img
  <2>7. img(ResultNames) =
          img({"created_at", "updated_at"})
          \cup img({"id"})
          \cup img({"board_uuid", "request_uuid"})
          \cup img({"result"})
          \cup img({"message"})
    <3>1. img({"created_at", "updated_at"}
                \cup {"id"})
            = img({"created_at", "updated_at"})
              \cup img({"id"})
      BY <2>5
    <3>2. img({"created_at", "updated_at"} \cup {"id"}
                \cup {"board_uuid", "request_uuid"})
            = img({"created_at", "updated_at"} \cup {"id"})
              \cup img({"board_uuid", "request_uuid"})
      BY <2>5
    <3>3. img({"created_at", "updated_at"} \cup {"id"} \cup {"board_uuid", "request_uuid"}
                \cup {"result"})
            = img({"created_at", "updated_at"} \cup {"id"} \cup {"board_uuid", "request_uuid"})
              \cup img({"result"})
      BY <2>5
    <3>4. img({"created_at", "updated_at"} \cup {"id"} \cup {"board_uuid", "request_uuid"}
            \cup {"result"}
                \cup {"message"})
            = img({"created_at", "updated_at"} \cup {"id"} \cup {"board_uuid", "request_uuid"}
              \cup {"result"})
              \cup img({"message"})
      BY <2>5
    <3>. QED BY <2>2, <3>1, <3>2, <3>3, <3>4
  <2>8. FieldsAt(47, ResultTypes, ResultNulls) = img(ResultNames)
    BY <2>3 DEF img
  <2>. HIDE DEF at
  <2>9. FieldsAt(47, ResultTypes, ResultNulls) = all
    BY <2>6, <2>7, <2>8
  <2>. QED BY <2>4, <2>9
<1>. QED BY <1>1, <1>2

(* The columns of boards, which a revision adds one by one; code is another  *)
(* one in the end.                                                          *)
LEMMA BoardsShape == ShapeOf("boards", BoardsAs(WithCode, FleetKeys)) = ShapeOfModel(Board)
<1>. DEFINE code == Column("code", Str(36))
            common == Common \cup Fields(Str(36), {"uuid", "owner", "project"})
                        \cup Fields(Str(15), {"status"})
                          \cup Fields(Str(255), {"name", "type", "agent"})
                        \cup Fields(Boolean, {"mobile"}) \cup Fields(Json, {"config", "extra"})
            even(f) == IF f.name = "code" THEN [f EXCEPT !.null = TRUE] ELSE f
<1>1. \A t, A, B : Fields(t, A \cup B) = Fields(t, A) \cup Fields(t, B)
  BY DEF Fields
<1>2. \A t, c : Fields(t, {c}) = {Column(c, t)}
  BY DEF Fields, Column
<1>3. InitBoards.fields = common \cup {OldCode}
  <2>1. InitBoards.fields =
          Common \cup (Fields(Str(36), {"uuid", "owner", "project"})
            \cup Fields(Str(25), {"code"})
            \cup Fields(Str(15), {"status"}) \cup Fields(Str(255), {"name", "type", "agent"})
            \cup Fields(Boolean, {"mobile"}) \cup Fields(Json, {"config", "extra"}))
    BY DEF InitBoards, Table
  <2>2. Fields(Str(25), {"code"}) = {OldCode}
    BY <1>2 DEF OldCode
  <2>3. \A a, b, c, d, e, f, g : a \cup (b \cup c \cup d \cup e \cup f \cup g)
                                 = (a \cup b \cup d \cup e \cup f \cup g) \cup c
    OBVIOUS
  <2>4. InitBoards.fields =
          Common \cup (Fields(Str(36), {"uuid", "owner", "project"}) \cup {OldCode}
            \cup Fields(Str(15), {"status"}) \cup Fields(Str(255), {"name", "type", "agent"})
            \cup Fields(Boolean, {"mobile"}) \cup Fields(Json, {"config", "extra"}))
    BY <2>1, <2>2
  <2>. QED BY <2>3, <2>4
<1>4. Board.fields = common \cup {code, FleetColumn, LrColumn, ConnColumn}
  <2>1. Board.fields =
          Common \cup (Fields(Str(36), {"uuid", "code", "owner", "project", "fleet"})
            \cup Fields(Str(15), {"status"}) \cup Fields(Str(255), {"name", "type", "agent"})
            \cup Fields(Str(20), {"lr_version"}) \cup Fields(Boolean, {"mobile"})
            \cup Fields(Json, {"connectivity", "config", "extra"}))
    BY DEF Board, Table
  <2>2. Fields(Str(36), {"uuid", "code", "owner", "project", "fleet"})
          = Fields(Str(36), {"uuid", "owner", "project"}) \cup {code, FleetColumn}
    <3>1. {"uuid", "code", "owner", "project", "fleet"}
            = {"uuid", "owner", "project"} \cup ({"code"} \cup {"fleet"})
      OBVIOUS
    <3>2. Fields(Str(36), {"uuid", "owner", "project"} \cup ({"code"} \cup {"fleet"}))
            = Fields(Str(36), {"uuid", "owner", "project"})
              \cup Fields(Str(36), {"code"} \cup {"fleet"})
      BY <1>1
    <3>3. Fields(Str(36), {"code"} \cup {"fleet"})
            = Fields(Str(36), {"code"}) \cup Fields(Str(36), {"fleet"})
      BY <1>1
    <3>4. Fields(Str(36), {"code"}) = {code} /\ Fields(Str(36), {"fleet"}) = {FleetColumn}
      BY <1>2 DEF FleetColumn
    <3>5. {code} \cup {FleetColumn} = {code, FleetColumn}
      OBVIOUS
    <3>. HIDE DEF code
    <3>. QED BY <3>1, <3>2, <3>3, <3>4, <3>5
  <2>3. Fields(Str(20), {"lr_version"}) = {LrColumn}
    BY <1>2 DEF LrColumn
  <2>4. Fields(Json, {"connectivity", "config", "extra"})
          = {ConnColumn} \cup Fields(Json, {"config", "extra"})
    <3>1. {"connectivity", "config", "extra"} = {"connectivity"} \cup {"config", "extra"}
      OBVIOUS
    <3>2. Fields(Json, {"connectivity"} \cup {"config", "extra"})
            = Fields(Json, {"connectivity"}) \cup Fields(Json, {"config", "extra"})
      BY <1>1
    <3>3. Fields(Json, {"connectivity"}) = {ConnColumn}
      BY <1>2 DEF ConnColumn
    <3>. QED BY <3>1, <3>2, <3>3
  <2>5. Board.fields =
          Common \cup ((Fields(Str(36), {"uuid", "owner", "project"}) \cup {code, FleetColumn})
            \cup Fields(Str(15), {"status"}) \cup Fields(Str(255), {"name", "type", "agent"})
            \cup {LrColumn} \cup Fields(Boolean, {"mobile"})
            \cup ({ConnColumn} \cup Fields(Json, {"config", "extra"})))
    BY <2>1, <2>2, <2>3, <2>4
  <2>6. \A a, b, d, e, f, g : \A p, q, r, s :
          a \cup ((b \cup {p, q}) \cup d \cup e \cup {r} \cup f \cup ({s} \cup g))
          = (a \cup b \cup d \cup e \cup f \cup g) \cup {p, q, r, s}
    OBVIOUS
  <2>. HIDE DEF code
  <2>. QED BY <2>5, <2>6
<1>5. \A f \in common : f.name # "code"
  BY DEF Common, Fields, Required
<1>6. /\ even(NewCode) = code /\ even(code) = code /\ even(FleetColumn) = FleetColumn
      /\ even(LrColumn) = LrColumn /\ even(ConnColumn) = ConnColumn
      /\ OldCode.name = "code" /\ code.name = "code" /\ FleetColumn.name # "code"
      /\ LrColumn.name # "code" /\ ConnColumn.name # "code"
  <2>1. /\ NewCode = [name |-> "code", type |-> Str(36), null |-> FALSE]
        /\ code = [name |-> "code", type |-> Str(36), null |-> TRUE]
    BY NullSet DEF NewCode, Column
  <2>2. [NewCode EXCEPT !.null = TRUE] = code /\ [code EXCEPT !.null = TRUE] = code
    BY <2>1, NullSet
  <2>3. NewCode.name = "code" /\ code.name = "code"
    BY <2>1
  <2>. HIDE DEF code
  <2>. QED BY <2>2, <2>3, BoardsFields
<1>. HIDE DEF common, code
<1>7. WithCode = common \cup {NewCode, FleetColumn, LrColumn, ConnColumn}
  <2>1. WithConn = common \cup {OldCode, FleetColumn, LrColumn, ConnColumn}
    BY <1>3 DEF WithConn, WithLr, WithFleet
  <2>2. OldCode \notin common /\ OldCode \notin {FleetColumn, LrColumn, ConnColumn}
    BY <1>5, <1>6
  <2>. QED BY <2>1, <2>2 DEF WithCode
<1>8. {even(f) : f \in WithCode} = {even(f) : f \in Board.fields}
  <2>1. \A f \in common : even(f) = f
    BY <1>5
  <2>. HIDE DEF even
  <2>. QED BY <1>4, <1>6, <1>7, <2>1
<1>9. InitBoards.uniques = Board.uniques
  BY DEF InitBoards, Board, Table, Unique
<1>10. {k[2] : k \in FleetKeys} = KeySet(Board)
  <2>1. <<1, To("fleet", "fleets")>>[2] = To("fleet", "fleets")
    OBVIOUS
  <2>2. {k[2] : k \in FleetKeys} = {To("fleet", "fleets")}
    BY <2>1 DEF FleetKeys
  <2>. QED BY <2>2, KeysOfModels
<1>11. ASSUME NEW F, NEW Q, NEW K
       PROVE  Shape("boards", F, Q, K) = [fields |-> {even(f) : f \in F}, uniques |-> Q,
                keys |-> K]
  BY DEF Shape
<1>. HIDE DEF even
<1>12. ShapeOf("boards", BoardsAs(WithCode, FleetKeys))
         = Shape("boards", WithCode, Board.uniques, KeySet(Board))
  BY <1>9, <1>10 DEF ShapeOf, BoardsAs, TableAs
<1>13. ShapeOfModel(Board) = Shape("boards", Board.fields, Board.uniques, KeySet(Board))
  BY ModelNames DEF ShapeOfModel, KeySet
<1>14. /\ Shape("boards", WithCode, Board.uniques, KeySet(Board))
           = [fields |-> {even(f) : f \in WithCode}, uniques |-> Board.uniques,
             keys |-> KeySet(Board)]
       /\ Shape("boards", Board.fields, Board.uniques, KeySet(Board))
           = [fields |-> {even(f) : f \in Board.fields}, uniques |-> Board.uniques,
             keys |-> KeySet(Board)]
  BY <1>11
<1>. QED BY <1>8, <1>12, <1>13, <1>14

(* The tables that create_schema has made, but for those of todo. *)
CreatedBut(todo) ==
  /\ DOMAIN db = {Models[i].name : i \in DOMAIN Models \ todo}
  /\ \A i \in DOMAIN Models \ todo : Is(Models[i].name, Fresh(Models[i]))

(* After the last change every such key has been made anew.                *)
LEMMA LastCascade ==
  ASSUME NEW def, NEW from, NEW drop \in 1 .. 46, NEW others, NEW key,
         CascadeAt(47, def, from, drop, others, key)
  PROVE  Is(def.name, KeyedAs(def, others \cup {key}))
BY DEF CascadeAt

(* After the last change the tables are those of the models. *)
LEMMA AtHead == ASSUME At(47) PROVE Built = Modelled
<1>. DEFINE ok(m) == m.name \in DOMAIN db /\ ShapeOf(m.name, db[m.name]) = ShapeOfModel(m)
<1>1. ok(Conductor)
  <2>1. SimpleAt(47, InitConductors, 2) /\ InitConductors = Conductor
    BY SameTables DEF At
  <2>2. Is(Conductor.name, Fresh(Conductor))
    BY <2>1 DEF SimpleAt
  <2>. QED BY <2>2, FreshShape DEF Is
<1>2. ok(Plugin)
  <2>1. SimpleAt(47, InitPlugins, 3) /\ InitPlugins = Plugin
    BY SameTables DEF At
  <2>2. Is(Plugin.name, Fresh(Plugin))
    BY <2>1 DEF SimpleAt
  <2>. QED BY <2>2, FreshShape DEF Is
<1>3. ok(Service)
  <2>1. SimpleAt(47, InitServices, 4) /\ InitServices = Service
    BY SameTables DEF At
  <2>2. Is(Service.name, Fresh(Service))
    BY <2>1 DEF SimpleAt
  <2>. QED BY <2>2, FreshShape DEF Is
<1>4. ok(WampAgent)
  <2>1. SimpleAt(47, InitWampagents, 5) /\ InitWampagents = WampAgent
    BY SameTables DEF At
  <2>2. Is(WampAgent.name, Fresh(WampAgent))
    BY <2>1 DEF SimpleAt
  <2>. QED BY <2>2, FreshShape DEF Is
<1>5. ok(Fleet)
  <2>1. SimpleAt(47, Fleet, 11) /\ Fleet = Fleet
    BY SameTables DEF At
  <2>2. Is(Fleet.name, Fresh(Fleet))
    BY <2>1 DEF SimpleAt
  <2>. QED BY <2>2, FreshShape DEF Is
<1>6. ok(ExposedService)
  <2>. DEFINE others == {<<2, To("service_uuid", "services")>>}
              keys   == others \cup {Third}
  <2>1. CascadeAt(47, InitExposedServices, 6, 22, others, Third)
    BY DEF At
  <2>2. Is(InitExposedServices.name, KeyedAs(InitExposedServices, keys))
    <3>1. 22 \in 1 .. 46
      OBVIOUS
    <3>. HIDE DEF others
    <3>. QED BY <2>1, <3>1, LastCascade, Zenon
  <2>3. {x[2] : x \in keys} = KeySet(ExposedService)
    <3>1. PICK x : x = <<2, To("service_uuid", "services")>>
      OBVIOUS
    <3>2. PICK y : y = Third
      OBVIOUS
    <3>3. {y[2], x[2]} = KeySet(ExposedService)
      BY <3>1, <3>2, KeysOfModels DEF Third
    <3>4. {v[2] : v \in {x} \cup {y}} = {y[2], x[2]}
      BY Seconds
    <3>5. keys = {x} \cup {y}
      BY <3>1, <3>2
    <3>. HIDE DEF keys
    <3>. QED BY <3>3, <3>4, <3>5
  <2>. HIDE DEF keys
  <2>4. InitExposedServices.fields = ExposedService.fields
          /\ InitExposedServices.uniques = ExposedService.uniques
               /\ InitExposedServices.name = ExposedService.name
    BY SameColumns, NamesAre, ModelNames
  <2>5. ShapeOf(ExposedService.name, KeyedAs(InitExposedServices, keys))
          = ShapeOfModel(ExposedService)
    BY <2>3, <2>4, AsModelKeyed DEF KeyedAs
  <2>. QED BY <2>2, <2>4, <2>5 DEF Is
<1>7. ok(InjectionPlugin)
  <2>. DEFINE others == {<<2, To("plugin_uuid", "plugins")>>}
              keys   == others \cup {Third}
  <2>1. CascadeAt(47, InitInjectionPlugins, 7, 24, others, Third)
    BY DEF At
  <2>2. Is(InitInjectionPlugins.name, KeyedAs(InitInjectionPlugins, keys))
    <3>1. 24 \in 1 .. 46
      OBVIOUS
    <3>. HIDE DEF others
    <3>. QED BY <2>1, <3>1, LastCascade, Zenon
  <2>3. {x[2] : x \in keys} = KeySet(InjectionPlugin)
    <3>1. PICK x : x = <<2, To("plugin_uuid", "plugins")>>
      OBVIOUS
    <3>2. PICK y : y = Third
      OBVIOUS
    <3>3. {y[2], x[2]} = KeySet(InjectionPlugin)
      BY <3>1, <3>2, KeysOfModels DEF Third
    <3>4. {v[2] : v \in {x} \cup {y}} = {y[2], x[2]}
      BY Seconds
    <3>5. keys = {x} \cup {y}
      BY <3>1, <3>2
    <3>. HIDE DEF keys
    <3>. QED BY <3>3, <3>4, <3>5
  <2>. HIDE DEF keys
  <2>4. InitInjectionPlugins.fields = InjectionPlugin.fields
          /\ InitInjectionPlugins.uniques = InjectionPlugin.uniques
               /\ InitInjectionPlugins.name = InjectionPlugin.name
    BY SameColumns, NamesAre, ModelNames
  <2>5. ShapeOf(InjectionPlugin.name, KeyedAs(InitInjectionPlugins, keys))
          = ShapeOfModel(InjectionPlugin)
    BY <2>3, <2>4, AsModelKeyed DEF KeyedAs
  <2>. QED BY <2>2, <2>4, <2>5 DEF Is
<1>8. ok(Location)
  <2>. DEFINE others == {}
              keys   == others \cup {ById}
  <2>1. CascadeAt(47, InitLocations, 8, 26, others, ById)
    BY DEF At
  <2>2. Is(InitLocations.name, KeyedAs(InitLocations, keys))
    <3>1. 26 \in 1 .. 46
      OBVIOUS
    <3>. HIDE DEF others
    <3>. QED BY <2>1, <3>1, LastCascade, Zenon
  <2>3. {x[2] : x \in keys} = KeySet(Location)
    <3>1. {ById[2]} = KeySet(Location)
      BY KeysOfModels DEF ById
    <3>2. {v[2] : v \in {ById}} = {ById[2]}
      BY Seconds
    <3>3. keys = {ById}
      OBVIOUS
    <3>. HIDE DEF keys
    <3>. QED BY <3>1, <3>2, <3>3
  <2>. HIDE DEF keys
  <2>4. InitLocations.fields = Location.fields /\ InitLocations.uniques = Location.uniques
          /\ InitLocations.name = Location.name
    BY SameColumns, NamesAre, ModelNames
  <2>5. ShapeOf(Location.name, KeyedAs(InitLocations, keys)) = ShapeOfModel(Location)
    BY <2>3, <2>4, AsModelKeyed DEF KeyedAs
  <2>. QED BY <2>2, <2>4, <2>5 DEF Is
<1>9. ok(Port)
  <2>. DEFINE others == {}
              keys   == others \cup {ByUuid}
  <2>1. CascadeAt(47, InitPortsOnBoards, 9, 28, others, ByUuid)
    BY DEF At
  <2>2. Is(InitPortsOnBoards.name, KeyedAs(InitPortsOnBoards, keys))
    <3>1. 28 \in 1 .. 46
      OBVIOUS
    <3>. HIDE DEF others
    <3>. QED BY <2>1, <3>1, LastCascade, Zenon
  <2>3. {x[2] : x \in keys} = KeySet(Port)
    <3>1. {ByUuid[2]} = KeySet(Port)
      BY KeysOfModels DEF ByUuid
    <3>2. {v[2] : v \in {ByUuid}} = {ByUuid[2]}
      BY Seconds
    <3>3. keys = {ByUuid}
      OBVIOUS
    <3>. HIDE DEF keys
    <3>. QED BY <3>1, <3>2, <3>3
  <2>. HIDE DEF keys
  <2>4. InitPortsOnBoards.fields = Port.fields /\ InitPortsOnBoards.uniques = Port.uniques
          /\ InitPortsOnBoards.name = Port.name
    BY SameColumns, NamesAre, ModelNames
  <2>5. ShapeOf(Port.name, KeyedAs(InitPortsOnBoards, keys)) = ShapeOfModel(Port)
    BY <2>3, <2>4, AsModelKeyed DEF KeyedAs
  <2>. QED BY <2>2, <2>4, <2>5 DEF Is
<1>10. ok(SessionWP)
  <2>. DEFINE others == {}
              keys   == others \cup {ById}
  <2>1. CascadeAt(47, InitSessions, 10, 41, others, ById)
    BY DEF At
  <2>2. Is(InitSessions.name, KeyedAs(InitSessions, keys))
    <3>1. 41 \in 1 .. 46
      OBVIOUS
    <3>. HIDE DEF others
    <3>. QED BY <2>1, <3>1, LastCascade, Zenon
  <2>3. {x[2] : x \in keys} = KeySet(SessionWP)
    <3>1. {ById[2]} = KeySet(SessionWP)
      BY KeysOfModels DEF ById
    <3>2. {v[2] : v \in {ById}} = {ById[2]}
      BY Seconds
    <3>3. keys = {ById}
      OBVIOUS
    <3>. HIDE DEF keys
    <3>. QED BY <3>1, <3>2, <3>3
  <2>. HIDE DEF keys
  <2>4. InitSessions.fields = SessionWP.fields /\ InitSessions.uniques = SessionWP.uniques
          /\ InitSessions.name = SessionWP.name
    BY SameColumns, NamesAre, ModelNames
  <2>5. ShapeOf(SessionWP.name, KeyedAs(InitSessions, keys)) = ShapeOfModel(SessionWP)
    BY <2>3, <2>4, AsModelKeyed DEF KeyedAs
  <2>. QED BY <2>2, <2>4, <2>5 DEF Is
<1>11. ok(EnabledWebservice)
  <2>. DEFINE others == {}
              keys   == others \cup {ByUuid}
  <2>1. CascadeAt(47, EnabledWebservicesTable, 14, 20, others, ByUuid)
    BY DEF At
  <2>2. Is(EnabledWebservicesTable.name, KeyedAs(EnabledWebservicesTable, keys))
    <3>1. 20 \in 1 .. 46
      OBVIOUS
    <3>. HIDE DEF others
    <3>. QED BY <2>1, <3>1, LastCascade, Zenon
  <2>3. {x[2] : x \in keys} = KeySet(EnabledWebservice)
    <3>1. {ByUuid[2]} = KeySet(EnabledWebservice)
      BY KeysOfModels DEF ByUuid
    <3>2. {v[2] : v \in {ByUuid}} = {ByUuid[2]}
      BY Seconds
    <3>3. keys = {ByUuid}
      OBVIOUS
    <3>. HIDE DEF keys
    <3>. QED BY <3>1, <3>2, <3>3
  <2>. HIDE DEF keys
  <2>4. EnabledWebservicesTable.fields = EnabledWebservice.fields
          /\ EnabledWebservicesTable.uniques = EnabledWebservice.uniques
               /\ EnabledWebservicesTable.name = EnabledWebservice.name
    BY SameColumns, NamesAre, ModelNames
  <2>5. ShapeOf(EnabledWebservice.name, KeyedAs(EnabledWebservicesTable, keys))
          = ShapeOfModel(EnabledWebservice)
    BY <2>3, <2>4, AsModelKeyed DEF KeyedAs
  <2>. QED BY <2>2, <2>4, <2>5 DEF Is
<1>12. ok(Board)
  <2>1. Is("boards", BoardsAs(WithCode, FleetKeys))
    BY DEF At, BoardsAt
  <2>. QED BY <2>1, BoardsShape, ModelNames DEF Is
<1>13. ok(Webservice)
  <2>1. Is("webservices", WebAs(WithoutOld, {<<1, ToBoard("board_uuid", TRUE)>>}))
    BY DEF At, WebservicesAt
  <2>. DEFINE keys == {<<1, ToBoard("board_uuid", TRUE)>>}
  <2>2. {x[2] : x \in keys} = KeySet(Webservice)
    <3>1. PICK x : x = <<1, ToBoard("board_uuid", TRUE)>>
      OBVIOUS
    <3>2. {x[2]} = KeySet(Webservice)
      BY <3>1, KeysOfModels
    <3>3. {v[2] : v \in {x}} = {x[2]}
      BY Seconds
    <3>4. keys = {x}
      BY <3>1
    <3>. HIDE DEF keys
    <3>. QED BY <3>2, <3>3, <3>4
  <2>. HIDE DEF keys
  <2>3. WithoutOld = Webservice.uniques
    BY DEF WithoutOld, WithNew, WebservicesTable, Webservice, Table, Unique, OldUnique, NewUuid,
         OldUuid
  <2>4. ShapeOf(Webservice.name, WebAs(WithoutOld, keys)) = ShapeOfModel(Webservice)
    BY <2>2, <2>3, SameColumns, AsModelKeyed DEF WebAs
  <2>. QED BY <2>1, <2>4, ModelNames DEF Is, keys
<1>14. ok(Request)
  <2>1. Is("requests", TableAs(FieldsAt(47, RequestTypes, RequestNulls), RequestsTable.uniques,
                              NumberedKeys(RequestsTable.keys)))
    BY DEF At, RequestsAt
  <2>2. TableAs(FieldsAt(47, RequestTypes, RequestNulls), RequestsTable.uniques,
               NumberedKeys(RequestsTable.keys)) = Fresh(Request)
    BY FieldsAtHead, SameColumns, KeysOfModels DEF Fresh
  <2>. QED BY <2>1, <2>2, ModelNames, FreshShape DEF Is
<1>15. ok(Result)
  <2>1. Is("results", TableAs(FieldsAt(47, ResultTypes, ResultNulls), ResultsTable.uniques,
                             ResultKeys(47)))
    BY DEF At, ResultsAt
  <2>2. ResultKeys(47) = {}
    <3>1. \A k \in NumberedKeys(ResultsTable.keys) : k[1] \in {1, 2}
      BY DEF NumberedKeys, ResultsTable, Table
    <3>. QED BY <3>1 DEF ResultKeys
  <2>. DEFINE as == TableAs(FieldsAt(47, ResultTypes, ResultNulls), ResultsTable.uniques,
       ResultKeys(47))
  <2>3. {x[2] : x \in ResultKeys(47)} = KeySet(Result)
    BY <2>2, KeysOfModels, Seconds
  <2>4. ShapeOf(Result.name, as) = ShapeOfModel(Result)
    BY <2>3, FieldsAtHead, SameColumns, AsModelKeyed
  <2>. QED BY <2>1, <2>4, ModelNames DEF Is
<1>16. \A i \in DOMAIN Models : ok(Models[i])
  <2>. HIDE DEF ok
  <2>1. \A i \in DOMAIN Models : i \in {1, 2, 3, 4, 5, 6, 7, 8, 9, 10, 11, 12, 13, 14, 15}
    BY ModelPlaces
  <2>. QED BY <2>1, ModelPlaces, <1>1, <1>2, <1>3, <1>4, <1>5, <1>6, <1>7, <1>8, <1>9,
              <1>10, <1>11, <1>12, <1>13, <1>14, <1>15
<1>17. DOMAIN db = TableNames
  <2>1. TableNames \subseteq DOMAIN db
    BY <1>16, NamesOfModels
  <2>. QED BY <2>1 DEF At
<1>. QED BY <1>16, <1>17, ShapesAgree

(* So are those that create_schema has made. *)
LEMMA CreatedIsModelled == ASSUME CreatedBut({}) PROVE Built = Modelled
<1>1. DOMAIN db = TableNames
  BY NamesOfModels DEF CreatedBut
<1>2. ASSUME NEW i \in DOMAIN Models
      PROVE  ShapeOf(Models[i].name, db[Models[i].name]) = ShapeOfModel(Models[i])
  <2>1. Is(Models[i].name, Fresh(Models[i]))
    BY DEF CreatedBut
  <2>. QED BY <2>1, FreshShape DEF Is
<1>. QED BY <1>1, <1>2, ShapesAgree

-----------------------------------------------------------------------------
(* The invariant behind HeadIsModels *)

VersionIs(v) == rows = (IF v = 0 THEN {} ELSE {v})

(* No command runs, between two revisions or at the last one, ...           *)
Resting ==
  /\ Busy = {}
  /\ \/ \E v \in 0 .. 7 : VersionIs(v) /\ At(RevisionStarts[v + 1])
     \/ VersionIs(8) /\ Built = Modelled

(* ... or one does: upgrade, before its next change, ...                    *)
Upgrading(o) ==
  \E v \in 0 .. 7, i \in 1 .. 28, target \in 1 .. 8 :
    /\ i <= Len(Revisions[v + 1]) + 1 /\ v < target
    /\ job[o] = [kind |-> "upgrade", i |-> i, target |-> target, at |-> v]
    /\ VersionIs(v) /\ At(RevisionStarts[v + 1] + i - 1)

(* ... or create_schema, before and after it has listed the tables.         *)
Begun(o) ==
  /\ job[o] = [kind |-> "create", todo |-> NONE]
  /\ VersionIs(0) /\ At(0)
MakingModels(o) ==
  \E todo \in SUBSET DOMAIN Models :
    /\ job[o] = [kind |-> "create", todo |-> todo]
    /\ VersionIs(0) /\ CreatedBut(todo)
    /\ \A i \in DOMAIN Models \ todo, j \in todo : i < j

HeadInv ==
  \/ broken \/ Resting
  \/ \E o \in Operators : Busy = {o} /\ (Upgrading(o) \/ Begun(o) \/ MakingModels(o))

-----------------------------------------------------------------------------
(* Nothing but the changes of the tables matters to the tables *)

(* What is said of the tables depends on nothing else.                     *)
LEMMA SameDatabase ==
  ASSUME db' = db
  PROVE  /\ \A p : At(p) => At(p)'
         /\ Built' = Built
         /\ \A todo : CreatedBut(todo) => CreatedBut(todo)'
<1>1. DOMAIN db' = DOMAIN db /\ \A t, as : Is(t, as) => Is(t, as)'
  BY DEF Is
<1>2. ASSUME NEW p, At(p) PROVE At(p)'
  <2>1. BoardsAt(p)' /\ WebservicesAt(p)' /\ RequestsAt(p)' /\ ResultsAt(p)'
    BY <1>1, <1>2 DEF At, BoardsAt, WebservicesAt, RequestsAt, ResultsAt
  <2>2. \A def, from : SimpleAt(p, def, from) => SimpleAt(p, def, from)'
    BY <1>1 DEF SimpleAt
  <2>3. \A def, from, drop, others, key :
          CascadeAt(p, def, from, drop, others, key)
            => CascadeAt(p, def, from, drop, others, key)'
    BY <1>1 DEF CascadeAt
  <2>. QED BY <1>1, <1>2, <2>1, <2>2, <2>3 DEF At
<1>3. Built' = Built
  BY DEF Built
<1>4. \A todo : CreatedBut(todo) => CreatedBut(todo)'
  BY <1>1 DEF CreatedBut
<1>. QED BY <1>2, <1>3, <1>4

(* Before the first change there are no tables, and the other way round.   *)
LEMMA AtZero == At(0) <=> DOMAIN db = {}
<1>1. ASSUME DOMAIN db = {} PROVE At(0)
  <2>1. BoardsAt(0) /\ WebservicesAt(0) /\ RequestsAt(0) /\ ResultsAt(0)
    BY <1>1 DEF BoardsAt, WebservicesAt, RequestsAt, ResultsAt
  <2>2. \A def : \A from \in 1 .. 47 : SimpleAt(0, def, from)
    <3>. SUFFICES ASSUME NEW def, NEW from \in 1 .. 47
                  PROVE  SimpleAt(0, def, from)
      OBVIOUS
    <3>1. def.name \notin DOMAIN db
      BY <1>1
    <3>2. ~ from <= 0
      OBVIOUS
    <3>. QED BY <3>1, <3>2 DEF SimpleAt
  <2>3. \A def, others, key : \A from, drop \in 1 .. 47 :
          CascadeAt(0, def, from, drop, others, key)
    BY <1>1 DEF CascadeAt
  <2>. QED BY <1>1, <2>1, <2>2, <2>3 DEF At
<1>2. ASSUME At(0) PROVE DOMAIN db = {}
  <2>1. \A t \in TableNames : t \notin DOMAIN db
    <3>1. /\ "boards" \notin DOMAIN db /\ "webservices" \notin DOMAIN db
          /\ "requests" \notin DOMAIN db /\ "results" \notin DOMAIN db
      BY <1>2 DEF At, BoardsAt, WebservicesAt, RequestsAt, ResultsAt
    <3>2. \A def : \A from \in 1 .. 47 : SimpleAt(0, def, from) => def.name \notin DOMAIN db
      BY DEF SimpleAt
    <3>3. \A def, others, key : \A from, drop \in 1 .. 47 :
            CascadeAt(0, def, from, drop, others, key) => def.name \notin DOMAIN db
      BY DEF CascadeAt
    <3>4. /\ InitConductors.name \notin DOMAIN db /\ InitPlugins.name \notin DOMAIN db
          /\ InitServices.name \notin DOMAIN db /\ InitWampagents.name \notin DOMAIN db
          /\ Fleet.name \notin DOMAIN db
      BY <1>2, <3>2 DEF At
    <3>5. /\ InitExposedServices.name \notin DOMAIN db
               /\ InitInjectionPlugins.name \notin DOMAIN db
          /\ InitLocations.name \notin DOMAIN db /\ InitPortsOnBoards.name \notin DOMAIN db
          /\ InitSessions.name \notin DOMAIN db /\ EnabledWebservicesTable.name \notin DOMAIN db
      BY <1>2, <3>3 DEF At
    <3>. QED BY <3>1, <3>4, <3>5, NamesAre DEF TableNames
  <2>. QED BY <1>2, <2>1 DEF At
<1>. QED BY <1>1, <1>2

(* Who runs a command after a step of o. *)
LEMMA BusyNext ==
  ASSUME NEW o \in Operators, DOMAIN job = Operators, NEW j, job' = [job EXCEPT ![o] = j],
         Busy \subseteq {o}
  PROVE  job'[o] = j /\ (j = NONE => Busy' = {}) /\ (j # NONE => Busy' = {o})
BY DEF Busy

(* NONE is none of the commands. *)
LEMMA NoneIsNoJob ==
  /\ \A v \in 0 .. 7, i \in 1 .. 28, target \in 1 .. 8 :
       [kind |-> "upgrade", i |-> i, target |-> target, at |-> v] # NONE
  /\ \A todo \in SUBSET DOMAIN Models : todo # NONE /\ [kind |-> "create", todo |-> todo] # NONE
  /\ [kind |-> "create", todo |-> NONE] # NONE
BY NoneAssumption, ModelPlaces

(* At most one operator runs a command unless two of them overlap. *)
LEMMA OneIsBusy ==
  ASSUME HeadInv, ~broken, NEW o \in Operators, job[o] # NONE
  PROVE  Busy = {o} /\ (Upgrading(o) \/ Begun(o) \/ MakingModels(o))
BY DEF HeadInv, Resting, Busy

(* Nobody runs a command: the tables are between two revisions.            *)
LEMMA NobodyIsBusy ==
  ASSUME HeadInv, ~broken, Busy = {}
  PROVE  Resting
BY DEF HeadInv

(* The change an upgrade is at is the one the tables are ready for.         *)
LEMMA UpgradeAt ==
  ASSUME NEW v \in 0 .. 7, NEW i \in 1 .. 28, NEW s, s = Revisions[v + 1],
         i <= Len(s) + 1, At(RevisionStarts[v + 1] + i - 1)
  PROVE  /\ i <= Len(s) => LET n == RevisionStarts[v + 1] + i
                           IN  s[i] = Op(n) /\ n \in 1 .. 47 /\ At(n - 1)
         /\ i > Len(s) => At(RevisionStarts[v + 2])
<1>1. Follows(v, s)
  BY RevisionsFollow
<1>2. CASE i <= Len(s)
  <2>1. RevisionStarts[v + 1] \in 0 .. 46 /\ Len(s) \in 1 .. 27
    BY <1>1 DEF Follows
  <2>2. i \in 1 .. Len(s)
    BY <1>2, <2>1
  <2>3. \A a \in 0 .. 46 : (a + i) - 1 = a + i - 1
    OBVIOUS
  <2>4. (RevisionStarts[v + 1] + i) - 1 = RevisionStarts[v + 1] + i - 1
    BY <2>1, <2>3
  <2>5. s[i] = Op(RevisionStarts[v + 1] + i) /\ RevisionStarts[v + 1] + i \in 1 .. 47
    BY <1>1, <2>2 DEF Follows
  <2>. QED BY <1>2, <2>1, <2>2, <2>4, <2>5
<1>3. CASE i > Len(s)
  <2>1. i = Len(s) + 1
    <3>1. Len(s) \in 1 .. 27
      BY <1>1 DEF Follows
    <3>2. \A b \in 1 .. 27 : i <= b + 1 /\ i > b => i = b + 1
      OBVIOUS
    <3>. QED BY <1>3, <3>1, <3>2
  <2>2. RevisionStarts[v + 1] + i - 1 = RevisionStarts[v + 2]
    BY <1>1, <2>1 DEF Follows
  <2>. QED BY <1>3, <1>1, <2>2 DEF Follows
<1>. QED BY <1>1, <1>2, <1>3 DEF Follows

-----------------------------------------------------------------------------
(* The steps of the commands *)

(* Nothing is there yet.                                                    *)
LEMMA HeadInit == InitDatabase => HeadInv
<1>. SUFFICES ASSUME InitDatabase PROVE HeadInv
  OBVIOUS
<1>1. DOMAIN db = {} /\ rows = {} /\ Busy = {}
  BY DEF InitDatabase, Busy
<1>2. VersionIs(0) /\ At(RevisionStarts[0 + 1])
  BY <1>1, AtZero, StartsAre DEF VersionIs
<1>. QED BY <1>1, <1>2 DEF HeadInv, Resting

(* What is to be shown of an upgrade that goes on.                          *)
LEMMA UpgradeGoesOn ==
  ASSUME NEW o \in Operators, NEW v \in 0 .. 7, NEW i \in 1 .. 28, NEW target \in 1 .. 8,
         i <= Len(Revisions[v + 1]) + 1, v < target,
         job'[o] = [kind |-> "upgrade", i |-> i, target |-> target, at |-> v],
         VersionIs(v)', At(RevisionStarts[v + 1] + i - 1)', Busy' = {o}
  PROVE  HeadInv'
<1>1. Upgrading(o)'
  BY DEF Upgrading
<1>. QED BY <1>1 DEF HeadInv

(* An upgrade starts where the commands before it have stopped.             *)
LEMMA UpgradeHead ==
  ASSUME SchemaInv, HeadInv, ~broken', NEW o \in Operators, NEW target \in DOMAIN Revisions,
         Upgrade(o, target)
  PROVE  HeadInv'
<1>1. /\ \A v \in rows : target > v
      /\ broken' = (broken \/ Busy # {}) /\ rows' = rows /\ db' = db
      /\ job' = [job EXCEPT ![o] =
                   [kind |-> "upgrade", i |-> 1, target |-> target,
                    at |-> IF rows = {} THEN 0 ELSE CHOOSE v \in rows : TRUE]]
  BY DEF Upgrade, Begin
<1>2. ~broken /\ Busy = {}
  BY <1>1
<1>3. Resting
  BY <1>2, NobodyIsBusy
<1>4. target \in 1 .. 8
  BY RevisionFacts
<1>5. ~VersionIs(8)
  BY <1>1, <1>4 DEF VersionIs
<1>6. PICK v \in 0 .. 7 : VersionIs(v) /\ At(RevisionStarts[v + 1])
  BY <1>3, <1>5 DEF Resting
<1>7. v < target /\ v = IF rows = {} THEN 0 ELSE CHOOSE w \in rows : TRUE
  BY <1>1, <1>4, <1>6 DEF VersionIs
<1>. DEFINE j == [kind |-> "upgrade", i |-> 1, target |-> target, at |-> v]
<1>8. job' = [job EXCEPT ![o] = j]
  BY <1>1, <1>7
<1>9. j # NONE
  BY <1>4, NoneIsNoJob
<1>10. DOMAIN job = Operators
  BY DEF SchemaInv, SchemaTypeOK
<1>. HIDE DEF j
<1>11. job'[o] = j /\ Busy' = {o}
  BY <1>2, <1>8, <1>9, <1>10, BusyNext
<1>12. Follows(v, Revisions[v + 1])
  BY RevisionsFollow
<1>13. 1 <= Len(Revisions[v + 1]) + 1 /\ RevisionStarts[v + 1] + 1 - 1 = RevisionStarts[v + 1]
  <2>1. Len(Revisions[v + 1]) \in 1 .. 27 /\ RevisionStarts[v + 1] \in 0 .. 46
    BY <1>12 DEF Follows
  <2>2. /\ \A a \in 0 .. 46 : a + 1 - 1 = a
        /\ \A b \in 1 .. 27 : 1 <= b + 1
    OBVIOUS
  <2>. QED BY <2>1, <2>2
<1>14. VersionIs(v)' /\ At(RevisionStarts[v + 1] + 1 - 1)'
  <2>1. At(RevisionStarts[v + 1] + 1 - 1)
    BY <1>6, <1>13
  <2>2. At(RevisionStarts[v + 1] + 1 - 1)'
    BY <1>1, <2>1, SameDatabase
  <2>. QED BY <1>1, <1>6, <2>2 DEF VersionIs
<1>15. 1 \in 1 .. 28
  OBVIOUS
<1>16. v < target /\ job'[o] = [kind |-> "upgrade", i |-> 1, target |-> target, at |-> v]
  BY <1>7, <1>11 DEF j
<1>. QED BY <1>4, <1>11, <1>13, <1>14, <1>15, <1>16, UpgradeGoesOn

(* Who upgrades is before a change that the tables are ready for, or after  *)
(* the last one of a revision.                                              *)
LEMMA UpgraderIsAt ==
  ASSUME SchemaInv, HeadInv, ~broken, NEW o \in Operators, Running(o, "upgrade")
  PROVE  Busy = {o} /\ Upgrading(o)
<1>1. job[o] # NONE /\ job[o].kind = "upgrade"
  BY DEF Running
<1>2. Busy = {o} /\ (Upgrading(o) \/ Begun(o) \/ MakingModels(o))
  BY <1>1, OneIsBusy
<1>3. ~Begun(o)
  BY <1>1 DEF Begun
<1>4. ~MakingModels(o)
  <2>1. \A todo : job[o] # [kind |-> "create", todo |-> todo]
    BY <1>1
  <2>. QED BY <2>1 DEF MakingModels
<1>. QED BY <1>2, <1>3, <1>4

(* A change of a table: it cannot fail, and the next one may come.          *)
LEMMA ChangeHead ==
  ASSUME SchemaInv, HeadInv, ~broken, NEW o \in Operators, Applying(o)
  PROVE  CanApply(NextOp(o)) /\ (ApplyChange(o) => HeadInv')
<1>1. Running(o, "upgrade") /\ job[o].i <= Len(GoingRevision(o))
  BY DEF Applying
<1>2. Busy = {o} /\ Upgrading(o)
  BY <1>1, UpgraderIsAt
<1>3. PICK v \in 0 .. 7, i \in 1 .. 28, target \in 1 .. 8 :
        /\ i <= Len(Revisions[v + 1]) + 1 /\ v < target
        /\ job[o] = [kind |-> "upgrade", i |-> i, target |-> target, at |-> v]
        /\ VersionIs(v) /\ At(RevisionStarts[v + 1] + i - 1)
  BY <1>2 DEF Upgrading
<1>. DEFINE s == Revisions[v + 1]
            n == RevisionStarts[v + 1] + i
<1>4. i <= Len(s) /\ NextOp(o) = s[i]
  BY <1>1, <1>3 DEF GoingRevision, NextOp
<1>5. s[i] = Op(n) /\ n \in 1 .. 47 /\ At(n - 1)
  BY <1>3, <1>4, UpgradeAt
<1>6. CanApply(Op(n)) /\ (db' = Applied(Op(n)) => At(n)')
  <2>. HIDE DEF n
  <2>. QED BY <1>5, AtStep
<1>7. ASSUME ApplyChange(o) PROVE HeadInv'
  <2>1. db' = Applied(NextOp(o)) /\ job' = [job EXCEPT ![o].i = @ + 1] /\ rows' = rows
    BY <1>7 DEF ApplyChange
  <2>. DEFINE j == [kind |-> "upgrade", i |-> i + 1, target |-> target, at |-> v]
  <2>2. DOMAIN job = Operators
    BY DEF SchemaInv, SchemaTypeOK
  <2>3. job' = [job EXCEPT ![o] = j]
    <3>1. job' = [job EXCEPT ![o] = [job[o] EXCEPT !.i = job[o].i + 1]]
      BY <2>1
    <3>2. job[o].i = i
      BY <1>3
    <3>3. [job[o] EXCEPT !.i = i + 1] = j
      BY <1>3
    <3>. HIDE DEF j
    <3>. QED BY <3>1, <3>2, <3>3
  <2>4. Follows(v, s)
    BY RevisionsFollow
  <2>5. i + 1 \in 1 .. 28 /\ i + 1 <= Len(s) + 1 /\ RevisionStarts[v + 1] + (i + 1) - 1 = n
    <3>1. Len(s) \in 1 .. 27 /\ RevisionStarts[v + 1] \in 0 .. 46
      BY <2>4 DEF Follows
    <3>2. \A a \in 0 .. 46 : a + (i + 1) - 1 = a + i
      OBVIOUS
    <3>3. \A b \in 1 .. 27 : i <= b => i + 1 \in 1 .. 28 /\ i + 1 <= b + 1
      OBVIOUS
    <3>. QED BY <1>4, <3>1, <3>2, <3>3
  <2>6. j # NONE
    BY <2>5, NoneIsNoJob
  <2>. HIDE DEF j
  <2>7. job'[o] = j /\ Busy' = {o}
    BY <1>2, <2>2, <2>3, <2>6, BusyNext
  <2>8. At(n)' /\ VersionIs(v)'
    BY <1>3, <1>4, <1>5, <1>6, <2>1 DEF VersionIs
  <2>9. At(RevisionStarts[v + 1] + (i + 1) - 1)'
    <3>. HIDE DEF n
    <3>. QED BY <2>5, <2>8
  <2>. QED BY <1>3, <2>5, <2>7, <2>8, <2>9, UpgradeGoesOn DEF j
<1>. QED BY <1>4, <1>5, <1>6, <1>7

(* The update of the version, after the last change of a revision.          *)
LEMMA UpdateVersionHead ==
  ASSUME SchemaInv, HeadInv, ~broken, NEW o \in Operators, Running(o, "upgrade"), ~Applying(o)
  PROVE  CanUpdate(o) /\ (UpdateVersion(o) => HeadInv')
<1>1. Busy = {o} /\ Upgrading(o)
  BY UpgraderIsAt
<1>2. PICK v \in 0 .. 7, i \in 1 .. 28, target \in 1 .. 8 :
        /\ i <= Len(Revisions[v + 1]) + 1 /\ v < target
        /\ job[o] = [kind |-> "upgrade", i |-> i, target |-> target, at |-> v]
        /\ VersionIs(v) /\ At(RevisionStarts[v + 1] + i - 1)
  BY <1>1 DEF Upgrading
<1>. DEFINE s == Revisions[v + 1]
<1>3. job[o].at = v /\ job[o].i = i /\ job[o].target = target
  BY <1>2
<1>4. CanUpdate(o)
  BY <1>2, <1>3 DEF CanUpdate, VersionIs
<1>5. At(RevisionStarts[v + 2])
  <2>1. ~(i <= Len(s))
    BY <1>3 DEF Applying, GoingRevision
  <2>2. Follows(v, s)
    BY RevisionsFollow
  <2>3. i > Len(s)
    <3>1. Len(s) \in 1 .. 27
      BY <2>2 DEF Follows
    <3>2. \A b \in 1 .. 27 : ~(i <= b) => i > b
      OBVIOUS
    <3>. QED BY <2>1, <3>1, <3>2
  <2>. QED BY <1>2, <2>3, UpgradeAt
<1>6. ASSUME UpdateVersion(o) PROVE HeadInv'
  <2>. DEFINE w == v + 1
              next == [job[o] EXCEPT !.at = w, !.i = 1]
              j == [kind |-> "upgrade", i |-> 1, target |-> target, at |-> w]
  <2>1. /\ rows' = (rows \ {v}) \cup {w} /\ db' = db
        /\ job' = [job EXCEPT ![o] = IF w = target THEN NONE ELSE next]
    BY <1>3, <1>6 DEF UpdateVersion
  <2>2. next = j
    <3>. DEFINE moved == [job[o] EXCEPT !.at = w]
    <3>1. moved = [kind |-> "upgrade", i |-> i, target |-> target, at |-> w]
      <4>. HIDE DEF w
      <4>. QED BY <1>2
    <3>2. next = [moved EXCEPT !.i = 1]
      OBVIOUS
    <3>. HIDE DEF moved, next, w
    <3>. QED BY <3>1, <3>2
  <2>3. w \in 1 .. 8 /\ w <= target
    <3>1. v < target
      BY <1>2
    <3>2. \A a \in 0 .. 7, b \in 1 .. 8 : a < b => a + 1 \in 1 .. 8 /\ a + 1 <= b
      OBVIOUS
    <3>. QED BY <3>1, <3>2
  <2>4. rows' = {w}
    BY <1>2, <2>1 DEF VersionIs
  <2>5. VersionIs(w)'
    <3>1. w # 0
      BY <2>3
    <3>. QED BY <2>4, <3>1 DEF VersionIs
  <2>6. DOMAIN job = Operators
    BY DEF SchemaInv, SchemaTypeOK
  <2>7. At(RevisionStarts[w + 1])'
    <3>1. w + 1 = v + 2
      OBVIOUS
    <3>2. At(RevisionStarts[w + 1])
      BY <1>5, <3>1
    <3>. QED BY <2>1, <3>2, SameDatabase
  <2>. HIDE DEF next, j
  <2>8. CASE w = target
    <3>1. Busy' = {}
      <4>1. job' = [job EXCEPT ![o] = NONE]
        BY <2>1, <2>8
      <4>. QED BY <1>1, <2>6, <4>1, BusyNext
    <3>2. CASE w \in 0 .. 7
      BY <2>5, <2>7, <3>1, <3>2 DEF HeadInv, Resting
    <3>3. CASE w = 8
      <4>1. At(47)
        BY <1>5, <3>3, StartsAre
      <4>2. Built = Modelled
        BY <4>1, AtHead
      <4>3. Built' = Modelled
        BY <2>1, <4>2, SameDatabase
      <4>4. VersionIs(8)'
        <5>. HIDE DEF w
        <5>. QED BY <2>5, <3>3
      <4>. QED BY <3>1, <4>3, <4>4 DEF HeadInv, Resting
    <3>. QED BY <2>3, <3>2, <3>3
  <2>9. CASE w # target
    <3>1. job' = [job EXCEPT ![o] = j]
      BY <2>1, <2>2, <2>9
    <3>2. w \in 0 .. 7 /\ w < target
      BY <2>3, <2>9
    <3>3. 1 \in 1 .. 28
      OBVIOUS
    <3>4. j # NONE
      BY <3>2, <3>3, NoneIsNoJob DEF j
    <3>5. job'[o] = j /\ Busy' = {o}
      BY <1>1, <2>6, <3>1, <3>4, BusyNext
    <3>6. 1 <= Len(Revisions[w + 1]) + 1 /\ RevisionStarts[w + 1] + 1 - 1 = RevisionStarts[w + 1]
      <4>1. Follows(w, Revisions[w + 1])
        BY <3>2, RevisionsFollow
      <4>2. Len(Revisions[w + 1]) \in 1 .. 27 /\ RevisionStarts[w + 1] \in 0 .. 46
        BY <4>1 DEF Follows
      <4>3. /\ \A a \in 0 .. 46 : a + 1 - 1 = a
            /\ \A b \in 1 .. 27 : 1 <= b + 1
        OBVIOUS
      <4>. QED BY <4>2, <4>3
    <3>7. At(RevisionStarts[w + 1] + 1 - 1)'
      BY <2>7, <3>6
    <3>8. job'[o] = [kind |-> "upgrade", i |-> 1, target |-> target, at |-> w]
      BY <3>5 DEF j
    <3>. HIDE DEF w
    <3>. QED BY <2>5, <3>2, <3>3, <3>5, <3>6, <3>7, <3>8, UpgradeGoesOn
  <2>. QED BY <2>8, <2>9
<1>. QED BY <1>4, <1>6

-----------------------------------------------------------------------------
(* create_schema *)

(* It begins when nothing is there.                                         *)
LEMMA CreateSchemaHead ==
  ASSUME SchemaInv, HeadInv, ~broken', NEW o \in Operators, CreateSchema(o)
  PROVE  HeadInv'
<1>. DEFINE j == [kind |-> "create", todo |-> NONE]
<1>1. /\ broken' = (broken \/ Busy # {}) /\ rows = {} /\ rows' = rows /\ db' = db
      /\ job' = [job EXCEPT ![o] = j]
  BY DEF CreateSchema, Begin
<1>2. ~broken /\ Busy = {}
  BY <1>1
<1>3. Resting
  BY <1>2, NobodyIsBusy
<1>4. At(0)
  <2>1. \A v \in 0 .. 8 : VersionIs(v) => v = 0
    BY <1>1 DEF VersionIs
  <2>2. PICK v \in 0 .. 7 : VersionIs(v) /\ At(RevisionStarts[v + 1])
    BY <1>3, <2>1 DEF Resting
  <2>3. v = 0
    BY <2>1, <2>2
  <2>. QED BY <2>2, <2>3, StartsAre
<1>5. DOMAIN job = Operators
  BY DEF SchemaInv, SchemaTypeOK
<1>6. j # NONE
  BY NoneIsNoJob
<1>. HIDE DEF j
<1>7. job'[o] = j /\ Busy' = {o}
  BY <1>1, <1>2, <1>5, <1>6, BusyNext
<1>8. At(0)' /\ VersionIs(0)'
  BY <1>1, <1>4, SameDatabase DEF VersionIs
<1>9. Begun(o)'
  BY <1>7, <1>8 DEF Begun, j
<1>. QED BY <1>7, <1>9 DEF HeadInv

(* Who creates the tables has listed them, or is about to.                  *)
LEMMA CreatorIsAt ==
  ASSUME SchemaInv, HeadInv, ~broken, NEW o \in Operators, Running(o, "create")
  PROVE  Busy = {o} /\ (job[o].todo = NONE => Begun(o)) /\ (job[o].todo # NONE => MakingModels(o))
<1>1. job[o] # NONE /\ job[o].kind = "create"
  BY DEF Running
<1>2. Busy = {o} /\ (Upgrading(o) \/ Begun(o) \/ MakingModels(o))
  BY <1>1, OneIsBusy
<1>3. ~Upgrading(o)
  <2>1. \A v, i, target : job[o] # [kind |-> "upgrade", i |-> i, target |-> target, at |-> v]
    BY <1>1
  <2>. QED BY <2>1 DEF Upgrading
<1>4. Begun(o) => job[o].todo = NONE
  BY DEF Begun
<1>5. MakingModels(o) => job[o].todo # NONE
  <2>1. \A todo \in SUBSET DOMAIN Models : job[o] = [kind |-> "create", todo |-> todo]
          => job[o].todo # NONE
    BY NoneIsNoJob
  <2>. QED BY <2>1 DEF MakingModels
<1>. QED BY <1>2, <1>3, <1>4, <1>5

(* All tables are missing.                                                  *)
LEMMA ListMissingHead ==
  ASSUME SchemaInv, HeadInv, ~broken, NEW o \in Operators, ListMissing(o)
  PROVE  HeadInv'
<1>1. PICK todo : todo = {i \in DOMAIN Models : Models[i].name \notin DOMAIN db}
  OBVIOUS
<1>. DEFINE j == [kind |-> "create", todo |-> todo]
<1>2. /\ Running(o, "create") /\ job[o].todo = NONE /\ rows' = rows /\ db' = db
      /\ job' = [job EXCEPT ![o].todo = todo]
  BY <1>1 DEF ListMissing
<1>3. Busy = {o} /\ Begun(o)
  BY <1>2, CreatorIsAt
<1>4. DOMAIN db = {} /\ todo = DOMAIN Models
  BY <1>1, <1>3, AtZero DEF Begun
<1>5. job' = [job EXCEPT ![o] = j]
  <2>1. job' = [job EXCEPT ![o] = [job[o] EXCEPT !.todo = todo]]
    BY <1>2
  <2>2. [job[o] EXCEPT !.todo = todo] = j
    BY <1>3 DEF Begun
  <2>. QED BY <2>1, <2>2
<1>6. DOMAIN job = Operators
  BY DEF SchemaInv, SchemaTypeOK
<1>7. todo \in SUBSET DOMAIN Models
  BY <1>4
<1>8. j # NONE
  BY <1>7, NoneIsNoJob
<1>. HIDE DEF j
<1>9. job'[o] = j /\ Busy' = {o}
  BY <1>3, <1>5, <1>6, <1>8, BusyNext
<1>10. CreatedBut(todo)'
  <2>1. CreatedBut(todo)
    BY <1>4 DEF CreatedBut
  <2>. QED BY <1>2, <2>1, SameDatabase
<1>11. VersionIs(0)'
  BY <1>2, <1>3 DEF Begun, VersionIs
<1>12. \A i \in DOMAIN Models \ todo, k \in todo : i < k
  BY <1>4
<1>13. MakingModels(o)'
  BY <1>7, <1>9, <1>10, <1>11, <1>12 DEF MakingModels, j
<1>. QED BY <1>9, <1>13 DEF HeadInv

(* The keys of a model refer to itself or to a model before it.             *)
KeysEarlier(i) ==
  \A k \in DOMAIN Models[i].keys :
    \/ Models[i].keys[k].ref[1] = Models[i].name
    \/ \E j \in DOMAIN Models : j < i /\ Models[i].keys[k].ref[1] = Models[j].name

(* So the tables can be created in the order of the list.                  *)
LEMMA KeysAreEarlier == \A i \in DOMAIN Models : KeysEarlier(i)
<1>1. \A i \in DOMAIN Models : DOMAIN Models[i].keys = {} => KeysEarlier(i)
  BY DEF KeysEarlier
<1>2. ASSUME NEW i \in DOMAIN Models, NEW j \in DOMAIN Models, j < i,
             NEW a, Models[i].keys = <<a>>, a.ref[1] = Models[j].name
      PROVE  KeysEarlier(i)
  BY <1>2 DEF KeysEarlier
<1>3. ASSUME NEW i \in DOMAIN Models, NEW j \in DOMAIN Models, NEW l \in DOMAIN Models, j < i,
             l < i,
             NEW a, NEW b, Models[i].keys = <<a, b>>,
             a.ref[1] = Models[j].name, b.ref[1] = Models[l].name
      PROVE  KeysEarlier(i)
  <2>1. ASSUME NEW k \in DOMAIN Models[i].keys
        PROVE  Models[i].keys[k] = a \/ Models[i].keys[k] = b
    BY <1>3
  <2>. QED BY <1>3, <2>1 DEF KeysEarlier
<1>4. /\ ToBoard("board_id", TRUE).ref[1] = Models[8].name
      /\ ToBoard("board_uuid", TRUE).ref[1] = Models[8].name
      /\ To("fleet", "fleets").ref[1] = Models[5].name
      /\ To("plugin_uuid", "plugins").ref[1] = Models[3].name
      /\ To("service_uuid", "services").ref[1] = Models[4].name
      /\ To("main_request_uuid", "requests").ref[1] = Models[6].name
  <2>1. /\ Models[8].name = "boards" /\ Models[5].name = "fleets" /\ Models[3].name = "plugins"
        /\ Models[4].name = "services" /\ Models[6].name = "requests"
    BY ModelPlaces, ModelNames
  <2>2. /\ ToBoard("board_id", TRUE).ref[1] = "boards"
        /\ ToBoard("board_uuid", TRUE).ref[1] = "boards"
        /\ To("fleet", "fleets").ref[1] = "fleets"
        /\ To("plugin_uuid", "plugins").ref[1] = "plugins"
        /\ To("service_uuid", "services").ref[1] = "services"
        /\ To("main_request_uuid", "requests").ref[1] = "requests"
    BY KeysRefer, Zenon
  <2>. QED BY <2>1, <2>2
<1>5. DOMAIN Models = 1 .. 15
  BY ModelPlaces
<1>6. KeysEarlier(1) /\ KeysEarlier(2) /\ KeysEarlier(3) /\ KeysEarlier(4) /\ KeysEarlier(5)
      /\ KeysEarlier(7)
  <2>1. /\ Models[1].keys = <<>> /\ Models[2].keys = <<>> /\ Models[3].keys = <<>>
        /\ Models[4].keys = <<>> /\ Models[5].keys = <<>> /\ Models[7].keys = <<>>
    BY ModelPlaces DEF Conductor, WampAgent, Plugin, Service, Fleet, Result, Table
  <2>2. DOMAIN <<>> = {}
    OBVIOUS
  <2>. QED BY <1>1, <1>5, <2>1, <2>2
<1>7. KeysEarlier(6)
  <2>1. Models[6].keys = <<To("main_request_uuid", "requests")>>
    BY ModelPlaces DEF Request, Table
  <2>. QED BY <1>4, <2>1 DEF KeysEarlier
<1>8. KeysEarlier(8)
  <2>1. Models[8].keys = <<To("fleet", "fleets")>>
    BY ModelPlaces DEF Board, Table
  <2>2. 8 \in DOMAIN Models /\ 5 \in DOMAIN Models /\ 5 < 8
    BY <1>5
  <2>. QED BY <1>2, <1>4, <2>1, <2>2
<1>9. ASSUME NEW i \in {9, 10}
      PROVE  KeysEarlier(i)
  <2>1. Models[i].keys = <<ToBoard("board_id", TRUE)>>
    <3>1. Models[i] \in {Location, SessionWP}
      BY ModelPlaces
    <3>2. /\ Location.keys = <<ToBoard("board_id", TRUE)>>
          /\ SessionWP.keys = <<ToBoard("board_id", TRUE)>>
      BY DEF Location, SessionWP, Table
    <3>. QED BY <3>1, <3>2
  <2>2. i \in DOMAIN Models /\ 8 \in DOMAIN Models /\ 8 < i
    BY <1>5
  <2>. QED BY <1>2, <1>4, <2>1, <2>2
<1>10. ASSUME NEW i \in {13, 14, 15}
       PROVE  KeysEarlier(i)
  <2>1. Models[i].keys = <<ToBoard("board_uuid", TRUE)>>
    <3>1. Models[i] \in {Port, Webservice, EnabledWebservice}
      BY ModelPlaces
    <3>2. /\ Port.keys = <<ToBoard("board_uuid", TRUE)>>
          /\ Webservice.keys = <<ToBoard("board_uuid", TRUE)>>
          /\ EnabledWebservice.keys = <<ToBoard("board_uuid", TRUE)>>
      BY DEF Port, Webservice, EnabledWebservice, Table
    <3>. QED BY <3>1, <3>2
  <2>2. i \in DOMAIN Models /\ 8 \in DOMAIN Models /\ 8 < i
    BY <1>5
  <2>. QED BY <1>2, <1>4, <2>1, <2>2
<1>11. KeysEarlier(11)
  <2>1. Models[11].keys = <<ToBoard("board_uuid", TRUE), To("plugin_uuid", "plugins")>>
    <3>1. Models[11] = InjectionPlugin
      BY ModelPlaces
    <3>2. InjectionPlugin.keys = <<ToBoard("board_uuid", TRUE), To("plugin_uuid", "plugins")>>
      BY DEF InjectionPlugin, Table
    <3>. QED BY <3>1, <3>2
  <2>2. 11 \in DOMAIN Models /\ 8 \in DOMAIN Models /\ 3 \in DOMAIN Models /\ 8 < 11 /\ 3 < 11
    BY <1>5
  <2>. QED BY <1>3, <1>4, <2>1, <2>2
<1>12. KeysEarlier(12)
  <2>1. Models[12].keys = <<ToBoard("board_uuid", TRUE), To("service_uuid", "services")>>
    <3>1. Models[12] = ExposedService
      BY ModelPlaces
    <3>2. ExposedService.keys = <<ToBoard("board_uuid", TRUE), To("service_uuid", "services")>>
      BY DEF ExposedService, Table
    <3>. QED BY <3>1, <3>2
  <2>2. 12 \in DOMAIN Models /\ 8 \in DOMAIN Models /\ 4 \in DOMAIN Models /\ 8 < 12 /\ 4 < 12
    BY <1>5
  <2>. QED BY <1>3, <1>4, <2>1, <2>2
<1>. QED BY <1>5, <1>6, <1>7, <1>8, <1>9, <1>10, <1>11, <1>12

(* The next table of a create_schema can be made.                           *)
LEMMA ModelMakes ==
  ASSUME NEW todo \in SUBSET DOMAIN Models, todo # {}, CreatedBut(todo),
         \A i \in DOMAIN Models \ todo, j \in todo : i < j, NEW m, m = First(todo)
  PROVE  /\ Makes(CreateTable(Models[m]), Models[m].name, Fresh(Models[m]))
         /\ m \in todo
         /\ \A i \in DOMAIN Models \ (todo \ {m}), j \in todo \ {m} : i < j
<1>1. m \in todo /\ (\A j \in todo : m <= j) /\ m \in DOMAIN Models
  BY FirstIsLeast
<1>2. todo \subseteq Nat /\ DOMAIN Models \subseteq Nat
  BY ModelPlaces
<1>3. \A i \in DOMAIN Models \ (todo \ {m}), j \in todo \ {m} : i < j
  <2>. SUFFICES ASSUME NEW i \in DOMAIN Models \ (todo \ {m}), NEW j \in todo \ {m} PROVE i < j
    OBVIOUS
  <2>1. CASE i = m
    BY <1>1, <1>2, <2>1
  <2>2. CASE i # m
    BY <2>2
  <2>. QED BY <2>1, <2>2
<1>4. Models[m].name \notin DOMAIN db
  <2>1. \A i \in DOMAIN Models \ todo : Models[i].name # Models[m].name
    BY <1>1, NamesOfModels
  <2>. QED BY <2>1 DEF CreatedBut
<1>5. ASSUME NEW k \in DOMAIN Models[m].keys
      PROVE  Models[m].keys[k].ref[1] \in DOMAIN db \cup {Models[m].name}
  <2>1. CASE Models[m].keys[k].ref[1] = Models[m].name
    BY <2>1
  <2>2. ASSUME NEW j \in DOMAIN Models, j < m, Models[m].keys[k].ref[1] = Models[j].name
        PROVE  Models[m].keys[k].ref[1] \in DOMAIN db
    <3>1. j \notin todo
      BY <1>1, <1>2, <2>2
    <3>2. Models[j].name \in DOMAIN db
      BY <3>1 DEF CreatedBut
    <3>. QED BY <2>2, <3>2
  <2>3. KeysEarlier(m)
    BY <1>1, KeysAreEarlier
  <2>. QED BY <2>1, <2>2, <2>3 DEF KeysEarlier
<1>6. Makes(CreateTable(Models[m]), Models[m].name, Fresh(Models[m]))
  BY <1>4, <1>5, CreateMakes
<1>. QED BY <1>1, <1>3, <1>6

(* A table of a create_schema: it cannot fail, and the next one may come.   *)
LEMMA CreateModelHead ==
  ASSUME SchemaInv, HeadInv, ~broken, NEW o \in Operators, Creating(o), job[o].todo # {}
  PROVE  CanApply(NextModel(o)) /\ (CreateModel(o) => HeadInv')
<1>1. Running(o, "create") /\ job[o].todo # NONE
  BY DEF Creating
<1>2. Busy = {o} /\ MakingModels(o)
  BY <1>1, CreatorIsAt
<1>3. PICK todo \in SUBSET DOMAIN Models :
        /\ job[o] = [kind |-> "create", todo |-> todo]
        /\ VersionIs(0) /\ CreatedBut(todo)
        /\ \A i \in DOMAIN Models \ todo, k \in todo : i < k
  BY <1>2 DEF MakingModels
<1>4. job[o].todo = todo /\ todo # {}
  BY <1>3
<1>5. PICK m : m = First(todo)
  OBVIOUS
<1>. DEFINE name == Models[m].name
            rest == todo \ {m}
<1>6. /\ Makes(CreateTable(Models[m]), name, Fresh(Models[m]))
      /\ m \in todo
      /\ \A i \in DOMAIN Models \ rest, k \in rest : i < k
  BY <1>3, <1>4, <1>5, ModelMakes
<1>7. NextModel(o) = CreateTable(Models[m])
  BY <1>4, <1>5 DEF NextModel
<1>8. ASSUME CreateModel(o) PROVE HeadInv'
  <2>. DEFINE j == [kind |-> "create", todo |-> rest]
  <2>1. /\ db' = Applied(NextModel(o)) /\ rows' = rows
        /\ job' = [job EXCEPT ![o].todo = @ \ {First(@)}]
    BY <1>8 DEF CreateModel
  <2>2. job' = [job EXCEPT ![o] = j]
    <3>1. job' = [job EXCEPT ![o] = [job[o] EXCEPT !.todo = job[o].todo \ {First(job[o].todo)}]]
      BY <2>1
    <3>2. job' = [job EXCEPT ![o] = [job[o] EXCEPT !.todo = rest]]
      BY <1>4, <1>5, <3>1
    <3>3. [job[o] EXCEPT !.todo = rest] = j
      <4>. HIDE DEF rest
      <4>. QED BY <1>3
    <3>. HIDE DEF j
    <3>. QED BY <3>2, <3>3
  <2>3. Becomes(name, Fresh(Models[m]))
    BY <1>6, <1>7, <2>1 DEF Makes
  <2>4. rest \in SUBSET DOMAIN Models
    OBVIOUS
  <2>5. DOMAIN job = Operators
    BY DEF SchemaInv, SchemaTypeOK
  <2>6. j # NONE
    <3>. HIDE DEF rest
    <3>. QED BY <2>4, NoneIsNoJob
  <2>7. CreatedBut(rest)'
    <3>1. DOMAIN Models \ rest = (DOMAIN Models \ todo) \cup {m}
      BY <1>6
    <3>2. DOMAIN db' = {Models[i].name : i \in DOMAIN Models \ rest}
      <4>1. DOMAIN db' = DOMAIN db \cup {name}
        BY <2>3 DEF Becomes
      <4>2. DOMAIN db = {Models[i].name : i \in DOMAIN Models \ todo}
        BY <1>3 DEF CreatedBut
      <4>. HIDE DEF rest
      <4>. QED BY <3>1, <4>1, <4>2
    <3>3. ASSUME NEW i \in DOMAIN Models \ rest PROVE Is(Models[i].name, Fresh(Models[i]))'
      <4>1. CASE i = m
        BY <2>3, <4>1 DEF Becomes, Is
      <4>2. CASE i # m
        <5>1. i \in DOMAIN Models \ todo
          BY <4>2
        <5>2. Is(Models[i].name, Fresh(Models[i]))
          BY <1>3, <5>1 DEF CreatedBut
        <5>3. Models[i].name # name
          BY <1>6, <4>2, <5>1, NamesOfModels
        <5>. QED BY <2>3, <5>2, <5>3 DEF Becomes, Is
      <4>. QED BY <4>1, <4>2
    <3>. HIDE DEF rest
    <3>. QED BY <3>2, <3>3 DEF CreatedBut
  <2>8. VersionIs(0)'
    BY <1>3, <2>1 DEF VersionIs
  <2>. HIDE DEF j
  <2>9. job'[o] = j /\ Busy' = {o}
    BY <1>2, <2>2, <2>5, <2>6, BusyNext
  <2>10. MakingModels(o)'
    <3>. HIDE DEF rest
    <3>. QED BY <1>6, <2>4, <2>7, <2>8, <2>9 DEF MakingModels, j
  <2>. QED BY <2>9, <2>10 DEF HeadInv
<1>. QED BY <1>6, <1>7, <1>8 DEF Makes

(* The stamp: no row is there, and all tables are.                          *)
LEMMA StampHead ==
  ASSUME SchemaInv, HeadInv, ~broken, NEW o \in Operators, Creating(o), job[o].todo = {}
  PROVE  Cardinality(rows) <= 1 /\ (Stamp(o) => HeadInv')
<1>1. Running(o, "create") /\ job[o].todo # NONE
  BY DEF Creating
<1>2. Busy = {o} /\ MakingModels(o)
  BY <1>1, CreatorIsAt
<1>3. PICK todo \in SUBSET DOMAIN Models :
        /\ job[o] = [kind |-> "create", todo |-> todo]
        /\ VersionIs(0) /\ CreatedBut(todo)
  BY <1>2 DEF MakingModels
<1>4. CreatedBut({})
  BY <1>3
<1>5. Cardinality(rows) <= 1
  <2>1. rows = {}
    BY <1>3 DEF VersionIs
  <2>. QED BY <2>1, FS_EmptySet
<1>6. ASSUME Stamp(o) PROVE HeadInv'
  <2>1. rows' = {8} /\ db' = db /\ job' = [job EXCEPT ![o] = NONE]
    BY <1>6, RevisionFacts DEF Stamp, Done
  <2>2. DOMAIN job = Operators
    BY DEF SchemaInv, SchemaTypeOK
  <2>3. Busy' = {}
    BY <1>2, <2>1, <2>2, BusyNext
  <2>4. Built = Modelled
    BY <1>4, CreatedIsModelled
  <2>5. Built' = Modelled
    BY <2>1, <2>4, SameDatabase
  <2>6. VersionIs(8)'
    BY <2>1 DEF VersionIs
  <2>. QED BY <2>3, <2>5, <2>6 DEF HeadInv, Resting
<1>. QED BY <1>5, <1>6

-----------------------------------------------------------------------------
(* The theorem *)

(* Nothing raises.                                                          *)
LEMMA NothingRaises ==
  ASSUME SchemaInv, HeadInv, ~broken, NEW o \in Operators
  PROVE  ~Raise(o)
<1>1. ~(Applying(o) /\ ~CanApply(NextOp(o)))
  BY ChangeHead
<1>2. ~(Running(o, "upgrade") /\ ~Applying(o) /\ ~CanUpdate(o))
  BY UpdateVersionHead
<1>3. ~(Creating(o) /\ job[o].todo # {} /\ ~CanApply(NextModel(o)))
  BY CreateModelHead
<1>4. ~(Creating(o) /\ job[o].todo = {} /\ Cardinality(rows) > 1)
  <2>1. Cardinality({}) = 0
    BY FS_EmptySet
  <2>2. ASSUME Creating(o), job[o].todo = {} PROVE rows = {}
    <3>1. Running(o, "create") /\ job[o].todo # NONE
      BY <2>2 DEF Creating
    <3>2. MakingModels(o)
      BY <3>1, CreatorIsAt
    <3>. QED BY <3>2 DEF MakingModels, VersionIs
  <2>. QED BY <2>1, <2>2
<1>. QED BY <1>1, <1>2, <1>3, <1>4 DEF Raise

(* Who is cut off between two revisions leaves nothing half done.           *)
LEMMA CutOffHead ==
  ASSUME SchemaInv, HeadInv, ~broken', NEW o \in Operators, CutOff(o)
  PROVE  HeadInv'
<1>1. /\ job[o] # NONE /\ db' = db /\ rows' = rows /\ job' = [job EXCEPT ![o] = NONE]
      /\ broken' = (broken \/ IF Running(o, "upgrade") THEN job[o].i > 1 ELSE Creating(o))
  BY DEF CutOff, Done
<1>2. ~broken /\ ~(IF Running(o, "upgrade") THEN job[o].i > 1 ELSE Creating(o))
  BY <1>1
<1>3. Busy = {o} /\ (Upgrading(o) \/ Begun(o) \/ MakingModels(o))
  BY <1>1, <1>2, OneIsBusy
<1>4. DOMAIN job = Operators
  BY DEF SchemaInv, SchemaTypeOK
<1>5. Busy' = {}
  BY <1>1, <1>3, <1>4, BusyNext
<1>6. PICK v \in 0 .. 7 : VersionIs(v) /\ At(RevisionStarts[v + 1])
  <2>1. CASE Upgrading(o)
    <3>1. PICK v \in 0 .. 7, i \in 1 .. 28, target \in 1 .. 8 :
            /\ job[o] = [kind |-> "upgrade", i |-> i, target |-> target, at |-> v]
            /\ VersionIs(v) /\ At(RevisionStarts[v + 1] + i - 1)
      BY <2>1 DEF Upgrading
    <3>2. job[o].kind = "upgrade" /\ job[o].i = i
      BY <3>1
    <3>3. ~(i > 1)
      BY <1>1, <1>2, <3>2 DEF Running
    <3>4. i = 1
      BY <3>3
    <3>5. RevisionStarts[v + 1] + 1 - 1 = RevisionStarts[v + 1]
      <4>1. RevisionStarts[v + 1] \in 0 .. 46
        BY RevisionsFollow DEF Follows
      <4>2. \A a \in 0 .. 46 : a + 1 - 1 = a
        OBVIOUS
      <4>. QED BY <4>1, <4>2
    <3>6. At(RevisionStarts[v + 1])
      BY <3>1, <3>4, <3>5
    <3>. QED BY <3>1, <3>6
  <2>2. CASE Begun(o)
    <3>1. At(RevisionStarts[0 + 1]) /\ VersionIs(0)
      BY <2>2, StartsAre DEF Begun
    <3>2. 0 \in 0 .. 7
      OBVIOUS
    <3>. QED BY <3>1, <3>2
  <2>3. CASE MakingModels(o)
    <3>1. PICK todo \in SUBSET DOMAIN Models : job[o] = [kind |-> "create", todo |-> todo]
      BY <2>3 DEF MakingModels
    <3>2. job[o].kind = "create" /\ job[o].todo = todo /\ todo # NONE
      BY <3>1, NoneIsNoJob
    <3>3. Creating(o) /\ ~Running(o, "upgrade")
      BY <1>1, <3>2 DEF Creating, Running
    <3>. QED BY <1>2, <3>3
  <2>. QED BY <1>3, <2>1, <2>2, <2>3
<1>7. VersionIs(v)' /\ At(RevisionStarts[v + 1])'
  BY <1>1, <1>6, SameDatabase DEF VersionIs
<1>. QED BY <1>5, <1>7 DEF HeadInv, Resting

(* Every step keeps the invariant.                                          *)
LEMMA HeadStep == SchemaInv /\ HeadInv /\ [SchemaNext]_schemaVars => HeadInv'
<1>. SUFFICES ASSUME SchemaInv, HeadInv, [SchemaNext]_schemaVars, ~broken' PROVE HeadInv'
  BY DEF HeadInv
<1>1. CASE UNCHANGED schemaVars
  <2>1. db' = db /\ rows' = rows /\ job' = job /\ broken' = broken
    BY <1>1 DEF schemaVars, ghosts
  <2>2. Busy' = Busy /\ \A v : VersionIs(v) => VersionIs(v)'
    BY <2>1 DEF Busy, VersionIs
  <2>3. Resting => Resting'
    BY <2>1, <2>2, SameDatabase DEF Resting
  <2>4. \A o \in Operators : Upgrading(o) => Upgrading(o)'
    BY <2>1, <2>2, SameDatabase DEF Upgrading
  <2>5. \A o \in Operators : Begun(o) => Begun(o)'
    BY <2>1, <2>2, SameDatabase DEF Begun
  <2>6. \A o \in Operators : MakingModels(o) => MakingModels(o)'
    BY <2>1, <2>2, SameDatabase DEF MakingModels
  <2>. QED BY <2>1, <2>2, <2>3, <2>4, <2>5, <2>6 DEF HeadInv
<1>2. ASSUME NEW o \in Operators, NEW target \in DOMAIN Revisions, Upgrade(o, target)
      PROVE  HeadInv'
  BY <1>2, UpgradeHead
<1>3. ASSUME NEW o \in Operators, CreateSchema(o) PROVE HeadInv'
  BY <1>3, CreateSchemaHead
<1>4. ASSUME NEW o \in Operators, CutOff(o) PROVE HeadInv'
  BY <1>4, CutOffHead
<1>5. ASSUME NEW o \in Operators, ApplyChange(o) PROVE HeadInv'
  <2>1. Applying(o) /\ broken' = broken
    BY <1>5 DEF ApplyChange, ghosts
  <2>. QED BY <1>5, <2>1, ChangeHead
<1>6. ASSUME NEW o \in Operators, UpdateVersion(o) PROVE HeadInv'
  <2>1. Running(o, "upgrade") /\ ~Applying(o) /\ broken' = broken
    BY <1>6 DEF UpdateVersion, ghosts
  <2>. QED BY <1>6, <2>1, UpdateVersionHead
<1>7. ASSUME NEW o \in Operators, ListMissing(o) PROVE HeadInv'
  <2>1. broken' = broken
    BY <1>7 DEF ListMissing
  <2>. QED BY <1>7, <2>1, ListMissingHead
<1>8. ASSUME NEW o \in Operators, CreateModel(o) PROVE HeadInv'
  <2>1. Creating(o) /\ job[o].todo # {} /\ broken' = broken
    BY <1>8 DEF CreateModel, ghosts
  <2>. QED BY <1>8, <2>1, CreateModelHead
<1>9. ASSUME NEW o \in Operators, Stamp(o) PROVE HeadInv'
  <2>1. Creating(o) /\ job[o].todo = {} /\ broken' = broken
    BY <1>9 DEF Stamp, ghosts
  <2>. QED BY <1>9, <2>1, StampHead
<1>10. ASSUME NEW o \in Operators, Raise(o) PROVE HeadInv'
  <2>1. broken' = broken
    BY <1>10 DEF Raise, ghosts
  <2>. QED BY <1>10, <2>1, NothingRaises
<1>. QED BY <1>1, <1>2, <1>3, <1>4, <1>5, <1>6, <1>7, <1>8, <1>9, <1>10 DEF SchemaNext

(* The invariant that says where every command is.                          *)
THEOREM HeadInductive == SchemaSpec => []HeadInv
BY HeadInit, HeadStep, SchemaInductive, PTL DEF SchemaSpec

(* A database at the last revision is the one of the models, on whichever   *)
(* way it came there, unless a command was cut off in the middle of a       *)
(* revision or two overlapped.                                              *)
THEOREM HeadAlwaysModels == SchemaSpec => []HeadIsModels
<1>1. ASSUME HeadInv, rows = {HeadRevision}, Busy = {}, ~broken PROVE Built = Modelled
  <2>1. Resting
    BY <1>1, NobodyIsBusy
  <2>2. \A v \in 0 .. 7 : ~VersionIs(v)
    <3>1. rows = {8} /\ 8 \in rows
      BY <1>1, RevisionFacts
    <3>. QED BY <3>1 DEF VersionIs
  <2>. QED BY <2>1, <2>2 DEF Resting
<1>2. HeadInv => HeadIsModels
  BY <1>1 DEF HeadIsModels
<1>. QED BY <1>2, HeadInductive, PTL
===========================================================================
