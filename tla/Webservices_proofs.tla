-------------------------- MODULE Webservices_proofs --------------------------
(***************************************************************************)
(* Webservices keeps the invariant of Webservices_inv, and its properties  *)
(* follow. A step changes one worker and mostly one of the places the      *)
(* operations write to: the Quiet lemmas keep the parts of the invariant   *)
(* it does not touch, the Stays lemmas what the parts it touches say of    *)
(* the rows and webservices of others, and each action has a lemma that    *)
(* puts them together with what the action does.                           *)
(***************************************************************************)
EXTENDS Webservices_inv, TLAPS

(* What an operation is made of. *)
LEMMA OperationFields ==
  ASSUME NEW o \in Operations
  PROVE  /\ o # NULL
         /\ o.kind \in {"enable", "disable", "expose", "unexpose"}
         /\ o.board \in Boards /\ o.dns \in Dns /\ o.name \in Names \cup {NULL}
         /\ o.lport \in LocalPorts \cup {NULL}
         /\ o.http \in Ports \cup {NULL} /\ o.https \in Ports \cup {NULL}
         /\ o.online \in BOOLEAN /\ o.ok \in BOOLEAN
         /\ o.names \subseteq Names /\ o.text \in Sites \cup {NULL}
         /\ AgentOf[o.board] \in Agents
<1>1. o # NULL
  BY WebAssumption
<1> QED
  BY <1>1, WebAssumption DEF Operations

(* The same of a worker that runs one. *)
LEMMA RunsOperation ==
  ASSUME TypeOK, NEW w \in Workers, op[w] # NULL
  PROVE  /\ op[w] \in Operations /\ pc[w] # "idle"
         /\ op[w].kind \in {"enable", "disable", "expose", "unexpose"}
         /\ op[w].board \in Boards /\ op[w].dns \in Dns /\ op[w].name \in Names \cup {NULL}
         /\ op[w].lport \in LocalPorts \cup {NULL}
         /\ op[w].http \in Ports \cup {NULL} /\ op[w].https \in Ports \cup {NULL}
         /\ op[w].online \in BOOLEAN /\ op[w].ok \in BOOLEAN
         /\ op[w].names \subseteq Names /\ op[w].text \in Sites \cup {NULL}
         /\ AgentOf[op[w].board] \in Agents
<1>1. op[w] \in Operations /\ pc[w] # "idle"
  BY DEF TypeOK
<1> QED
  BY <1>1, OperationFields

(* What every step of w leaves alone, or adds to. *)
Frame(w) ==
  /\ op' \in [Workers -> Operations \cup {NULL}]
  /\ pc' \in [Workers -> Labels]
  /\ \A u \in Workers \ {w} : op'[u] = op[u] /\ pc'[u] = pc[u]
  /\ dirty \subseteq dirty' /\ contested \subseteq contested'
  /\ orphan \subseteq orphan' /\ (reused => reused')

(* Its operation begins, goes on to a place, or ends. *)
Begins(w, o, label) == Frame(w) /\ op[w] = NULL /\ op'[w] = o /\ pc'[w] = label
Goes(w, label) ==
  /\ Frame(w) /\ pc'[w] = label
  /\ op[w] # NULL /\ op'[w] # NULL
  /\ op'[w].kind = op[w].kind /\ op'[w].board = op[w].board /\ op'[w].dns = op[w].dns
  /\ op'[w].name = op[w].name /\ op'[w].lport = op[w].lport /\ op'[w].names = op[w].names
Ends(w) == Frame(w) /\ op[w] # NULL /\ op'[w] = NULL /\ pc'[w] = "idle"

Grown == dirty \subseteq dirty' /\ contested \subseteq contested'
         /\ orphan \subseteq orphan' /\ (reused => reused')

(* Start, a step that goes on and Finish do what their names say. *)
LEMMA BeginsWith ==
  ASSUME TypeOK, NEW w \in Workers, NEW o \in Operations, NEW l \in Labels, At(w, "idle"),
         op' = [op EXCEPT ![w] = o], Goto(w, l), Grown
  PROVE  Begins(w, o, l)
BY DEF TypeOK, At, Goto, Begins, Frame, Grown, Labels

(* The operation is at its next place and is otherwise what it was. *)
LEMMA GoesOn ==
  ASSUME TypeOK, NEW w \in Workers, NEW l \in Labels, op[w] # NULL, UNCHANGED op, Goto(w, l), Grown
  PROVE  Goes(w, l)
BY DEF TypeOK, Goto, Goes, Frame, Grown, Labels

(* The operation is over. *)
LEMMA EndsHere ==
  ASSUME TypeOK, NEW w \in Workers, op[w] # NULL, Finish(w), Grown
  PROVE  Ends(w)
BY DEF TypeOK, Finish, Goto, Ends, Frame, Grown, Labels

(* An operation that goes on with something it has read. *)
LEMMA GoesOnWith ==
  ASSUME TypeOK, NEW w \in Workers, NEW l \in Labels, op[w] # NULL, Goto(w, l), Grown,
         NEW o \in Operations, op' = [op EXCEPT ![w] = o],
         o.kind = op[w].kind, o.board = op[w].board, o.dns = op[w].dns,
         o.name = op[w].name, o.lport = op[w].lport, o.names = op[w].names
  PROVE  Goes(w, l) /\ op'[w] = o
<1>1. o # NULL
  BY OperationFields
<1> QED
  BY <1>1 DEF TypeOK, Goto, Goes, Frame, Grown, Labels

(* The types of what is not a worker's. *)
TableTypes ==
  /\ enabled \subseteq [board : Boards, dns : Dns, http : Ports, https : Ports]
  /\ webs \subseteq Boards \X Names \X LocalPorts
  /\ exposed \subseteq Boards \X Kinds \X Ports
  /\ record \in [Hosts -> Agents \cup {NULL}]
  /\ site \in [Agents -> [Dns -> Sites \cup {NULL}]]
  /\ cert \in [Boards -> SUBSET Names]
  /\ free \subseteq Ports
  /\ allow \subseteq Boards \X Ports
  /\ dirty \subseteq Boards \cup Dns
  /\ contested \subseteq Dns
  /\ orphan \subseteq Boards \X Names \X Dns
  /\ reused \in BOOLEAN

(* A step keeps the types if it keeps those of the tables and its worker    *)
(* comes to a place with what it needs there.                               *)
LEMMA TypedStep ==
  ASSUME Typed, NEW w \in Workers, Frame(w), TableTypes', FilledAt(w)'
  PROVE  Typed'
<1>1. \A u \in Workers \ {w} : FilledAt(u)'
  BY DEF Typed, Filled, FilledAt, Frame, Does, In
<1>2. Filled'
  BY <1>1 DEF Filled
<1>3. \A u \in Workers : pc'[u] = "idle" <=> op'[u] = NULL
  BY <1>2 DEF Filled, FilledAt
<1> QED
  BY <1>2, <1>3 DEF Typed, TypeOK, TableTypes, Frame, Labels

(* Being somewhere before a step and after it, or with the operation's      *)
(* board and name soiled; and after it only if before.                      *)
SameThere(w) ==
  /\ op'[w].board = op[w].board /\ op'[w].dns = op[w].dns
  /\ op'[w].name = op[w].name /\ op'[w].lport = op[w].lport
Stays(w, k, places) ==
  In(w, k, places) =>
    \/ In(w, k, places)' /\ SameThere(w)
    \/ op[w].board \in dirty' /\ op[w].dns \in dirty'
Was(w, k, places) == In(w, k, places)' => In(w, k, places) /\ SameThere(w)

(* What somebody does under a name, he does after w's step, or w's step     *)
(* soils the name.                                                          *)
LEMMA NameStays ==
  ASSUME NEW w \in Workers, Frame(w), NEW d, NEW k, NEW places, AtName(d, k, places),
         Stays(w, k, places) \/ op[w].dns # d
  PROVE  AtName(d, k, places)' \/ d \in dirty'
BY DEF AtName, In, Stays, SameThere, Frame

(* The same of a board, *)
LEMMA BoardStays ==
  ASSUME NEW w \in Workers, Frame(w), NEW b, NEW k, NEW places, AtBoard(b, k, places),
         Stays(w, k, places) \/ op[w].board # b
  PROVE  AtBoard(b, k, places)' \/ b \in dirty'
BY DEF AtBoard, In, Stays, SameThere, Frame

(* of a webservice, *)
LEMMA WebStays ==
  ASSUME NEW w \in Workers, Frame(w), NEW b, NEW n, NEW k, NEW places,
         AtWeb(b, n, k, places), Stays(w, k, places) \/ op[w].board # b \/ op[w].name # n
  PROVE  AtWeb(b, n, k, places)' \/ b \in dirty'
BY DEF AtWeb, In, Stays, SameThere, Frame

(* and of its full name. *)
LEMMA HostStays ==
  ASSUME NEW w \in Workers, Frame(w), NEW n, NEW d, NEW k, NEW places,
         AtHost(n, d, k, places), Stays(w, k, places) \/ op[w].dns # d \/ op[w].name # n
  PROVE  AtHost(n, d, k, places)' \/ d \in dirty'
BY DEF AtHost, In, Stays, SameThere, Frame

(* Who is at a place that w has not come to was there before. *)
LEMMA WasThere ==
  ASSUME NEW w \in Workers, Frame(w), NEW k, NEW places, Was(w, k, places),
         NEW u \in Workers, In(u, k, places)'
  PROVE  /\ In(u, k, places)
         /\ op'[u].board = op[u].board /\ op'[u].dns = op[u].dns
         /\ op'[u].name = op[u].name /\ op'[u].lport = op[u].lport
BY DEF In, Was, SameThere, Frame

-----------------------------------------------------------------------------
(* A step that leaves the rows alone keeps RunInv if its operation ends, or *)
(* goes on from somewhere else than is_enabled and does not save.           *)
LEMMA QuietRun ==
  ASSUME RunInv, NEW w \in Workers, Frame(w), UNCHANGED enabled,
         op[w] # NULL,
         \/ op'[w] = NULL
         \/ /\ op'[w] # NULL /\ pc[w] # "is_enabled" /\ (Before(w) <=> Before(w)')
            /\ op'[w].kind = op[w].kind /\ op'[w].board = op[w].board /\ op'[w].dns = op[w].dns
            /\ Before(w) \/ (op'[w].http = op[w].http /\ op'[w].https = op[w].https)
  PROVE  RunInv'
<1> USE DEF Runs, Before, In, Soiled
<1>1. \A u \in Workers : op'[u] # NULL =>
        /\ op[u] # NULL /\ (Before(u)' <=> Before(u))
        /\ op'[u].kind = op[u].kind /\ op'[u].board = op[u].board /\ op'[u].dns = op[u].dns
        /\ pc'[u] # "is_enabled" => pc[u] # "is_enabled"
        /\ Before(u) \/ (op'[u].http = op[u].http /\ op'[u].https = op[u].https)
  BY DEF Frame
<1>2. Alone'
  BY <1>1 DEF RunInv, Alone, Frame
<1>3. NewName'
  BY <1>1 DEF RunInv, NewName, Frame
<1>4. RowIsOwn'
  BY <1>1 DEF RunInv, RowIsOwn, Frame
<1>5. HasRow'
  BY <1>1 DEF RunInv, HasRow, Frame
<1>6. OneRow' /\ OneBoard'
  BY DEF RunInv, OneRow, OneBoard, Frame
<1>7. CheckedName' /\ UniqueDns'
  BY <1>1 DEF RunInv, CheckedName, UniqueDns, Frame
<1> QED
  BY <1>2, <1>3, <1>4, <1>5, <1>6, <1>7 DEF RunInv

-----------------------------------------------------------------------------
(* What is said of a row, or of a webservice in it, stays true while what   *)
(* it is about and the operations it excuses stay.                          *)

(* The record of a row. *)
LEMMA RecordOfRowStays ==
  ASSUME RecordOfRow, NEW w \in Workers, Frame(w), NEW e \in enabled,
         Stays(w, "disable", Unrecorded) \/ op[w].dns # e.dns,
         record'[<<NULL, e.dns>>] = record[<<NULL, e.dns>>]
  PROVE  \/ e.dns \in dirty' \/ AtName(e.dns, "disable", Unrecorded)'
         \/ record'[<<NULL, e.dns>>] = AgentOf[e.board]
<1> DEFINE d == e.dns
<1>1. d \in dirty \/ AtName(d, "disable", Unrecorded) \/ record[<<NULL, d>>] = AgentOf[e.board]
  BY DEF RecordOfRow
<1>2. dirty \subseteq dirty'
  BY DEF Frame
<1>3. record'[<<NULL, d>>] = record[<<NULL, d>>]
  OBVIOUS
<1>0. Stays(w, "disable", Unrecorded) \/ op[w].dns # d
  OBVIOUS
<1> HIDE DEF d
<1>4. d \in dirty' \/ AtName(d, "disable", Unrecorded)' \/ record'[<<NULL, d>>] = AgentOf[e.board]
  BY <1>0, <1>1, <1>2, <1>3, NameStays
<1> QED
  BY <1>4 DEF d

(* Its site: the file may be rewritten with the same ports. *)
LEMMA SiteOfRowStays ==
  ASSUME SiteOfRow, NEW w \in Workers, Frame(w),
         NEW e \in enabled,
         Stays(w, "disable", Unsited) \/ op[w].dns # e.dns,
         Stays(w, "enable", ToSite) \/ op[w].dns # e.dns,
         \/ SiteAt(e.board, e.dns)' = SiteAt(e.board, e.dns)
         \/ /\ SiteAt(e.board, e.dns)' # NULL
            /\ SiteAt(e.board, e.dns)'.http = SiteAt(e.board, e.dns).http
            /\ SiteAt(e.board, e.dns)'.https = SiteAt(e.board, e.dns).https
  PROVE  \/ e.dns \in dirty' \/ AtName(e.dns, "disable", Unsited)'
         \/ AtName(e.dns, "enable", ToSite)'
         \/ /\ SiteAt(e.board, e.dns)' # NULL
            /\ SiteAt(e.board, e.dns)'.http = e.http
            /\ SiteAt(e.board, e.dns)'.https = e.https
<1> DEFINE d == e.dns
           s == SiteAt(e.board, e.dns)
           t == SiteAt(e.board, e.dns)'
<1>1. \/ d \in dirty \/ AtName(d, "disable", Unsited) \/ AtName(d, "enable", ToSite)
      \/ s # NULL /\ s.http = e.http /\ s.https = e.https
  BY DEF SiteOfRow
<1>2. dirty \subseteq dirty'
  BY DEF Frame
<1>3. t = s \/ (t # NULL /\ t.http = s.http /\ t.https = s.https)
  OBVIOUS
<1>0. /\ Stays(w, "disable", Unsited) \/ op[w].dns # d
      /\ Stays(w, "enable", ToSite) \/ op[w].dns # d
  OBVIOUS
<1> HIDE DEF d, s, t
<1>4. \/ d \in dirty' \/ AtName(d, "disable", Unsited)' \/ AtName(d, "enable", ToSite)'
      \/ t # NULL /\ t.http = e.http /\ t.https = e.https
  BY <1>0, <1>1, <1>2, <1>3, NameStays
<1> QED
  BY <1>4 DEF d, t

(* Its exposed service for http, *)
LEMMA HttpOfRowStays ==
  ASSUME HttpOfRow, NEW w \in Workers, Frame(w),
         NEW e \in enabled,
         Stays(w, "disable", HttpGone) \/ op[w].dns # e.dns,
         Stays(w, "enable", ToServeHttp) \/ op[w].dns # e.dns,
         <<e.board, "http", e.http>> \in exposed =>
                              <<e.board, "http", e.http>> \in exposed'
  PROVE  \/ e.dns \in dirty' \/ AtName(e.dns, "disable", HttpGone)'
         \/ AtName(e.dns, "enable", ToServeHttp)' \/ <<e.board, "http", e.http>> \in exposed'
<1> DEFINE d == e.dns
<1>1. \/ d \in dirty \/ AtName(d, "disable", HttpGone)
      \/ AtName(d, "enable", ToServeHttp) \/ <<e.board, "http", e.http>> \in exposed
  BY DEF HttpOfRow
<1>2. dirty \subseteq dirty'
  BY DEF Frame
<1>0. /\ Stays(w, "disable", HttpGone) \/ op[w].dns # d
      /\ Stays(w, "enable", ToServeHttp) \/ op[w].dns # d
  OBVIOUS
<1> HIDE DEF d
<1>3. \/ d \in dirty' \/ AtName(d, "disable", HttpGone)'
      \/ AtName(d, "enable", ToServeHttp)' \/ <<e.board, "http", e.http>> \in exposed'
  BY <1>0, <1>1, <1>2, NameStays
<1> QED
  BY <1>3 DEF d

(* and for https. *)
LEMMA HttpsOfRowStays ==
  ASSUME HttpsOfRow, NEW w \in Workers, Frame(w),
         NEW e \in enabled,
         Stays(w, "disable", HttpsGone) \/ op[w].dns # e.dns,
         Stays(w, "enable", ToServeHttps) \/ op[w].dns # e.dns,
         <<e.board, "https", e.https>> \in exposed =>
                              <<e.board, "https", e.https>> \in exposed'
  PROVE  \/ e.dns \in dirty' \/ AtName(e.dns, "disable", HttpsGone)'
         \/ AtName(e.dns, "enable", ToServeHttps)' \/ <<e.board, "https", e.https>> \in exposed'
<1> DEFINE d == e.dns
<1>1. \/ d \in dirty \/ AtName(d, "disable", HttpsGone)
      \/ AtName(d, "enable", ToServeHttps) \/ <<e.board, "https", e.https>> \in exposed
  BY DEF HttpsOfRow
<1>2. dirty \subseteq dirty'
  BY DEF Frame
<1>0. /\ Stays(w, "disable", HttpsGone) \/ op[w].dns # d
      /\ Stays(w, "enable", ToServeHttps) \/ op[w].dns # d
  OBVIOUS
<1> HIDE DEF d
<1>3. \/ d \in dirty' \/ AtName(d, "disable", HttpsGone)'
      \/ AtName(d, "enable", ToServeHttps)' \/ <<e.board, "https", e.https>> \in exposed'
  BY <1>0, <1>1, <1>2, NameStays
<1> QED
  BY <1>3 DEF d

(* Its ports in the allow list. *)
LEMMA AllowOfRowStays ==
  ASSUME AllowOfRow, NEW w \in Workers, Frame(w), NEW e \in enabled,
         Stays(w, "disable", Disallowed) \/ op[w].dns # e.dns,
         Stays(w, "enable", ToAllowHttp) \/ op[w].dns # e.dns,
         Stays(w, "enable", ToAllowHttps) \/ op[w].dns # e.dns,
         <<e.board, e.http>> \in allow => <<e.board, e.http>> \in allow',
         <<e.board, e.https>> \in allow => <<e.board, e.https>> \in allow'
  PROVE  \/ e.dns \in dirty' \/ AtName(e.dns, "disable", Disallowed)'
         \/ /\ AtName(e.dns, "enable", ToAllowHttp)' \/ <<e.board, e.http>> \in allow'
            /\ AtName(e.dns, "enable", ToAllowHttps)' \/ <<e.board, e.https>> \in allow'
<1> DEFINE d == e.dns
<1>1. \/ d \in dirty \/ AtName(d, "disable", Disallowed)
      \/ /\ AtName(d, "enable", ToAllowHttp) \/ <<e.board, e.http>> \in allow
         /\ AtName(d, "enable", ToAllowHttps) \/ <<e.board, e.https>> \in allow
  BY DEF AllowOfRow
<1>2. dirty \subseteq dirty'
  BY DEF Frame
<1>0. /\ Stays(w, "disable", Disallowed) \/ op[w].dns # d
      /\ Stays(w, "enable", ToAllowHttp) \/ op[w].dns # d
      /\ Stays(w, "enable", ToAllowHttps) \/ op[w].dns # d
  OBVIOUS
<1> HIDE DEF d
<1>3. \/ d \in dirty' \/ AtName(d, "disable", Disallowed)'
      \/ /\ AtName(d, "enable", ToAllowHttp)' \/ <<e.board, e.http>> \in allow'
         /\ AtName(d, "enable", ToAllowHttps)' \/ <<e.board, e.https>> \in allow'
  BY <1>0, <1>1, <1>2, NameStays
<1> QED
  BY <1>3 DEF d

(* The same of webservices. *)
LEMMA ExcusedStays ==
  ASSUME NEW w, Frame(w), NEW v, NEW e, Excused(v, e)
  PROVE  Excused(v, e)'
BY DEF Frame, Excused, Orphaned, OrphanName

(* The redirect of a webservice. *)
LEMMA WebRedirectStays ==
  ASSUME WebRedirect, NEW w \in Workers, Frame(w),
         NEW v \in webs, NEW e \in enabled, v[1] = e.board,
         Stays(w, "unexpose", {"drop_web"}) \/ op[w].board # v[1] \/ op[w].name # v[2],
         Stays(w, "disable", Unsited) \/ op[w].board # v[1],
         \/ SiteAt(e.board, e.dns)' = SiteAt(e.board, e.dns)
         \/ SiteAt(e.board, e.dns) # NULL /\ v[2] \in SiteAt(e.board, e.dns).redirects =>
              SiteAt(e.board, e.dns)' # NULL /\ v[2] \in SiteAt(e.board, e.dns)'.redirects
  PROVE  \/ Excused(v, e)' \/ AtWeb(v[1], v[2], "unexpose", {"drop_web"})'
         \/ AtBoard(v[1], "disable", Unsited)'
         \/ SiteAt(e.board, e.dns)' # NULL /\ v[2] \in SiteAt(e.board, e.dns)'.redirects
<1> DEFINE b == v[1]
           n == v[2]
           S == SiteAt(e.board, e.dns) # NULL /\ v[2] \in SiteAt(e.board, e.dns).redirects
           T == SiteAt(e.board, e.dns)' # NULL /\ v[2] \in SiteAt(e.board, e.dns)'.redirects
<1>1. Excused(v, e) \/ AtWeb(b, n, "unexpose", {"drop_web"}) \/ AtBoard(b, "disable", Unsited) \/ S
  BY DEF WebRedirect
<1>2. b \in dirty' => Excused(v, e)'
  BY DEF Excused
<1>3. S => T
  OBVIOUS
<1>0. /\ Stays(w, "unexpose", {"drop_web"}) \/ op[w].board # b \/ op[w].name # n
      /\ Stays(w, "disable", Unsited) \/ op[w].board # b
  OBVIOUS
<1> HIDE DEF b, n, S, T
<1>4. Excused(v, e)' \/ AtWeb(b, n, "unexpose", {"drop_web"})' \/ AtBoard(b, "disable", Unsited)' \/ T
  BY <1>0, <1>1, <1>2, <1>3, ExcusedStays, WebStays, BoardStays
<1> QED
  BY <1>4 DEF b, n, T

(* Its certificate. *)
LEMMA WebCertStays ==
  ASSUME WebCert, NEW w \in Workers, Frame(w),
         NEW v \in webs, NEW e \in enabled, v[1] = e.board,
         Stays(w, "unexpose", Decerting) \/ op[w].board # v[1] \/ op[w].name # v[2],
         Stays(w, "disable", Uncerted) \/ op[w].board # v[1],
         v[2] \in cert[e.board] => v[2] \in cert'[e.board]
  PROVE  \/ Excused(v, e)' \/ AtWeb(v[1], v[2], "unexpose", Decerting)'
         \/ AtBoard(v[1], "disable", Uncerted)' \/ v[2] \in cert'[e.board]
<1> DEFINE b == v[1]
           n == v[2]
<1>1. Excused(v, e) \/ AtWeb(b, n, "unexpose", Decerting) \/ AtBoard(b, "disable", Uncerted)
      \/ v[2] \in cert[e.board]
  BY DEF WebCert
<1>2. b \in dirty' => Excused(v, e)'
  BY DEF Excused
<1>0. /\ Stays(w, "unexpose", Decerting) \/ op[w].board # b \/ op[w].name # n
      /\ Stays(w, "disable", Uncerted) \/ op[w].board # b
  OBVIOUS
<1> HIDE DEF b, n
<1>3. Excused(v, e)' \/ AtWeb(b, n, "unexpose", Decerting)' \/ AtBoard(b, "disable", Uncerted)'
      \/ v[2] \in cert'[e.board]
  BY <1>0, <1>1, <1>2, ExcusedStays, WebStays, BoardStays
<1> QED
  BY <1>3 DEF b, n

(* The owner of its name. *)
LEMMA NameOwnedStays ==
  ASSUME NameOwned, NEW w \in Workers, Frame(w), webs \subseteq webs', enabled \subseteq enabled',
         NEW n \in Names, NEW d \in Dns, record[<<n, d>>] # NULL,
         Stays(w, "expose", Named) \/ op[w].dns # d \/ op[w].name # n,
         Stays(w, "unexpose", {"name_unrecord"}) \/ op[w].dns # d \/ op[w].name # n
  PROVE  \/ d \in dirty' \/ OrphanName(n, d)'
         \/ \E e \in enabled', v \in webs' : v[1] = e.board /\ v[2] = n /\ e.dns = d
         \/ AtHost(n, d, "expose", Named)' \/ AtHost(n, d, "unexpose", {"name_unrecord"})'
<1>1. \/ d \in dirty \/ OrphanName(n, d)
      \/ \E e \in enabled, v \in webs : v[1] = e.board /\ v[2] = n /\ e.dns = d
      \/ AtHost(n, d, "expose", Named) \/ AtHost(n, d, "unexpose", {"name_unrecord"})
  BY DEF NameOwned
<1>2. dirty \subseteq dirty' /\ (OrphanName(n, d) => OrphanName(n, d)')
  BY DEF Frame, OrphanName
<1> QED
  BY <1>1, <1>2, HostStays

-----------------------------------------------------------------------------
(* A step that leaves alone what a part of the invariant is about keeps the *)
(* part, if its operation comes to no place that the part makes a claim on, *)
(* and leaves none the part needs. First the records.                       *)
LEMMA QuietRecord ==
  ASSUME RecordInv, NEW w \in Workers, Frame(w), UNCHANGED enabled,
         \A d \in Dns : record'[<<NULL, d>>] = record[<<NULL, d>>],
         TypeOK, TypeOK',
         Stays(w, "enable", Recorded), Stays(w, "disable", Unrecorded),
         Was(w, "enable", Recorded), Was(w, "disable", Unrecorded)
  PROVE  RecordInv'
<1>0. \A u \in Workers : op'[u] # NULL => op'[u].dns \in Dns
  BY DEF TypeOK, Operations
<1>1. dirty \subseteq dirty'
  BY DEF Frame
<1>2. RecordMade'
  BY <1>0, <1>1, WasThere DEF RecordInv, RecordMade, In
<1>3. RecordOfRow'
  <2> SUFFICES ASSUME NEW e \in enabled
               PROVE  \/ e.dns \in dirty' \/ AtName(e.dns, "disable", Unrecorded)'
                      \/ record'[<<NULL, e.dns>>] = AgentOf[e.board]
    BY DEF RecordOfRow
  <2>1. e.dns \in Dns
    BY DEF TypeOK
  <2> QED
    BY <2>1, RecordOfRowStays DEF RecordInv
<1>4. NoRecord'
  BY <1>0, <1>1, WasThere DEF RecordInv, NoRecord, In
<1>5. RecordOwned'
  <2> SUFFICES ASSUME NEW d \in Dns, record'[<<NULL, d>>] # NULL
               PROVE  \/ d \in dirty' \/ AtName(d, "enable", Recorded)'
                      \/ \E e \in enabled : e.dns = d
    BY DEF RecordOwned
  <2> QED
    BY <1>1, NameStays DEF RecordInv, RecordOwned
<1> QED
  BY <1>2, <1>3, <1>4, <1>5 DEF RecordInv

(* The sites. *)
LEMMA QuietSite ==
  ASSUME SiteInv, NEW w \in Workers, Frame(w), UNCHANGED <<enabled, site>>,
         pc'[w] # "write_site",
         Stays(w, "disable", Unsited), Stays(w, "enable", ToSite)
  PROVE  SiteInv'
<1>1. TextIsSite'
  BY DEF SiteInv, TextIsSite, SiteAt, Runs, Frame
<1>2. SiteOfRow'
  <2> SUFFICES ASSUME NEW e \in enabled
               PROVE  \/ e.dns \in dirty' \/ AtName(e.dns, "disable", Unsited)'
                      \/ AtName(e.dns, "enable", ToSite)'
                      \/ /\ SiteAt(e.board, e.dns)' # NULL
                         /\ SiteAt(e.board, e.dns)'.http = e.http
                         /\ SiteAt(e.board, e.dns)'.https = e.https
    BY DEF SiteOfRow
  <2>1. SiteAt(e.board, e.dns)' = SiteAt(e.board, e.dns)
    BY DEF SiteAt
  <2> QED
    BY <2>1, SiteOfRowStays DEF SiteInv
<1> QED
  BY <1>1, <1>2 DEF SiteInv

(* The exposed services and the allow list. *)
LEMMA QuietServe ==
  ASSUME ServeInv, NEW w \in Workers, Frame(w), UNCHANGED <<enabled, exposed, allow>>,
         Stays(w, "disable", HttpGone), Stays(w, "disable", HttpsGone),
         Stays(w, "disable", Disallowed),
         Stays(w, "enable", ToServeHttp), Stays(w, "enable", ToServeHttps),
         Stays(w, "enable", ToAllowHttp), Stays(w, "enable", ToAllowHttps),
         Was(w, "disable", HttpGone), Was(w, "disable", HttpsGone)
  PROVE  ServeInv'
<1>1. dirty \subseteq dirty'
  BY DEF Frame
<1>2. ASSUME NEW e \in enabled
      PROVE  /\ \/ e.dns \in dirty' \/ AtName(e.dns, "disable", HttpGone)'
                \/ AtName(e.dns, "enable", ToServeHttp)' \/ <<e.board, "http", e.http>> \in exposed'
             /\ \/ e.dns \in dirty' \/ AtName(e.dns, "disable", HttpsGone)'
                \/ AtName(e.dns, "enable", ToServeHttps)' \/ <<e.board, "https", e.https>> \in exposed'
             /\ \/ e.dns \in dirty' \/ AtName(e.dns, "disable", Disallowed)'
                \/ /\ AtName(e.dns, "enable", ToAllowHttp)' \/ <<e.board, e.http>> \in allow'
                   /\ AtName(e.dns, "enable", ToAllowHttps)' \/ <<e.board, e.https>> \in allow'
  BY HttpOfRowStays, HttpsOfRowStays, AllowOfRowStays DEF ServeInv
<1>3. HttpOfRow' /\ HttpsOfRow' /\ AllowOfRow'
  BY <1>2 DEF HttpOfRow, HttpsOfRow, AllowOfRow
<1>4. RowOfServed'
  BY <1>1 DEF ServeInv, RowOfServed, PortOf
<1>5. Stopped'
  BY <1>1, WasThere DEF ServeInv, Stopped, In, Does
<1> QED
  BY <1>3, <1>4, <1>5 DEF ServeInv

(* What an operation holds it held before, or nothing, or it is soiled. *)
Held0(w) ==
  \/ op'[w] = NULL
  \/ /\ op[w] # NULL
     /\ op'[w].kind = op[w].kind /\ op'[w].http = op[w].http /\ op'[w].https = op[w].https
     /\ op'[w].board = op[w].board /\ op'[w].dns = op[w].dns
  \/ op'[w].kind # "enable"
  \/ op'[w].http = NULL /\ op'[w].https = NULL
  \/ op'[w].board \in dirty' /\ op'[w].dns \in dirty'

(* Who holds a port held it before. *)
LEMMA HeldBefore ==
  ASSUME NEW w \in Workers, Frame(w), Held0(w), NEW u \in Workers, NEW p \in Ports, Holds(u, p)'
  PROVE  \/ Holds(u, p) /\ op'[u].board = op[u].board /\ op'[u].dns = op[u].dns
         \/ op'[u].board \in dirty' /\ op'[u].dns \in dirty'
<1>1. p # NULL
  BY WebAssumption
<1> QED
  BY <1>1 DEF Frame, Held0, Holds, Does

(* What excuses an exposed service goes on, *)
LEMMA LeftStays ==
  ASSUME NEW w \in Workers, Frame(w), NEW x, Left(x),
         Stays(w, "disable", {"drop_https"}) \/ op[w].board # x[1] \/ x[2] # "https"
  PROVE  Left(x)'
<1>1. dirty \subseteq dirty'
  BY DEF Frame
<1> DEFINE b == x[1]
<1>2. b \in dirty \/ (x[2] = "https" /\ AtBoard(b, "disable", {"drop_https"}))
  BY DEF Left, Dropping
<1>0. Stays(w, "disable", {"drop_https"}) \/ op[w].board # b \/ x[2] # "https"
  OBVIOUS
<1> HIDE DEF b
<1>3. b \in dirty' \/ (x[2] = "https" /\ AtBoard(b, "disable", {"drop_https"})')
  BY <1>0, <1>1, <1>2, BoardStays
<1> QED
  BY <1>3 DEF b, Left, Dropping

(* and what excuses a row. *)
LEMMA LeavingStays ==
  ASSUME NEW w \in Workers, Frame(w), NEW e, Leaving(e),
         Stays(w, "disable", HttpGone) \/ op[w].dns # e.dns \/ e.dns \in dirty
  PROVE  Leaving(e)'
<1>1. dirty \subseteq dirty'
  BY DEF Frame
<1> DEFINE d == e.dns
<1>2. d \in dirty \/ AtName(d, "disable", HttpGone)
  BY DEF Leaving
<1>0. Stays(w, "disable", HttpGone) \/ op[w].dns # d \/ d \in dirty
  OBVIOUS
<1> HIDE DEF d
<1>3. d \in dirty' \/ AtName(d, "disable", HttpGone)'
  BY <1>0, <1>1, <1>2, NameStays
<1> QED
  BY <1>3 DEF d, Leaving

(* Ports: rows, services and the list may lose some. *)
LEMMA QuietPort ==
  ASSUME PortInv, TypeOK, NEW w \in Workers, Frame(w), enabled' \subseteq enabled,
         free' \subseteq free, exposed' \subseteq exposed, Held0(w),
         \/ Stays(w, "disable", {"drop_https"})
         \/ \A x \in exposed' : op[w].board # x[1] \/ x[2] # "https",
         \/ Stays(w, "disable", HttpGone)
         \/ \A e \in enabled' : op[w].dns # e.dns \/ e.dns \in dirty
  PROVE  PortInv'
<1> USE DEF Soiled
<1> SUFFICES ASSUME ~reused'
             PROVE  (/\ FreeHeld /\ FreeServed /\ FreeRow
                     /\ HeldHeld /\ HeldServed /\ HeldRow /\ ServedRow)'
  BY DEF PortInv
<1>1. /\ FreeHeld /\ FreeServed /\ FreeRow
      /\ HeldHeld /\ HeldServed /\ HeldRow /\ ServedRow
  BY DEF PortInv, Frame
<1>2. dirty \subseteq dirty'
  BY DEF Frame
<1>3. /\ free \subseteq Ports
      /\ \A x \in exposed : x[3] \in Ports
      /\ \A e \in enabled : \A p \in PortsOf(e) : p \in Ports
  BY DEF TypeOK, PortsOf
<1>4. FreeHeld'
  BY <1>1, <1>2, <1>3, HeldBefore DEF FreeHeld
<1>5. FreeServed'
  <2> SUFFICES ASSUME NEW x \in exposed', x[3] \in free
               PROVE  Left(x)'
    BY DEF FreeServed
  <2> QED
    BY <1>1, LeftStays DEF FreeServed
<1>6. FreeRow'
  <2> SUFFICES ASSUME NEW e \in enabled', PortsOf(e) \cap free # {}
               PROVE  Leaving(e)'
    BY DEF FreeRow, PortsOf
  <2> QED
    BY <1>1, LeavingStays DEF FreeRow
<1>7. HeldHeld'
  BY <1>1, <1>2, HeldBefore DEF HeldHeld
<1>8. HeldServed'
  <2> SUFFICES ASSUME NEW u \in Workers, NEW x \in exposed', Holds(u, x[3])', x[1] # op'[u].board
               PROVE  (op'[u].board \in dirty' /\ op'[u].dns \in dirty') \/ Left(x)'
    BY DEF HeldServed
  <2> DEFINE p == x[3]
  <2>1. p \in Ports /\ Holds(u, p)'
    BY <1>3
  <2> HIDE DEF p
  <2>2. \/ Holds(u, p) /\ op'[u].board = op[u].board /\ op'[u].dns = op[u].dns
        \/ op'[u].board \in dirty' /\ op'[u].dns \in dirty'
    BY <2>1, HeldBefore
  <2>3. (op'[u].board \in dirty' /\ op'[u].dns \in dirty') \/ Left(x)
    BY <1>1, <1>2, <2>2 DEF HeldServed, p
  <2> QED
    BY <2>3, LeftStays
<1>9. HeldRow'
  <2> SUFFICES ASSUME NEW u \in Workers, NEW e \in enabled', NEW p \in PortsOf(e),
                      Holds(u, p)', e.board # op'[u].board
               PROVE  (op'[u].board \in dirty' /\ op'[u].dns \in dirty') \/ Leaving(e)'
    BY DEF HeldRow, PortsOf
  <2>1. p \in Ports
    BY <1>3
  <2>2. \/ Holds(u, p) /\ op'[u].board = op[u].board /\ op'[u].dns = op[u].dns
        \/ op'[u].board \in dirty' /\ op'[u].dns \in dirty'
    BY <2>1, HeldBefore
  <2>3. (op'[u].board \in dirty' /\ op'[u].dns \in dirty') \/ Leaving(e)
    BY <1>1, <1>2, <2>2 DEF HeldRow
  <2> QED
    BY <2>3, LeavingStays
<1>10. ServedRow'
  <2> SUFFICES ASSUME NEW x \in exposed', NEW e \in enabled', x[3] \in PortsOf(e), x[1] # e.board
               PROVE  Left(x)' \/ Leaving(e)'
    BY DEF ServedRow, PortsOf
  <2> QED
    BY <1>1, LeftStays, LeavingStays DEF ServedRow
<1> QED
  BY <1>4, <1>5, <1>6, <1>7, <1>8, <1>9, <1>10

(* The webservices. *)
LEMMA QuietWeb ==
  ASSUME WebInv, NEW w \in Workers, Frame(w), UNCHANGED webs, enabled \subseteq enabled',
         Does(w, "expose")' => /\ Does(w, "expose") /\ SameThere(w)
                               /\ op'[w].names = op[w].names,
         Was(w, "unexpose", WebThere), Was(w, "unexpose", {"name_unrecord"}),
         Was(w, "enable", Checked)
  PROVE  WebInv'
<1>1. dirty \subseteq dirty' /\ orphan \subseteq orphan'
  BY DEF Frame
<1>2. \A u \in Workers : Does(u, "expose")' =>
        /\ Does(u, "expose")
        /\ op'[u].board = op[u].board /\ op'[u].name = op[u].name /\ op'[u].names = op[u].names
  BY DEF Frame, Does, SameThere
<1>3. WebHasRow' /\ OneWeb'
  BY <1>1 DEF WebInv, WebHasRow, OneWeb, Orphaned
<1>4. FreshName'
  BY <1>1, <1>2 DEF WebInv, FreshName, Does
<1>5. NamesRead'
  BY <1>1, <1>2 DEF WebInv, NamesRead, Does
<1>6. WebToGo'
  BY <1>1, WasThere DEF WebInv, WebToGo, In
<1>7. WebIsGone'
  BY <1>1, WasThere DEF WebInv, WebIsGone, In
<1>8. NewBoard'
  BY <1>1, WasThere DEF WebInv, NewBoard, In, Orphaned
<1> QED
  BY <1>3, <1>4, <1>5, <1>6, <1>7, <1>8 DEF WebInv

(* Their names. *)
LEMMA QuietName ==
  ASSUME NameInv, NEW w \in Workers, Frame(w), UNCHANGED <<webs, enabled>>,
         \A n \in Names, d \in Dns : record'[<<n, d>>] = record[<<n, d>>],
         TypeOK, Typed',
         Stays(w, "expose", Named), Stays(w, "unexpose", {"name_unrecord"}),
         Was(w, "expose", Named)
  PROVE  NameInv'
<1>1. dirty \subseteq dirty' /\ orphan \subseteq orphan'
  BY DEF Frame
<1>2. NameOwned'
  <2> SUFFICES ASSUME NEW n \in Names, NEW d \in Dns, record[<<n, d>>] # NULL
               PROVE  \/ d \in dirty' \/ OrphanName(n, d)'
                      \/ \E e \in enabled, v \in webs : v[1] = e.board /\ v[2] = n /\ e.dns = d
                      \/ AtHost(n, d, "expose", Named)'
                      \/ AtHost(n, d, "unexpose", {"name_unrecord"})'
    BY DEF NameOwned
  <2> QED
    BY NameOwnedStays DEF NameInv
<1>3. NameMade'
  <2> SUFFICES ASSUME NEW u \in Workers, In(u, "expose", Named)'
               PROVE  \/ op'[u].board \in dirty' \/ op'[u].dns \in dirty'
                      \/ OrphanName(op[u].name, op[u].dns)'
                      \/ record'[<<op'[u].name, op'[u].dns>>] = AgentOf[op'[u].board]
    BY DEF NameMade
  <2>1. /\ In(u, "expose", Named) /\ op'[u].board = op[u].board
        /\ op'[u].dns = op[u].dns /\ op'[u].name = op[u].name
    BY WasThere
  <2>2. op'[u].name \in Names /\ op'[u].dns \in Dns
    BY DEF Typed, Filled, FilledAt, TypeOK, In, Does, Operations
  <2>3. \/ op[u].board \in dirty \/ op[u].dns \in dirty
        \/ OrphanName(op[u].name, op[u].dns)
        \/ record[<<op[u].name, op[u].dns>>] = AgentOf[op[u].board]
    BY <2>1 DEF NameInv, NameMade
  <2> QED
    BY <1>1, <2>1, <2>2, <2>3 DEF OrphanName
<1>4. WebRecord'
  <2> SUFFICES ASSUME NEW v \in webs, NEW e \in enabled, v[1] = e.board
               PROVE  Excused(v, e)' \/ record'[<<v[2], e.dns>>] = AgentOf[e.board]
    BY DEF WebRecord
  <2>1. v[2] \in Names /\ e.dns \in Dns
    BY DEF TypeOK
  <2> QED
    BY <2>1, ExcusedStays DEF NameInv, WebRecord
<1> QED
  BY <1>2, <1>3, <1>4 DEF NameInv

(* Their redirects. *)
LEMMA QuietRedirect ==
  ASSUME RedirectInv, NEW w \in Workers, Frame(w), UNCHANGED <<webs, enabled, site>>,
         Stays(w, "unexpose", {"drop_web"}), Stays(w, "disable", Unsited),
         Was(w, "expose", Redirected)
  PROVE  RedirectInv'
<1>1. dirty \subseteq dirty'
  BY DEF Frame
<1>2. WebRedirect'
  <2> SUFFICES ASSUME NEW v \in webs, NEW e \in enabled, v[1] = e.board
               PROVE  \/ Excused(v, e)' \/ AtWeb(v[1], v[2], "unexpose", {"drop_web"})'
                      \/ AtBoard(v[1], "disable", Unsited)'
                      \/ /\ SiteAt(e.board, e.dns)' # NULL
                         /\ v[2] \in SiteAt(e.board, e.dns)'.redirects
    BY DEF WebRedirect
  <2>1. SiteAt(e.board, e.dns)' = SiteAt(e.board, e.dns)
    BY DEF SiteAt
  <2> QED
    BY <2>1, WebRedirectStays DEF RedirectInv
<1>3. RedirectMade'
  <2> SUFFICES ASSUME NEW u \in Workers, In(u, "expose", Redirected)'
               PROVE  \/ op'[u].board \in dirty' \/ op'[u].dns \in dirty'
                      \/ /\ SiteAt(op'[u].board, op'[u].dns) # NULL
                         /\ op'[u].name \in SiteAt(op'[u].board, op'[u].dns).redirects
    BY DEF RedirectMade, SiteAt
  <2>1. /\ In(u, "expose", Redirected) /\ op'[u].board = op[u].board
        /\ op'[u].dns = op[u].dns /\ op'[u].name = op[u].name
    BY WasThere
  <2> QED
    BY <1>1, <2>1 DEF RedirectInv, RedirectMade
<1> QED
  BY <1>2, <1>3 DEF RedirectInv

(* Their certificates. *)
LEMMA QuietCert ==
  ASSUME CertInv, NEW w \in Workers, Frame(w), UNCHANGED <<webs, enabled, cert>>,
         Stays(w, "unexpose", Decerting), Stays(w, "disable", Uncerted),
         Was(w, "expose", Certified), In(w, "expose", Certified)' => op'[w].ok = op[w].ok
  PROVE  CertInv'
<1>1. dirty \subseteq dirty'
  BY DEF Frame
<1>2. WebCert'
  <2> SUFFICES ASSUME NEW v \in webs, NEW e \in enabled, v[1] = e.board
               PROVE  \/ Excused(v, e)' \/ AtWeb(v[1], v[2], "unexpose", Decerting)'
                      \/ AtBoard(v[1], "disable", Uncerted)'
                      \/ v[2] \in cert'[e.board]
    BY DEF WebCert
  <2> QED
    BY WebCertStays DEF CertInv
<1>3. CertMade'
  <2> SUFFICES ASSUME NEW u \in Workers, In(u, "expose", Certified)', op'[u].ok
               PROVE  op'[u].board \in dirty' \/ op'[u].name \in cert[op'[u].board]
    BY DEF CertMade
  <2>1. /\ In(u, "expose", Certified) /\ op'[u].board = op[u].board
        /\ op'[u].dns = op[u].dns /\ op'[u].name = op[u].name
    BY WasThere
  <2>2. op[u].ok
    BY DEF Frame
  <2> QED
    BY <1>1, <2>1, <2>2 DEF CertInv, CertMade
<1> QED
  BY <1>2, <1>3 DEF CertInv

-----------------------------------------------------------------------------
(* Whose steps a place is of. *)
LEMMA WhoIsThere ==
  ASSUME Typed, NEW w \in Workers
  PROVE  /\ pc[w] \in Labels
         /\ pc[w] # "idle" => op[w] # NULL
         /\ pc[w] \in Enabling => op[w] # NULL /\ op[w].kind = "enable"
         /\ pc[w] \in Disabling => op[w] # NULL /\ op[w].kind = "disable"
         /\ pc[w] \in Exposing => op[w] # NULL /\ op[w].kind = "expose"
         /\ pc[w] \in Unexposing => op[w] # NULL /\ op[w].kind = "unexpose"
         /\ pc[w] \in Redirecting => op[w] # NULL /\ op[w].kind # "disable"
<1>1. pc[w] \in Labels /\ FilledAt(w)
  BY DEF Typed, TypeOK, Filled, Labels
<1>2. op[w] # NULL => op[w].kind \in {"enable", "disable", "expose", "unexpose"}
  BY RunsOperation DEF Typed
<1> QED
  BY <1>1, <1>2 DEF FilledAt, Does, In, Labels, Enabling, Disabling, Exposing, Unexposing, Redirecting

(* The row of another board has the name of an operation, or two operations *)
(* have one name, only if the two were enabled at the same time.            *)
LEMMA RowElsewhere ==
  ASSUME RunInv, NEW w \in Workers, op[w] # NULL,
         NEW e \in enabled, e.dns = op[w].dns, e.board # op[w].board
  PROVE  e.dns \in dirty
<1>1. CASE Before(w)
  BY <1>1 DEF RunInv, NewName
<1>2. CASE ~Before(w)
  BY <1>2 DEF RunInv, HasRow, Runs, Soiled, OneBoard
<1> QED
  BY <1>1, <1>2

(* The same of two operations. *)
LEMMA RunElsewhere ==
  ASSUME RunInv, NEW w \in Workers, NEW u \in Workers, u # w,
         op[w] # NULL, op[u] # NULL, op[u].dns = op[w].dns
  PROVE  op[w].dns \in dirty
<1>1. CASE op[u].board = op[w].board
  BY <1>1 DEF RunInv, Alone, Runs, Soiled
<1>2. CASE Before(w) /\ Before(u)
  BY <1>2 DEF RunInv, NewName
<1>3. CASE ~Before(w) /\ op[u].board # op[w].board
  BY <1>3, RowElsewhere DEF RunInv, HasRow, Runs, Soiled
<1>4. CASE ~Before(u) /\ op[u].board # op[w].board
  BY <1>4, RowElsewhere DEF RunInv, HasRow, Runs, Soiled
<1> QED
  BY <1>1, <1>2, <1>3, <1>4

(* The row of an operation's own board is the one it has read or made. *)
LEMMA OwnRow ==
  ASSUME RunInv, NEW w \in Workers, op[w] # NULL, ~Before(w), pc[w] # "is_enabled",
         NEW e \in enabled, e.board = op[w].board
  PROVE  \/ Soiled(e.board, e.dns) /\ op[w].dns \in dirty
         \/ /\ e.dns = op[w].dns
            /\ op[w].kind \in {"enable", "disable"} => e.http = op[w].http /\ e.https = op[w].https
<1>1. (Soiled(e.board, e.dns) /\ op[w].dns \in dirty) \/ e.dns = op[w].dns
  BY DEF RunInv, RowIsOwn, Runs
<1>2. \/ Soiled(op[w].board, op[w].dns)
      \/ \E f \in enabled :
           /\ f.board = op[w].board /\ f.dns = op[w].dns
           /\ op[w].kind \in {"enable", "disable"} => f.http = op[w].http /\ f.https = op[w].https
  BY DEF RunInv, HasRow, Runs
<1>3. \A f \in enabled : f # e /\ f.board = e.board => Soiled(e.board, e.dns) /\ Soiled(f.board, f.dns)
  BY DEF RunInv, OneRow
<1> QED
  BY <1>1, <1>2, <1>3 DEF Soiled

(* What another operation had certified stays so while only the own board's *)
(* certificates change.                                                     *)
LEMMA CertElsewhere ==
  ASSUME CertInv, RunInv, TypeOK, NEW w \in Workers, Frame(w), op[w] # NULL,
         \A b \in Boards : b # op[w].board => cert'[b] = cert[b],
         NEW u \in Workers, u # w, In(u, "expose", Certified)', op'[u].ok
  PROVE  op'[u].board \in dirty' \/ op'[u].name \in cert'[op'[u].board]
<1>1. /\ op'[u] = op[u] /\ pc'[u] = pc[u] /\ op[u] # NULL /\ dirty \subseteq dirty'
      /\ In(u, "expose", Certified)
  BY DEF Frame, In
<1>2. op[u].board \in Boards
  BY <1>1, RunsOperation
<1>3. op[u].board = op[w].board => op[u].board \in dirty
  BY <1>1 DEF RunInv, Alone, Soiled, Runs
<1> QED
  BY <1>1, <1>2, <1>3 DEF CertInv, CertMade

(* A row is soiled, of another board and name than an operation, or its own. *)
LEMMA RowCases ==
  ASSUME RunInv, NEW w \in Workers, op[w] # NULL, ~Before(w), pc[w] # "is_enabled",
         NEW e \in enabled
  PROVE  \/ e.dns \in dirty
         \/ e.dns # op[w].dns /\ e.board # op[w].board
         \/ /\ e.dns = op[w].dns /\ e.board = op[w].board
            /\ op[w].kind \in {"enable", "disable"} => e.http = op[w].http /\ e.https = op[w].https
BY RowElsewhere, OwnRow DEF Soiled

(* Nobody else is at a place under an operation's name. *)
LEMMA NameOnlyHere ==
  ASSUME RunInv, NEW w \in Workers, op[w] # NULL, NEW d, d = op[w].dns,
         NEW k, NEW places, AtName(d, k, places)
  PROVE  d \in dirty \/ In(w, k, places)
BY RunElsewhere DEF AtName, In

(* A port of a row that nothing soils is held by an operation or served by  *)
(* the row's board, unless the board is being disabled.                     *)
LEMMA RowIsTaken ==
  ASSUME RunInv, ServeInv, NEW e \in enabled, ~Leaving(e), NEW p \in PortsOf(e)
  PROVE  (\E u \in Workers : Holds(u, p)) \/ (\E y \in exposed : y[1] = e.board /\ y[3] = p)
<1>1. e.dns \notin dirty /\ ~AtName(e.dns, "disable", HttpGone) /\ ~AtName(e.dns, "disable", HttpsGone)
  BY DEF Leaving, AtName, In, HttpGone
<1>2. CASE AtName(e.dns, "enable", ToServeHttps)
  <2>1. PICK u \in Workers : In(u, "enable", ToServeHttps) /\ op[u].dns = e.dns
    BY <1>2 DEF AtName
  <2>2. op[u] # NULL /\ ~Before(u) /\ pc[u] # "is_enabled"
    BY <2>1 DEF Before, In, Unsaved, ToServeHttps
  <2>3. e.http = op[u].http /\ e.https = op[u].https
    BY <1>1, <2>1, <2>2, RowCases DEF In
  <2> QED
    BY <2>1, <2>3 DEF Holds, Does, In, PortsOf
<1>3. CASE ~AtName(e.dns, "enable", ToServeHttps)
  <2>1. ~AtName(e.dns, "enable", ToServeHttp)
    BY <1>3 DEF AtName, In, ToServeHttp, ToServeHttps
  <2>2. <<e.board, "http", e.http>> \in exposed /\ <<e.board, "https", e.https>> \in exposed
    BY <1>1, <1>3, <2>1 DEF ServeInv, HttpOfRow, HttpsOfRow
  <2> QED
    BY <2>2 DEF PortsOf
<1> QED
  BY <1>2, <1>3

(* A port that nobody has: an operation may take it. *)
NotTaken(p) ==
  /\ \A u \in Workers : Holds(u, p) => Soiled(op[u].board, op[u].dns)
  /\ \A x \in exposed : x[3] = p => Left(x)
  /\ \A e \in enabled : p \in PortsOf(e) => Leaving(e)

(* The list has such ports only, and so has the one rebuilt from the rows   *)
(* if no port held comes to it.                                             *)
LEMMA ListedNotTaken ==
  ASSUME RunInv, ServeInv, NEW list, \A p \in list : NotTaken(p),
         ~(list = {} /\ Listed(list) \cap Held # {})
  PROVE  \A p \in Listed(list) : NotTaken(p)
<1>1. CASE list # {}
  BY <1>1 DEF Listed
<1>2. CASE list = {}
  <2> SUFFICES ASSUME NEW p \in Listed(list)
               PROVE  NotTaken(p)
    OBVIOUS
  <2>1. \A u \in Workers : ~Holds(u, p)
    BY <1>2 DEF Held, Holds, Does
  <2>2. \A x \in exposed : x[3] # p
    BY <1>2 DEF Listed
  <2> QED
    BY <2>1, <2>2, RowIsTaken DEF NotTaken
<1> QED
  BY <1>1, <1>2

(* CreateRecord: a name that nobody has gets the agent of its board. *)
LEMMA CreateRecordKeeps ==
  ASSUME IInv, NEW w \in Workers, CreateRecord(w)
  PROVE  IInv'
<1> USE DEF Stays, Was, SameThere, In, Does, Runs
<1>0. /\ Typed /\ RunInv /\ RecordInv /\ SiteInv /\ ServeInv /\ PortInv
      /\ WebInv /\ NameInv /\ RedirectInv /\ CertInv
  BY DEF IInv
<1>1. /\ pc[w] = "record" /\ op[w] # NULL /\ op[w].kind = "enable"
      /\ UNCHANGED <<tables, site, cert, free, allow, op, ghosts>>
  BY <1>0, WhoIsThere DEF CreateRecord, At, Enabling
<1>2. Goes(w, "lookup") /\ op'[w] = op[w]
  BY <1>0, <1>1, GoesOn DEF CreateRecord, Typed, Labels, Enabling, Grown, ghosts
<1>3. Frame(w)
  BY <1>2 DEF Goes
<1>4. op[w].dns \in Dns /\ op[w].board \in Boards /\ AgentOf[op[w].board] \in Agents
  BY <1>0, <1>1, RunsOperation DEF Typed
<1>5. /\ record' \in [Hosts -> Agents \cup {NULL}]
      /\ \A d \in Dns : d # op[w].dns => record'[<<NULL, d>>] = record[<<NULL, d>>]
      /\ \A n \in Names, d \in Dns : record'[<<n, d>>] = record[<<n, d>>]
      /\ record'[<<NULL, op[w].dns>>] =
           IF record[<<NULL, op[w].dns>>] = NULL THEN AgentOf[op[w].board]
                                                 ELSE record[<<NULL, op[w].dns>>]
  BY <1>0, <1>4, WebAssumption DEF CreateRecord, Resolving, Typed, TypeOK, Hosts
<1>6. Typed'
  <2>1. TableTypes'
    BY <1>0, <1>1, <1>5 DEF Typed, TypeOK, TableTypes, tables, ghosts
  <2>2. FilledAt(w)'
    BY <1>0, <1>1, <1>2 DEF Typed, Filled, FilledAt, Goes, Enabling, Undrawn
  <2> QED
    BY <1>0, <1>3, <2>1, <2>2, TypedStep
<1>7. RunInv'
  BY <1>0, <1>1, <1>2, <1>3, QuietRun DEF Goes, Before, Unsaved, tables
<1>8. SiteInv'
  BY <1>0, <1>1, <1>2, <1>3, QuietSite DEF Goes, tables, Unsited, Disallowed, ToSite
<1>9. ServeInv'
  BY <1>0, <1>1, <1>2, <1>3, QuietServe DEF Goes, tables, HttpGone, HttpsGone, Uncerted, Unrecorded,
     Unsited, Disallowed, ToServeHttp, ToServeHttps, ToAllowHttp, ToAllowHttps
<1>10. PortInv'
  BY <1>0, <1>1, <1>2, <1>3, QuietPort DEF Goes, Typed, tables, Held0
<1>11. WebInv'
  BY <1>0, <1>1, <1>2, <1>3, QuietWeb DEF Goes, Checked, Enabling, tables
<1>12. NameInv'
  BY <1>0, <1>1, <1>2, <1>3, <1>5, <1>6, QuietName DEF Goes, Typed, tables
<1>13. RedirectInv'
  BY <1>0, <1>1, <1>2, <1>3, QuietRedirect DEF Goes, tables
<1>14. CertInv'
  BY <1>0, <1>1, <1>2, <1>3, QuietCert DEF Goes, tables
<1>15. RecordInv'
  <2> DEFINE d == op[w].dns
  <2>1. dirty \subseteq dirty' /\ enabled' = enabled
    BY <1>1, <1>3 DEF Frame, tables
  <2>2. Before(w) /\ d \in Dns
    BY <1>1, <1>4 DEF Before, Unsaved
  <2>3. \A e \in enabled : e.dns = d => d \in dirty
    BY <1>0, <2>2 DEF RunInv, NewName
  <2>4. \A u \in Workers \ {w} : In(u, "enable", Recorded) /\ op[u].dns = d => d \in dirty
    BY <1>0, <2>2 DEF RunInv, NewName, Before, Unsaved, Recorded
  <2>5. \A u \in Workers : In(u, "disable", Unrecorded) /\ op[u].dns = d => d \in dirty
    BY <1>0, <2>3 DEF RunInv, HasRow, Before, Soiled
  <2>6. \A u \in Workers \ {w} : op'[u] = op[u] /\ pc'[u] = pc[u]
    BY <1>3 DEF Frame
  <2>7. \A u \in Workers : op'[u] # NULL => op'[u].dns \in Dns
    BY <1>6 DEF Typed, TypeOK, Operations
  <2>8. Stays(w, "enable", Recorded) /\ Stays(w, "disable", Unrecorded)
    BY <1>1, <1>2 DEF Goes, Recorded, Unrecorded, Unsited, Disallowed
  <2>9. RecordMade'
    <3>1. d \in dirty \/ record'[<<NULL, d>>] = AgentOf[op[w].board]
      <4> SUFFICES ASSUME record[<<NULL, d>>] # NULL
                   PROVE  d \in dirty
        BY <1>5
      <4>1. d \in dirty \/ AtName(d, "enable", Recorded) \/ \E e \in enabled : e.dns = d
        BY <1>0, <2>2 DEF RecordInv, RecordOwned
      <4>2. ~In(w, "enable", Recorded)
        BY <1>1 DEF Recorded
      <4> QED
        BY <2>3, <2>4, <4>1, <4>2 DEF AtName
    <3>2. \A u \in Workers \ {w} : In(u, "enable", Recorded)' =>
            op[u].dns \in dirty' \/ record'[<<NULL, op[u].dns>>] = AgentOf[op[u].board]
      BY <1>0, <1>5, <2>1, <2>4, <2>6, <2>7 DEF RecordInv, RecordMade
    <3> QED
      BY <1>2, <2>1, <2>6, <3>1, <3>2 DEF RecordMade
  <2>10. RecordOfRow'
    <3> SUFFICES ASSUME NEW e \in enabled
                 PROVE  \/ e.dns \in dirty' \/ AtName(e.dns, "disable", Unrecorded)'
                        \/ record'[<<NULL, e.dns>>] = AgentOf[e.board]
      BY <2>1 DEF RecordOfRow
    <3> DEFINE f == e.dns
    <3>1. f \in Dns /\ (f = d => f \in dirty)
      BY <1>0, <2>3 DEF Typed, TypeOK
    <3>2. f \in dirty \/ AtName(f, "disable", Unrecorded) \/ record[<<NULL, f>>] = AgentOf[e.board]
      BY <1>0 DEF RecordInv, RecordOfRow
    <3> HIDE DEF f
    <3>3. f \in dirty' \/ AtName(f, "disable", Unrecorded)' \/ record'[<<NULL, f>>] = AgentOf[e.board]
      BY <1>3, <1>5, <2>1, <2>8, <3>1, <3>2, NameStays
    <3> QED
      BY <3>3 DEF f
  <2>11. NoRecord'
    BY <1>0, <1>1, <1>2, <1>5, <2>1, <2>5, <2>6, <2>7 DEF RecordInv, NoRecord, Goes
  <2>12. RecordOwned'
    <3> SUFFICES ASSUME NEW f \in Dns, record'[<<NULL, f>>] # NULL
                 PROVE  \/ f \in dirty' \/ AtName(f, "enable", Recorded)'
                        \/ \E e \in enabled : e.dns = f
      BY <2>1 DEF RecordOwned
    <3>1. CASE f = d
      <4>1. In(w, "enable", Recorded)' /\ op'[w].dns = d
        BY <1>1, <1>2 DEF Goes, Recorded
      <4> QED
        BY <3>1, <4>1 DEF AtName
    <3>2. CASE f # d
      BY <1>0, <1>3, <1>5, <2>1, <2>8, <3>2, NameStays DEF RecordInv, RecordOwned
    <3> QED
      BY <3>1, <3>2
  <2> QED
    BY <2>9, <2>10, <2>11, <2>12 DEF RecordInv
<1> QED
  BY <1>6, <1>7, <1>8, <1>9, <1>10, <1>11, <1>12, <1>13, <1>14, <1>15 DEF IInv

(* Unconfigure: the board loses the certificates it need not have any more. *)
LEMMA UnconfigureKeeps ==
  ASSUME IInv, NEW w \in Workers, Unconfigure(w)
  PROVE  IInv'
<1> USE DEF Stays, Was, SameThere, In, Does, Runs
<1>0. /\ Typed /\ RunInv /\ RecordInv /\ SiteInv /\ ServeInv /\ PortInv
      /\ WebInv /\ NameInv /\ RedirectInv /\ CertInv
  BY DEF IInv
<1>1. /\ pc[w] = "unconfigure" /\ op[w] # NULL /\ op[w].kind = "disable"
      /\ cert' = [cert EXCEPT ![op[w].board] = {}]
      /\ UNCHANGED <<tables, record, site, free, allow, op, ghosts>>
  BY <1>0, WhoIsThere DEF Unconfigure, At, Disabling
<1>2. Goes(w, "unrecord") /\ op'[w] = op[w]
  BY <1>0, <1>1, GoesOn DEF Unconfigure, Typed, Labels, Disabling, Redirecting, Grown, ghosts
<1>3. Frame(w)
  BY <1>2 DEF Goes
<1>4. Typed'
  <2>1. TableTypes'
    BY <1>0, <1>1 DEF Typed, TypeOK, TableTypes, tables, remote, ghosts
  <2>2. FilledAt(w)'
    BY <1>0, <1>1, <1>2 DEF Typed, Filled, FilledAt, Goes, Disabling, Redirecting, Undrawn
  <2> QED
    BY <1>0, <1>3, <2>1, <2>2, TypedStep
<1>5. RunInv'
  BY <1>0, <1>1, <1>2, <1>3, QuietRun
  DEF Goes, Before, Unsaved, tables
<1>6. RecordInv'
  BY <1>0, <1>1, <1>2, <1>3, <1>4, QuietRecord
  DEF Goes, Typed, Recorded, Unrecorded, Unsited, Disallowed, tables, remote
<1>7. SiteInv'
  BY <1>0, <1>1, <1>2, <1>3, QuietSite
  DEF Goes, Unsited, Disallowed, ToSite, tables, remote
<1>8. ServeInv'
  BY <1>0, <1>1, <1>2, <1>3, QuietServe
  DEF Goes, HttpGone, HttpsGone, Uncerted, Unrecorded,
     Unsited, Disallowed, ToServeHttp, ToServeHttps, ToAllowHttp, ToAllowHttps, tables, remote
<1>9. PortInv'
  BY <1>0, <1>1, <1>2, <1>3, QuietPort
  DEF Goes, Held0, HttpGone, HttpsGone, Uncerted, Unrecorded,
     Unsited, Disallowed, Typed, tables
<1>10. WebInv'
  BY <1>0, <1>1, <1>2, <1>3, QuietWeb
  DEF Goes, WebThere, Checked, Enabling, tables
<1>11. NameInv'
  BY <1>0, <1>1, <1>2, <1>3, <1>4, QuietName
  DEF Goes, Named, Typed, tables, remote
<1>12. RedirectInv'
  BY <1>0, <1>1, <1>2, <1>3, QuietRedirect
  DEF Goes, Unsited, Disallowed, Redirected, tables, remote
<1>13. CertInv'
  <2>1. /\ \A b \in Boards : b # op[w].board => cert'[b] = cert[b]
        /\ \A e \in enabled : e.board \in Boards
        /\ dirty \subseteq dirty'
    BY <1>0, <1>1, <1>3 DEF Typed, TypeOK, Frame
  <2>2. WebCert'
    <3> SUFFICES ASSUME NEW v \in webs, NEW e \in enabled, v[1] = e.board
                 PROVE  \/ Excused(v, e)' \/ AtWeb(v[1], v[2], "unexpose", Decerting)'
                        \/ AtBoard(v[1], "disable", Uncerted)' \/ v[2] \in cert'[e.board]
      BY <1>1 DEF WebCert, tables
    <3>1. CASE v[1] = op[w].board
      <4>1. In(w, "disable", Uncerted)' /\ op'[w].board = op[w].board
        BY <1>1, <1>2 DEF Goes, Uncerted
      <4>2. AtBoard(v[1], "disable", Uncerted)'
        BY <3>1, <4>1 DEF AtBoard
      <4> QED
        BY <4>2
    <3>2. CASE v[1] # op[w].board
      BY <1>0, <1>3, <2>1, <3>2, WebCertStays DEF CertInv
    <3> QED
      BY <3>1, <3>2
  <2>3. CertMade'
    <3> SUFFICES ASSUME NEW u \in Workers, In(u, "expose", Certified)', op'[u].ok
                 PROVE  op'[u].board \in dirty' \/ op'[u].name \in cert'[op'[u].board]
      BY DEF CertMade
    <3>1. CASE u # w
      BY <1>0, <1>1, <1>3, <2>1, <3>1, CertElsewhere DEF Typed
    <3>2. CASE u = w
      BY <1>1, <1>2, <3>2 DEF Goes
    <3> QED
      BY <3>1, <3>2
  <2> QED
    BY <2>2, <2>3 DEF CertInv
<1> QED
  BY <1>4, <1>5, <1>6, <1>7, <1>8, <1>9, <1>10, <1>11, <1>12, <1>13 DEF IInv

(* Configure: a board that enables the module has webservices of before only. *)
LEMMA ConfigureKeeps ==
  ASSUME IInv, NEW w \in Workers, Configure(w)
  PROVE  IInv'
<1> USE DEF Stays, Was, SameThere, In, Does, Runs
<1>0. /\ Typed /\ RunInv /\ RecordInv /\ SiteInv /\ ServeInv /\ PortInv
      /\ WebInv /\ NameInv /\ RedirectInv /\ CertInv
  BY DEF IInv
<1>1. /\ pc[w] = "configure" /\ op[w] # NULL /\ op[w].kind = "enable"
      /\ cert' = [cert EXCEPT ![op[w].board] = {}]
      /\ UNCHANGED <<tables, record, site, free, allow, op, ghosts>>
  BY <1>0, WhoIsThere DEF Configure, At, Enabling
<1>2. Goes(w, "read_site") /\ op'[w] = op[w]
  BY <1>0, <1>1, GoesOn DEF Configure, Typed, Labels, Enabling, Redirecting, Grown, ghosts
<1>3. Frame(w)
  BY <1>2 DEF Goes
<1>4. Typed'
  <2>1. TableTypes'
    BY <1>0, <1>1 DEF Typed, TypeOK, TableTypes, tables, remote, ghosts
  <2>2. FilledAt(w)'
    BY <1>0, <1>1, <1>2 DEF Typed, Filled, FilledAt, Goes, Enabling, Redirecting, Undrawn
  <2> QED
    BY <1>0, <1>3, <2>1, <2>2, TypedStep
<1>5. RunInv'
  BY <1>0, <1>1, <1>2, <1>3, QuietRun
  DEF Goes, Before, Unsaved, tables
<1>6. RecordInv'
  BY <1>0, <1>1, <1>2, <1>3, <1>4, QuietRecord
  DEF Goes, Typed, Recorded, Unrecorded, Unsited, Disallowed, tables, remote
<1>7. SiteInv'
  BY <1>0, <1>1, <1>2, <1>3, QuietSite
  DEF Goes, Unsited, Disallowed, ToSite, tables, remote
<1>8. ServeInv'
  BY <1>0, <1>1, <1>2, <1>3, QuietServe
  DEF Goes, HttpGone, HttpsGone, Uncerted, Unrecorded,
     Unsited, Disallowed, ToServeHttp, ToServeHttps, ToAllowHttp, ToAllowHttps, tables, remote
<1>9. PortInv'
  BY <1>0, <1>1, <1>2, <1>3, QuietPort
  DEF Goes, Held0, HttpGone, HttpsGone, Uncerted, Unrecorded,
     Unsited, Disallowed, Typed, tables
<1>10. WebInv'
  BY <1>0, <1>1, <1>2, <1>3, QuietWeb
  DEF Goes, WebThere, Checked, Enabling, tables
<1>11. NameInv'
  BY <1>0, <1>1, <1>2, <1>3, <1>4, QuietName
  DEF Goes, Named, Typed, tables, remote
<1>12. RedirectInv'
  BY <1>0, <1>1, <1>2, <1>3, QuietRedirect
  DEF Goes, Unsited, Disallowed, Redirected, tables, remote
<1>13. CertInv'
  <2>1. /\ \A b \in Boards : b # op[w].board => cert'[b] = cert[b]
        /\ \A e \in enabled : e.board \in Boards
        /\ dirty \subseteq dirty'
    BY <1>0, <1>1, <1>3 DEF Typed, TypeOK, Frame
  <2>2. WebCert'
    <3> SUFFICES ASSUME NEW v \in webs, NEW e \in enabled, v[1] = e.board
                 PROVE  \/ Excused(v, e)' \/ AtWeb(v[1], v[2], "unexpose", Decerting)'
                        \/ AtBoard(v[1], "disable", Uncerted)' \/ v[2] \in cert'[e.board]
      BY <1>1 DEF WebCert, tables
    <3>1. CASE v[1] = op[w].board
      <4>1. v[1] \in dirty \/ Orphaned(v[1], v[2])
        BY <1>0, <1>1, <3>1 DEF WebInv, NewBoard, Checked, Enabling
      <4>2. Excused(v, e)
        BY <4>1 DEF Excused
      <4> QED
        BY <1>3, <4>2, ExcusedStays
    <3>2. CASE v[1] # op[w].board
      BY <1>0, <1>3, <2>1, <3>2, WebCertStays DEF CertInv
    <3> QED
      BY <3>1, <3>2
  <2>3. CertMade'
    <3> SUFFICES ASSUME NEW u \in Workers, In(u, "expose", Certified)', op'[u].ok
                 PROVE  op'[u].board \in dirty' \/ op'[u].name \in cert'[op'[u].board]
      BY DEF CertMade
    <3>1. CASE u # w
      BY <1>0, <1>1, <1>3, <2>1, <3>1, CertElsewhere DEF Typed
    <3>2. CASE u = w
      BY <1>1, <1>2, <3>2 DEF Goes
    <3> QED
      BY <3>1, <3>2
  <2> QED
    BY <2>2, <2>3 DEF CertInv
<1> QED
  BY <1>4, <1>5, <1>6, <1>7, <1>8, <1>9, <1>10, <1>11, <1>12, <1>13 DEF IInv

(* Allow: first the http port, then the https port. *)
LEMMA AllowKeeps ==
  ASSUME IInv, NEW w \in Workers, Allow(w)
  PROVE  IInv'
<1> USE DEF Stays, Was, SameThere, In, Does, Runs
<1>0. /\ Typed /\ RunInv /\ RecordInv /\ SiteInv /\ ServeInv /\ PortInv
      /\ WebInv /\ NameInv /\ RedirectInv /\ CertInv
  BY DEF IInv
<1>1. /\ pc[w] \in {"allow_http", "allow_https"} /\ op[w] # NULL /\ op[w].kind = "enable"
      /\ op[w].http \in Ports /\ op[w].https \in Ports
      /\ pc[w] = "allow_http" => /\ allow' = allow \cup {<<op[w].board, op[w].http>>}
                                 /\ pc'[w] = "allow_https"
      /\ pc[w] = "allow_https" => /\ allow' = allow \cup {<<op[w].board, op[w].https>>}
                                  /\ pc'[w] = "serve_http"
      /\ UNCHANGED <<tables, record, site, cert, free, op, ghosts>>
  <2>1. pc[w] \in {"allow_http", "allow_https"}
    BY DEF Allow, At
  <2>2. op[w] # NULL /\ op[w].kind = "enable"
    BY <1>0, <2>1, WhoIsThere DEF Enabling
  <2>3. op[w].http \in Ports /\ op[w].https \in Ports
    BY <1>0, <2>1, <2>2 DEF Typed, Filled, FilledAt, Undrawn
  <2> QED
    BY <1>0, <2>1, <2>2, <2>3 DEF Allow, At, Goto, Typed, TypeOK
<1>2. Goes(w, pc'[w]) /\ op'[w] = op[w] /\ pc'[w] \in {"allow_https", "serve_http"}
  <2>1. \E l \in Labels : Goto(w, l)
    BY DEF Allow, Labels, Enabling
  <2> QED
    BY <1>0, <1>1, <2>1, GoesOn DEF Typed, Grown, ghosts, Goes
<1>3. Frame(w)
  BY <1>2 DEF Goes
<1>4. Typed'
  <2>1. op[w].board \in Boards
    BY <1>0, <1>1, RunsOperation DEF Typed
  <2>2. TableTypes'
    BY <1>0, <1>1, <2>1 DEF Typed, TypeOK, TableTypes, tables, ghosts
  <2>3. FilledAt(w)'
    BY <1>0, <1>1, <1>2 DEF Typed, Filled, FilledAt, Goes, Enabling, Undrawn
  <2> QED
    BY <1>0, <1>3, <2>2, <2>3, TypedStep
<1>5. RunInv'
  BY <1>0, <1>1, <1>2, <1>3, QuietRun
  DEF Goes, Before, Unsaved, tables
<1>6. RecordInv'
  BY <1>0, <1>1, <1>2, <1>3, <1>4, QuietRecord
  DEF Goes, Typed, Recorded, Unrecorded, Unsited, Disallowed, tables, remote
<1>7. SiteInv'
  BY <1>0, <1>1, <1>2, <1>3, QuietSite
  DEF Goes, Unsited, Disallowed, ToSite, tables, remote
<1>8. PortInv'
  BY <1>0, <1>1, <1>2, <1>3, QuietPort
  DEF Goes, Held0, HttpGone, HttpsGone, Uncerted, Unrecorded,
     Unsited, Disallowed, Typed, tables
<1>9. WebInv'
  BY <1>0, <1>1, <1>2, <1>3, QuietWeb
  DEF Goes, WebThere, Checked, Enabling, tables
<1>10. NameInv'
  BY <1>0, <1>1, <1>2, <1>3, <1>4, QuietName
  DEF Goes, Named, Typed, tables, remote
<1>11. RedirectInv'
  BY <1>0, <1>1, <1>2, <1>3, QuietRedirect
  DEF Goes, Unsited, Disallowed, Redirected, tables, remote
<1>12. CertInv'
  BY <1>0, <1>1, <1>2, <1>3, QuietCert
  DEF Goes, Uncerted, Unrecorded, Unsited, Disallowed, Certified, Decerting, tables, remote
<1>13. ServeInv'
  <2>1. ASSUME NEW e \in enabled
        PROVE  /\ \/ e.dns \in dirty' \/ AtName(e.dns, "disable", HttpGone)'
                  \/ AtName(e.dns, "enable", ToServeHttp)' \/ <<e.board, "http", e.http>> \in exposed'
               /\ \/ e.dns \in dirty' \/ AtName(e.dns, "disable", HttpsGone)'
                  \/ AtName(e.dns, "enable", ToServeHttps)' \/ <<e.board, "https", e.https>> \in exposed'
    <3>1. /\ Stays(w, "disable", HttpGone) /\ Stays(w, "disable", HttpsGone)
          /\ Stays(w, "enable", ToServeHttp) /\ Stays(w, "enable", ToServeHttps)
      BY <1>1, <1>2 DEF Goes, ToServeHttp, ToServeHttps
    <3> QED
      BY <1>0, <1>1, <1>3, <3>1, HttpOfRowStays, HttpsOfRowStays DEF ServeInv, tables
  <2>2. HttpOfRow' /\ HttpsOfRow'
    BY <1>1, <2>1 DEF HttpOfRow, HttpsOfRow, tables
  <2>3. RowOfServed'
    BY <1>0, <1>1, <1>3 DEF ServeInv, RowOfServed, PortOf, tables, Frame
  <2>4. Was(w, "disable", HttpGone) /\ Was(w, "disable", HttpsGone)
    BY <1>1, <1>2 DEF Goes
  <2>5. Stopped'
    BY <1>0, <1>1, <1>3, <2>4, WasThere DEF ServeInv, Stopped, tables, Frame
  <2>6. AllowOfRow'
    <3> SUFFICES ASSUME NEW e \in enabled
                 PROVE  \/ e.dns \in dirty' \/ AtName(e.dns, "disable", Disallowed)'
                        \/ /\ AtName(e.dns, "enable", ToAllowHttp)' \/ <<e.board, e.http>> \in allow'
                           /\ AtName(e.dns, "enable", ToAllowHttps)' \/ <<e.board, e.https>> \in allow'
      BY <1>1 DEF AllowOfRow, tables
    <3>1. allow \subseteq allow' /\ dirty \subseteq dirty'
      BY <1>1, <1>3 DEF Frame
    <3>2. CASE e.dns # op[w].dns
      BY <1>0, <1>3, <3>1, <3>2, AllowOfRowStays DEF ServeInv
    <3>3. CASE e.dns = op[w].dns /\ e.dns \notin dirty
      <4>1. e.board = op[w].board /\ e.http = op[w].http /\ e.https = op[w].https
        BY <1>0, <1>1, <3>3, RowCases DEF Before, Unsaved
      <4>2. CASE pc[w] = "allow_http"
        <5>1. In(w, "enable", ToAllowHttps)' /\ op'[w].dns = e.dns
          BY <1>1, <1>2, <3>3, <4>2 DEF ToAllowHttps
        <5>2. AtName(e.dns, "enable", ToAllowHttps)'
          BY <5>1 DEF AtName
        <5> QED
          BY <1>1, <4>1, <4>2, <5>2
      <4>3. CASE pc[w] = "allow_https"
        <5>1. ~In(w, "disable", Disallowed) /\ ~In(w, "enable", ToAllowHttp)
          BY <1>1, <4>3 DEF ToAllowHttp
        <5>2. ~AtName(e.dns, "disable", Disallowed) /\ ~AtName(e.dns, "enable", ToAllowHttp)
          BY <1>0, <1>1, <3>3, <5>1, NameOnlyHere
        <5>3. <<e.board, e.http>> \in allow
          BY <1>0, <3>3, <5>2 DEF ServeInv, AllowOfRow
        <5> QED
          BY <1>1, <3>1, <4>1, <4>3, <5>3
      <4> QED
        BY <1>1, <4>2, <4>3
    <3> QED
      BY <3>1, <3>2, <3>3
  <2> QED
    BY <2>2, <2>3, <2>5, <2>6 DEF ServeInv
<1> QED
  BY <1>4, <1>5, <1>6, <1>7, <1>8, <1>9, <1>10, <1>11, <1>12, <1>13 DEF IInv

(* Disallow: the two ports of the board, and nothing else, leave the allow list. *)
LEMMA DisallowKeeps ==
  ASSUME IInv, NEW w \in Workers, Disallow(w)
  PROVE  IInv'
<1> USE DEF Stays, Was, SameThere, In, Does, Runs
<1>0. /\ Typed /\ RunInv /\ RecordInv /\ SiteInv /\ ServeInv /\ PortInv
      /\ WebInv /\ NameInv /\ RedirectInv /\ CertInv
  BY DEF IInv
<1>1. /\ pc[w] \in {"disallow_http", "disallow_https"} /\ op[w] # NULL /\ op[w].kind = "disable"
      /\ pc[w] = "disallow_http" => /\ allow' = allow \ {<<op[w].board, op[w].http>>}
                                    /\ pc'[w] = "disallow_https"
      /\ pc[w] = "disallow_https" => /\ allow' = allow \ {<<op[w].board, op[w].https>>}
                                     /\ pc'[w] = "drop"
      /\ UNCHANGED <<tables, record, site, cert, free, op, ghosts>>
  <2>1. pc[w] \in {"disallow_http", "disallow_https"}
    BY DEF Disallow, At
  <2>2. op[w] # NULL /\ op[w].kind = "disable"
    BY <1>0, <2>1, WhoIsThere DEF Disabling
  <2> QED
    BY <1>0, <2>1, <2>2 DEF Disallow, At, Goto, Typed, TypeOK
<1>2. Goes(w, pc'[w]) /\ op'[w] = op[w] /\ pc'[w] \in {"disallow_https", "drop"}
  <2>1. \E l \in Labels : Goto(w, l)
    BY DEF Disallow, Labels, Disabling
  <2> QED
    BY <1>0, <1>1, <2>1, GoesOn DEF Typed, Grown, ghosts, Goes
<1>3. Frame(w)
  BY <1>2 DEF Goes
<1>4. Typed'
  <2>1. TableTypes'
    BY <1>0, <1>1 DEF Typed, TypeOK, TableTypes, tables, ghosts
  <2>2. FilledAt(w)'
    BY <1>0, <1>1, <1>2 DEF Typed, Filled, FilledAt, Goes, Disabling, Undrawn
  <2> QED
    BY <1>0, <1>3, <2>1, <2>2, TypedStep
<1>5. RunInv'
  BY <1>0, <1>1, <1>2, <1>3, QuietRun
  DEF Goes, Before, Unsaved, tables
<1>6. RecordInv'
  BY <1>0, <1>1, <1>2, <1>3, <1>4, QuietRecord
  DEF Goes, Typed, Recorded, Unrecorded, Unsited, Disallowed, tables, remote
<1>7. SiteInv'
  BY <1>0, <1>1, <1>2, <1>3, QuietSite
  DEF Goes, Unsited, Disallowed, ToSite, tables, remote
<1>8. PortInv'
  BY <1>0, <1>1, <1>2, <1>3, QuietPort
  DEF Goes, Held0, HttpGone, HttpsGone, Uncerted, Unrecorded,
     Unsited, Disallowed, Typed, tables
<1>9. WebInv'
  BY <1>0, <1>1, <1>2, <1>3, QuietWeb
  DEF Goes, WebThere, Checked, Enabling, tables
<1>10. NameInv'
  BY <1>0, <1>1, <1>2, <1>3, <1>4, QuietName
  DEF Goes, Named, Typed, tables, remote
<1>11. RedirectInv'
  BY <1>0, <1>1, <1>2, <1>3, QuietRedirect
  DEF Goes, Unsited, Disallowed, Redirected, tables, remote
<1>12. CertInv'
  BY <1>0, <1>1, <1>2, <1>3, QuietCert
  DEF Goes, Uncerted, Unrecorded, Unsited, Disallowed, Certified, Decerting, tables, remote
<1>13. ServeInv'
  <2>1. ASSUME NEW e \in enabled
        PROVE  /\ \/ e.dns \in dirty' \/ AtName(e.dns, "disable", HttpGone)'
                  \/ AtName(e.dns, "enable", ToServeHttp)' \/ <<e.board, "http", e.http>> \in exposed'
               /\ \/ e.dns \in dirty' \/ AtName(e.dns, "disable", HttpsGone)'
                  \/ AtName(e.dns, "enable", ToServeHttps)' \/ <<e.board, "https", e.https>> \in exposed'
    <3>1. /\ Stays(w, "disable", HttpGone) /\ Stays(w, "disable", HttpsGone)
          /\ Stays(w, "enable", ToServeHttp) /\ Stays(w, "enable", ToServeHttps)
      BY <1>1, <1>2 DEF Goes, HttpGone, HttpsGone, Uncerted, Unrecorded, Unsited, Disallowed
    <3> QED
      BY <1>0, <1>1, <1>3, <3>1, HttpOfRowStays, HttpsOfRowStays DEF ServeInv, tables
  <2>2. HttpOfRow' /\ HttpsOfRow'
    BY <1>1, <2>1 DEF HttpOfRow, HttpsOfRow, tables
  <2>3. RowOfServed'
    BY <1>0, <1>1, <1>3 DEF ServeInv, RowOfServed, PortOf, tables, Frame
  <2>4. Was(w, "disable", HttpGone) /\ Was(w, "disable", HttpsGone)
    BY <1>1, <1>2 DEF Goes, HttpGone, HttpsGone, Uncerted, Unrecorded, Unsited, Disallowed
  <2>5. Stopped'
    BY <1>0, <1>1, <1>3, <2>4, WasThere DEF ServeInv, Stopped, tables, Frame
  <2>6. AllowOfRow'
    <3> SUFFICES ASSUME NEW e \in enabled
                 PROVE  \/ e.dns \in dirty' \/ AtName(e.dns, "disable", Disallowed)'
                        \/ /\ AtName(e.dns, "enable", ToAllowHttp)' \/ <<e.board, e.http>> \in allow'
                           /\ AtName(e.dns, "enable", ToAllowHttps)' \/ <<e.board, e.https>> \in allow'
      BY <1>1 DEF AllowOfRow, tables
    <3>1. dirty \subseteq dirty'
      BY <1>3 DEF Frame
    <3>2. CASE e.dns \in dirty
      BY <3>1, <3>2
    <3>3. CASE e.dns # op[w].dns /\ e.board # op[w].board
      <4>1. /\ <<e.board, e.http>> \in allow => <<e.board, e.http>> \in allow'
            /\ <<e.board, e.https>> \in allow => <<e.board, e.https>> \in allow'
        BY <1>1, <3>3
      <4> QED
        BY <1>0, <1>3, <3>3, <4>1, AllowOfRowStays DEF ServeInv
    <3>4. CASE e.dns = op[w].dns
      <4>1. In(w, "disable", Disallowed)' /\ op'[w].dns = e.dns
        BY <1>1, <1>2, <3>4 DEF Disallowed
      <4>2. AtName(e.dns, "disable", Disallowed)'
        BY <4>1 DEF AtName
      <4> QED
        BY <4>2
    <3> QED
      BY <1>0, <1>1, <3>2, <3>3, <3>4, RowCases DEF Before
  <2> QED
    BY <2>2, <2>3, <2>5, <2>6 DEF ServeInv
<1> QED
  BY <1>4, <1>5, <1>6, <1>7, <1>8, <1>9, <1>10, <1>11, <1>12, <1>13 DEF IInv

(* StopHttp: the board is not served any more, and its http port is in no list. *)
LEMMA StopHttpKeeps ==
  ASSUME IInv, NEW w \in Workers, StopHttp(w)
  PROVE  IInv'
<1> USE DEF Stays, Was, SameThere, In, Does, Runs
<1>0. /\ Typed /\ RunInv /\ RecordInv /\ SiteInv /\ ServeInv /\ PortInv
      /\ WebInv /\ NameInv /\ RedirectInv /\ CertInv
  BY DEF IInv
<1>1. /\ pc[w] = "stop_http" /\ op[w] # NULL /\ op[w].kind = "disable"
      /\ exposed' = exposed \ Served(op[w].board, "http")
      /\ UNCHANGED <<enabled, webs, remote, free, op, ghosts>>
  BY <1>0, WhoIsThere DEF StopHttp, At, Disabling
<1>2. Goes(w, "stop_https") /\ op'[w] = op[w]
  BY <1>0, <1>1, GoesOn DEF StopHttp, Typed, Labels, Disabling, Redirecting, Grown, ghosts
<1>3. Frame(w)
  BY <1>2 DEF Goes
<1>4. Typed'
  <2>1. TableTypes'
    BY <1>0, <1>1 DEF Typed, TypeOK, TableTypes, Served, tables, remote, ghosts
  <2>2. FilledAt(w)'
    BY <1>0, <1>1, <1>2 DEF Typed, Filled, FilledAt, Goes, Disabling, Redirecting, Undrawn
  <2> QED
    BY <1>0, <1>3, <2>1, <2>2, TypedStep
<1>5. RunInv'
  BY <1>0, <1>1, <1>2, <1>3, QuietRun
  DEF Goes, Before, Unsaved, tables
<1>6. RecordInv'
  BY <1>0, <1>1, <1>2, <1>3, <1>4, QuietRecord
  DEF Goes, Typed, Recorded, Unrecorded, Unsited, Disallowed, tables, remote
<1>7. SiteInv'
  BY <1>0, <1>1, <1>2, <1>3, QuietSite
  DEF Goes, Unsited, Disallowed, ToSite, tables, remote
<1>8. PortInv'
  BY <1>0, <1>1, <1>2, <1>3, QuietPort
  DEF Goes, Held0, HttpGone, HttpsGone, Uncerted, Unrecorded,
     Unsited, Disallowed, Typed, tables
<1>9. WebInv'
  BY <1>0, <1>1, <1>2, <1>3, QuietWeb
  DEF Goes, WebThere, Checked, Enabling, tables
<1>10. NameInv'
  BY <1>0, <1>1, <1>2, <1>3, <1>4, QuietName
  DEF Goes, Named, Typed, tables, remote
<1>11. RedirectInv'
  BY <1>0, <1>1, <1>2, <1>3, QuietRedirect
  DEF Goes, Unsited, Disallowed, Redirected, tables, remote
<1>12. CertInv'
  BY <1>0, <1>1, <1>2, <1>3, QuietCert
  DEF Goes, Uncerted, Unrecorded, Unsited, Disallowed, Certified, Decerting, tables, remote
<1>13. ServeInv'
  <2>1. /\ dirty \subseteq dirty'
        /\ \A x \in exposed : x \in exposed' \/ (x[1] = op[w].board /\ x[2] = "http")
        /\ exposed' \subseteq exposed
    BY <1>1, <1>3 DEF Frame, Served
  <2>2. ASSUME NEW e \in enabled
        PROVE  /\ \/ e.dns \in dirty' \/ AtName(e.dns, "disable", HttpGone)'
                  \/ AtName(e.dns, "enable", ToServeHttp)' \/ <<e.board, "http", e.http>> \in exposed'
               /\ \/ e.dns \in dirty' \/ AtName(e.dns, "disable", HttpsGone)'
                  \/ AtName(e.dns, "enable", ToServeHttps)' \/ <<e.board, "https", e.https>> \in exposed'
               /\ \/ e.dns \in dirty' \/ AtName(e.dns, "disable", Disallowed)'
                  \/ /\ AtName(e.dns, "enable", ToAllowHttp)' \/ <<e.board, e.http>> \in allow'
                     /\ AtName(e.dns, "enable", ToAllowHttps)' \/ <<e.board, e.https>> \in allow'
    <3>1. /\ Stays(w, "disable", HttpGone) /\ Stays(w, "disable", HttpsGone)
          /\ Stays(w, "disable", Disallowed)
          /\ Stays(w, "enable", ToServeHttp) /\ Stays(w, "enable", ToServeHttps)
          /\ Stays(w, "enable", ToAllowHttp) /\ Stays(w, "enable", ToAllowHttps)
      BY <1>1, <1>2 DEF Goes, HttpGone, HttpsGone, Uncerted, Unrecorded, Unsited, Disallowed
    <3>2. \/ e.dns \in dirty' \/ AtName(e.dns, "disable", Disallowed)'
          \/ /\ AtName(e.dns, "enable", ToAllowHttp)' \/ <<e.board, e.http>> \in allow'
             /\ AtName(e.dns, "enable", ToAllowHttps)' \/ <<e.board, e.https>> \in allow'
      BY <1>0, <1>1, <1>3, <3>1, AllowOfRowStays DEF ServeInv, remote
    <3>3. \/ e.dns \in dirty' \/ AtName(e.dns, "disable", HttpsGone)'
          \/ AtName(e.dns, "enable", ToServeHttps)'
          \/ <<e.board, "https", e.https>> \in exposed'
      <4>1. <<e.board, "https", e.https>> \in exposed => <<e.board, "https", e.https>> \in exposed'
        BY <2>1
      <4> QED
        BY <1>0, <1>3, <3>1, <4>1, HttpsOfRowStays DEF ServeInv
    <3>4. \/ e.dns \in dirty' \/ AtName(e.dns, "disable", HttpGone)'
          \/ AtName(e.dns, "enable", ToServeHttp)'
          \/ <<e.board, "http", e.http>> \in exposed'
      <4>1. CASE e.dns \in dirty
        BY <2>1, <4>1
      <4>2. CASE e.board # op[w].board
        <5>1. <<e.board, "http", e.http>> \in exposed => <<e.board, "http", e.http>> \in exposed'
          BY <2>1, <4>2
        <5> QED
          BY <1>0, <1>3, <3>1, <5>1, HttpOfRowStays DEF ServeInv
      <4>3. CASE e.dns = op[w].dns
        <5>1. In(w, "disable", HttpGone)' /\ op'[w].dns = e.dns
          BY <1>1, <1>2, <4>3 DEF Goes, HttpGone, HttpsGone, Uncerted, Unrecorded
        <5>2. AtName(e.dns, "disable", HttpGone)'
          BY <5>1 DEF AtName
        <5> QED
          BY <5>2
      <4> QED
        BY <1>0, <1>1, <4>1, <4>2, <4>3, RowCases DEF Before
    <3> QED
      BY <3>2, <3>3, <3>4
  <2>3. HttpOfRow' /\ HttpsOfRow' /\ AllowOfRow'
    BY <1>1, <2>2 DEF HttpOfRow, HttpsOfRow, AllowOfRow
  <2>4. RowOfServed'
    BY <1>0, <1>1, <2>1 DEF ServeInv, RowOfServed, PortOf
  <2>5. Stopped'
    <3> SUFFICES ASSUME NEW u \in Workers, NEW x \in exposed', Does(u, "disable")', x[1] = op'[u].board
                 PROVE  \/ x[1] \in dirty'
                        \/ /\ ~(In(u, "disable", HttpGone)' /\ x[2] = "http")
                           /\ ~(In(u, "disable", HttpsGone)' /\ x[2] = "https")
      BY DEF Stopped
    <3>1. CASE u # w
      BY <1>0, <1>3, <2>1, <3>1 DEF ServeInv, Stopped, Frame
    <3>2. CASE u = w
      <4>1. x[2] # "http" /\ op'[w].board = op[w].board
        BY <1>1, <1>2, <3>2 DEF Served
      <4>2. ~In(w, "disable", HttpsGone)' 
        BY <1>1, <1>2 DEF Goes, HttpGone, HttpsGone, Uncerted, Unrecorded, Unsited, Disallowed
      <4> QED
        BY <1>0, <1>1, <2>1, <3>2, <4>1, <4>2 DEF ServeInv, Stopped
    <3> QED
      BY <3>1, <3>2
  <2> QED
    BY <2>3, <2>4, <2>5 DEF ServeInv
<1> QED
  BY <1>4, <1>5, <1>6, <1>7, <1>8, <1>9, <1>10, <1>11, <1>12, <1>13 DEF IInv

(* DropHttps: the second service goes, whose port is in the list already. *)
LEMMA DropHttpsKeeps ==
  ASSUME IInv, NEW w \in Workers, DropHttps(w)
  PROVE  IInv'
<1> USE DEF Stays, Was, SameThere, In, Does, Runs
<1>0. /\ Typed /\ RunInv /\ RecordInv /\ SiteInv /\ ServeInv /\ PortInv
      /\ WebInv /\ NameInv /\ RedirectInv /\ CertInv
  BY DEF IInv
<1>1. /\ pc[w] = "drop_https" /\ op[w] # NULL /\ op[w].kind = "disable"
      /\ exposed' = exposed \ Served(op[w].board, "https")
      /\ pc'[w] \in {"unconfigure", "unrecord"}
      /\ UNCHANGED <<enabled, webs, remote, free, op, ghosts>>
  BY <1>0, WhoIsThere DEF DropHttps, At, Disabling, Goto, Typed, TypeOK
<1>2. Goes(w, pc'[w]) /\ op'[w] = op[w]
  <2>1. \E l \in Labels : Goto(w, l)
    BY DEF DropHttps, Labels, Disabling
  <2> QED
    BY <1>0, <1>1, <2>1, GoesOn DEF Typed, Grown, ghosts, Goes
<1>3. Frame(w)
  BY <1>2 DEF Goes
<1>4. Typed'
  <2>1. TableTypes'
    BY <1>0, <1>1 DEF Typed, TypeOK, TableTypes, Served, tables, remote, ghosts
  <2>2. FilledAt(w)'
    BY <1>0, <1>1, <1>2 DEF Typed, Filled, FilledAt, Goes, Disabling, Redirecting, Undrawn
  <2> QED
    BY <1>0, <1>3, <2>1, <2>2, TypedStep
<1>5. RunInv'
  BY <1>0, <1>1, <1>2, <1>3, QuietRun
  DEF Goes, Before, Unsaved, tables
<1>6. RecordInv'
  BY <1>0, <1>1, <1>2, <1>3, <1>4, QuietRecord
  DEF Goes, Typed, Recorded, Unrecorded, Unsited, Disallowed, tables, remote
<1>7. SiteInv'
  BY <1>0, <1>1, <1>2, <1>3, QuietSite
  DEF Goes, Unsited, Disallowed, ToSite, tables, remote
<1>8. PortInv'
  BY <1>0, <1>1, <1>2, <1>3, <1>1, QuietPort
  DEF Goes, Served, Held0, HttpGone, HttpsGone, Uncerted, Unrecorded,
     Unsited, Disallowed, Typed, tables
<1>9. WebInv'
  BY <1>0, <1>1, <1>2, <1>3, QuietWeb
  DEF Goes, WebThere, Checked, Enabling, tables
<1>10. NameInv'
  BY <1>0, <1>1, <1>2, <1>3, <1>4, QuietName
  DEF Goes, Named, Typed, tables, remote
<1>11. RedirectInv'
  BY <1>0, <1>1, <1>2, <1>3, QuietRedirect
  DEF Goes, Unsited, Disallowed, Redirected, tables, remote
<1>12. CertInv'
  BY <1>0, <1>1, <1>2, <1>3, QuietCert
  DEF Goes, Uncerted, Unrecorded, Unsited, Disallowed, Certified, Decerting, tables, remote
<1>13. ServeInv'
  <2>1. /\ dirty \subseteq dirty'
        /\ \A x \in exposed : x \in exposed' \/ (x[1] = op[w].board /\ x[2] = "https")
        /\ exposed' \subseteq exposed
    BY <1>1, <1>3 DEF Frame, Served
  <2>2. ASSUME NEW e \in enabled
        PROVE  /\ \/ e.dns \in dirty' \/ AtName(e.dns, "disable", HttpGone)'
                  \/ AtName(e.dns, "enable", ToServeHttp)' \/ <<e.board, "http", e.http>> \in exposed'
               /\ \/ e.dns \in dirty' \/ AtName(e.dns, "disable", HttpsGone)'
                  \/ AtName(e.dns, "enable", ToServeHttps)' \/ <<e.board, "https", e.https>> \in exposed'
               /\ \/ e.dns \in dirty' \/ AtName(e.dns, "disable", Disallowed)'
                  \/ /\ AtName(e.dns, "enable", ToAllowHttp)' \/ <<e.board, e.http>> \in allow'
                     /\ AtName(e.dns, "enable", ToAllowHttps)' \/ <<e.board, e.https>> \in allow'
    <3>1. /\ Stays(w, "disable", HttpGone) /\ Stays(w, "disable", HttpsGone)
          /\ Stays(w, "disable", Disallowed)
          /\ Stays(w, "enable", ToServeHttp) /\ Stays(w, "enable", ToServeHttps)
          /\ Stays(w, "enable", ToAllowHttp) /\ Stays(w, "enable", ToAllowHttps)
      BY <1>1, <1>2 DEF Goes, HttpGone, HttpsGone, Uncerted, Unrecorded, Unsited, Disallowed
    <3>2. \/ e.dns \in dirty' \/ AtName(e.dns, "disable", Disallowed)'
          \/ /\ AtName(e.dns, "enable", ToAllowHttp)' \/ <<e.board, e.http>> \in allow'
             /\ AtName(e.dns, "enable", ToAllowHttps)' \/ <<e.board, e.https>> \in allow'
      BY <1>0, <1>1, <1>3, <3>1, AllowOfRowStays DEF ServeInv, remote
    <3>3. \/ e.dns \in dirty' \/ AtName(e.dns, "disable", HttpGone)'
          \/ AtName(e.dns, "enable", ToServeHttp)'
          \/ <<e.board, "http", e.http>> \in exposed'
      <4>1. <<e.board, "http", e.http>> \in exposed => <<e.board, "http", e.http>> \in exposed'
        BY <2>1
      <4> QED
        BY <1>0, <1>3, <3>1, <4>1, HttpOfRowStays DEF ServeInv
    <3>4. \/ e.dns \in dirty' \/ AtName(e.dns, "disable", HttpsGone)'
          \/ AtName(e.dns, "enable", ToServeHttps)'
          \/ <<e.board, "https", e.https>> \in exposed'
      <4>1. CASE e.dns \in dirty
        BY <2>1, <4>1
      <4>2. CASE e.board # op[w].board
        <5>1. <<e.board, "https", e.https>> \in exposed => <<e.board, "https", e.https>> \in exposed'
          BY <2>1, <4>2
        <5> QED
          BY <1>0, <1>3, <3>1, <5>1, HttpsOfRowStays DEF ServeInv
      <4>3. CASE e.dns = op[w].dns
        <5>1. In(w, "disable", HttpsGone)' /\ op'[w].dns = e.dns
          BY <1>1, <1>2, <4>3 DEF Goes, HttpGone, HttpsGone, Uncerted, Unrecorded
        <5>2. AtName(e.dns, "disable", HttpsGone)'
          BY <5>1 DEF AtName
        <5> QED
          BY <5>2
      <4> QED
        BY <1>0, <1>1, <4>1, <4>2, <4>3, RowCases DEF Before
    <3> QED
      BY <3>2, <3>3, <3>4
  <2>3. HttpOfRow' /\ HttpsOfRow' /\ AllowOfRow'
    BY <1>1, <2>2 DEF HttpOfRow, HttpsOfRow, AllowOfRow
  <2>4. RowOfServed'
    BY <1>0, <1>1, <2>1 DEF ServeInv, RowOfServed, PortOf
  <2>5. Stopped'
    <3> SUFFICES ASSUME NEW u \in Workers, NEW x \in exposed', Does(u, "disable")', x[1] = op'[u].board
                 PROVE  \/ x[1] \in dirty'
                        \/ /\ ~(In(u, "disable", HttpGone)' /\ x[2] = "http")
                           /\ ~(In(u, "disable", HttpsGone)' /\ x[2] = "https")
      BY DEF Stopped
    <3>1. CASE u # w
      BY <1>0, <1>3, <2>1, <3>1 DEF ServeInv, Stopped, Frame
    <3>2. CASE u = w
      <4>1. x[2] # "https" /\ op'[w].board = op[w].board
        BY <1>1, <1>2, <3>2 DEF Served
      <4>2. In(w, "disable", HttpGone)
        BY <1>1, <1>2 DEF Goes, HttpGone, HttpsGone, Uncerted, Unrecorded, Unsited, Disallowed
      <4> QED
        BY <1>0, <1>1, <2>1, <3>2, <4>1, <4>2 DEF ServeInv, Stopped
    <3> QED
      BY <3>1, <3>2
  <2> QED
    BY <2>3, <2>4, <2>5 DEF ServeInv
<1> QED
  BY <1>4, <1>5, <1>6, <1>7, <1>8, <1>9, <1>10, <1>11, <1>12, <1>13 DEF IInv

(* Serve: the ports of the row, which are no other board's, are served. *)
LEMMA ServeKeeps ==
  ASSUME IInv, NEW w \in Workers, Serve(w)
  PROVE  IInv'
<1> USE DEF Stays, Was, SameThere, In, Does, Runs
<1>0. /\ Typed /\ RunInv /\ RecordInv /\ SiteInv /\ ServeInv /\ PortInv
      /\ WebInv /\ NameInv /\ RedirectInv /\ CertInv
  BY DEF IInv
<1>1. /\ pc[w] \in {"serve_http", "serve_https"} /\ op[w] # NULL /\ op[w].kind = "enable"
      /\ op[w].board \in Boards /\ op[w].http \in Ports /\ op[w].https \in Ports
      /\ pc[w] = "serve_http" => /\ exposed' = exposed \cup {<<op[w].board, "http", op[w].http>>}
                                 /\ pc'[w] = "serve_https"
      /\ pc[w] = "serve_https" => /\ exposed' = exposed \cup {<<op[w].board, "https", op[w].https>>}
                                  /\ pc'[w] = "proxy"
      /\ UNCHANGED <<enabled, webs, remote, free, op, ghosts>>
  <2>1. pc[w] \in {"serve_http", "serve_https"}
    BY DEF Serve, At
  <2>2. op[w] # NULL /\ op[w].kind = "enable"
    BY <1>0, <2>1, WhoIsThere DEF Enabling
  <2>3. op[w].http \in Ports /\ op[w].https \in Ports
    BY <1>0, <2>1, <2>2 DEF Typed, Filled, FilledAt, Undrawn
  <2>4. op[w].board \in Boards
    BY <1>0, <2>2, RunsOperation DEF Typed
  <2> QED
    BY <1>0, <2>1, <2>2, <2>3, <2>4 DEF Serve, At, Goto, Typed, TypeOK
<1>2. Goes(w, pc'[w]) /\ op'[w] = op[w] /\ pc'[w] \in {"serve_https", "proxy"}
  <2>1. \E l \in Labels : Goto(w, l)
    BY DEF Serve, Labels, Enabling
  <2> QED
    BY <1>0, <1>1, <2>1, GoesOn DEF Typed, Grown, ghosts, Goes
<1>3. Frame(w)
  BY <1>2 DEF Goes
<1>4. Typed'
  <2>1. TableTypes'
    BY <1>0, <1>1 DEF Typed, TypeOK, TableTypes, Kinds, remote, ghosts
  <2>2. FilledAt(w)'
    BY <1>0, <1>1, <1>2 DEF Typed, Filled, FilledAt, Goes, Enabling, Undrawn
  <2> QED
    BY <1>0, <1>3, <2>1, <2>2, TypedStep
<1>5. RunInv'
  BY <1>0, <1>1, <1>2, <1>3, QuietRun
  DEF Goes, Before, Unsaved, tables
<1>6. RecordInv'
  BY <1>0, <1>1, <1>2, <1>3, <1>4, QuietRecord
  DEF Goes, Typed, Recorded, Unrecorded, Unsited, Disallowed, tables, remote
<1>7. SiteInv'
  BY <1>0, <1>1, <1>2, <1>3, QuietSite
  DEF Goes, Unsited, Disallowed, ToSite, tables, remote
<1>8. WebInv'
  BY <1>0, <1>1, <1>2, <1>3, QuietWeb
  DEF Goes, WebThere, Checked, Enabling, tables
<1>9. NameInv'
  BY <1>0, <1>1, <1>2, <1>3, <1>4, QuietName
  DEF Goes, Named, Typed, tables, remote
<1>10. RedirectInv'
  BY <1>0, <1>1, <1>2, <1>3, QuietRedirect
  DEF Goes, Unsited, Disallowed, Redirected, tables, remote
<1>11. CertInv'
  BY <1>0, <1>1, <1>2, <1>3, QuietCert
  DEF Goes, Uncerted, Unrecorded, Unsited, Disallowed, Certified, Decerting, tables, remote
<1>12. ServeInv'
  <2>1. /\ dirty \subseteq dirty' /\ exposed \subseteq exposed' /\ ~Before(w)
        /\ \A x \in exposed' : x \in exposed \/
             /\ x[1] = op[w].board
             /\ \/ x[2] = "http" /\ x[3] = op[w].http
                \/ x[2] = "https" /\ x[3] = op[w].https
    BY <1>1, <1>3 DEF Frame, Before, Unsaved
  <2>2. ASSUME NEW e \in enabled
        PROVE  /\ \/ e.dns \in dirty' \/ AtName(e.dns, "disable", HttpGone)'
                  \/ AtName(e.dns, "enable", ToServeHttp)' \/ <<e.board, "http", e.http>> \in exposed'
               /\ \/ e.dns \in dirty' \/ AtName(e.dns, "disable", HttpsGone)'
                  \/ AtName(e.dns, "enable", ToServeHttps)' \/ <<e.board, "https", e.https>> \in exposed'
               /\ \/ e.dns \in dirty' \/ AtName(e.dns, "disable", Disallowed)'
                  \/ /\ AtName(e.dns, "enable", ToAllowHttp)' \/ <<e.board, e.http>> \in allow'
                     /\ AtName(e.dns, "enable", ToAllowHttps)' \/ <<e.board, e.https>> \in allow'
    <3>1. /\ Stays(w, "disable", HttpGone) /\ Stays(w, "disable", HttpsGone)
          /\ Stays(w, "disable", Disallowed)
          /\ Stays(w, "enable", ToAllowHttp) /\ Stays(w, "enable", ToAllowHttps)
          /\ pc[w] = "serve_https" => Stays(w, "enable", ToServeHttp)
          /\ pc[w] = "serve_http" => Stays(w, "enable", ToServeHttps)
      BY <1>1, <1>2 DEF Goes, ToAllowHttp, ToAllowHttps, ToServeHttp, ToServeHttps
    <3>2. \/ e.dns \in dirty' \/ AtName(e.dns, "disable", Disallowed)'
          \/ /\ AtName(e.dns, "enable", ToAllowHttp)' \/ <<e.board, e.http>> \in allow'
             /\ AtName(e.dns, "enable", ToAllowHttps)' \/ <<e.board, e.https>> \in allow'
      BY <1>0, <1>1, <1>3, <3>1, AllowOfRowStays DEF ServeInv, remote
    <3>3. CASE e.dns \in dirty
      BY <2>1, <3>2, <3>3
    <3>4. CASE e.dns # op[w].dns
      BY <1>0, <1>3, <2>1, <3>1, <3>2, <3>4, HttpOfRowStays, HttpsOfRowStays DEF ServeInv
    <3>5. CASE /\ e.dns = op[w].dns /\ e.board = op[w].board
               /\ e.http = op[w].http /\ e.https = op[w].https
      <4>1. CASE pc[w] = "serve_http"
        <5>1. <<e.board, "http", e.http>> \in exposed'
          BY <1>1, <3>5, <4>1
        <5>2. \/ e.dns \in dirty' \/ AtName(e.dns, "disable", HttpsGone)'
              \/ AtName(e.dns, "enable", ToServeHttps)' \/ <<e.board, "https", e.https>> \in exposed'
          BY <1>0, <1>3, <2>1, <3>1, <4>1, HttpsOfRowStays DEF ServeInv
        <5> QED
          BY <3>2, <5>1, <5>2
      <4>2. CASE pc[w] = "serve_https"
        <5>1. <<e.board, "https", e.https>> \in exposed'
          BY <1>1, <3>5, <4>2
        <5>2. \/ e.dns \in dirty' \/ AtName(e.dns, "disable", HttpGone)'
              \/ AtName(e.dns, "enable", ToServeHttp)' \/ <<e.board, "http", e.http>> \in exposed'
          BY <1>0, <1>3, <2>1, <3>1, <4>2, HttpOfRowStays DEF ServeInv
        <5> QED
          BY <3>2, <5>1, <5>2
      <4> QED
        BY <1>1, <4>1, <4>2
    <3> QED
      BY <1>0, <1>1, <2>1, <3>3, <3>4, <3>5, RowCases
  <2>3. HttpOfRow' /\ HttpsOfRow' /\ AllowOfRow'
    BY <1>1, <2>2 DEF HttpOfRow, HttpsOfRow, AllowOfRow
  <2>4. RowOfServed'
    <3>1. \/ op[w].board \in dirty
          \/ \E e \in enabled : e.board = op[w].board /\ e.http = op[w].http /\ e.https = op[w].https
      BY <1>0, <1>1, <2>1 DEF RunInv, HasRow, Soiled
    <3> QED
      BY <1>0, <1>1, <2>1, <3>1 DEF ServeInv, RowOfServed, PortOf
  <2>5. Stopped'
    <3> SUFFICES ASSUME NEW u \in Workers, NEW x \in exposed', Does(u, "disable")', x[1] = op'[u].board
                 PROVE  \/ x[1] \in dirty'
                        \/ /\ ~(In(u, "disable", HttpGone)' /\ x[2] = "http")
                           /\ ~(In(u, "disable", HttpsGone)' /\ x[2] = "https")
      BY DEF Stopped
    <3>1. u # w /\ op'[u] = op[u] /\ pc'[u] = pc[u]
      BY <1>1, <1>2, <1>3 DEF Frame
    <3>2. CASE x \in exposed
      BY <1>0, <2>1, <3>1, <3>2 DEF ServeInv, Stopped
    <3>3. CASE x[1] = op[w].board
      BY <1>0, <1>1, <2>1, <3>1, <3>3 DEF RunInv, Alone, Soiled
    <3> QED
      BY <2>1, <3>2, <3>3
  <2> QED
    BY <2>3, <2>4, <2>5 DEF ServeInv
<1>13. PortInv'
  <2> USE DEF Soiled
  <2> SUFFICES ASSUME ~reused'
               PROVE  (/\ FreeHeld /\ FreeServed /\ FreeRow
                       /\ HeldHeld /\ HeldServed /\ HeldRow /\ ServedRow)'
    BY DEF PortInv
  <2>1. /\ FreeHeld /\ FreeServed /\ FreeRow
        /\ HeldHeld /\ HeldServed /\ HeldRow /\ ServedRow
        /\ dirty \subseteq dirty'
    BY <1>0, <1>3 DEF PortInv, Frame
  <2>2. /\ \A x \in exposed' : x \in exposed \/ (x[1] = op[w].board /\ Holds(w, x[3]))
        /\ \A x \in exposed' : x[3] \in Ports
        /\ \A e \in enabled : \A p \in PortsOf(e) : p \in Ports
    BY <1>0, <1>1 DEF Typed, TypeOK, PortsOf, Holds
  <2>3. \A u \in Workers : op'[u] = op[u]
    BY <1>1
  <2>4. Stays(w, "disable", {"drop_https"}) /\ Stays(w, "disable", HttpGone)
    BY <1>1
  <2>5. FreeHeld' /\ HeldHeld'
    BY <1>1, <2>1, <2>3 DEF FreeHeld, HeldHeld, Holds
  <2>6. FreeRow'
    <3> SUFFICES ASSUME NEW e \in enabled, PortsOf(e) \cap free # {}
                 PROVE  Leaving(e)'
      BY <1>1 DEF FreeRow, PortsOf
    <3> QED
      BY <1>3, <2>1, <2>4, LeavingStays DEF FreeRow
  <2>7. FreeServed'
    <3> SUFFICES ASSUME NEW x \in exposed', x[3] \in free
                 PROVE  Left(x)'
      BY <1>1 DEF FreeServed
    <3>1. CASE x \in exposed
      BY <1>3, <2>1, <2>4, <3>1, LeftStays DEF FreeServed
    <3>2. CASE x[1] = op[w].board /\ Holds(w, x[3])
      BY <2>1, <3>2 DEF FreeHeld, Left
    <3> QED
      BY <2>2, <3>1, <3>2
  <2>8. HeldServed'
    <3> SUFFICES ASSUME NEW u \in Workers, NEW x \in exposed', Holds(u, x[3]), x[1] # op[u].board
                 PROVE  (op[u].board \in dirty' /\ op[u].dns \in dirty') \/ Left(x)'
      BY <2>3 DEF HeldServed, Holds
    <3>1. CASE x \in exposed
      <4>1. (op[u].board \in dirty /\ op[u].dns \in dirty) \/ Left(x)
        BY <2>1, <3>1 DEF HeldServed
      <4> QED
        BY <1>3, <2>1, <2>4, <4>1, LeftStays
    <3>2. CASE x[1] = op[w].board /\ Holds(w, x[3])
      <4>1. (op[u].board \in dirty /\ op[u].dns \in dirty) \/ x[1] \in dirty
        BY <2>1, <2>2, <3>2 DEF HeldHeld
      <4> QED
        BY <2>1, <4>1 DEF Left
    <3> QED
      BY <2>2, <3>1, <3>2
  <2>9. HeldRow'
    <3> SUFFICES ASSUME NEW u \in Workers, NEW e \in enabled, NEW p \in PortsOf(e),
                        Holds(u, p), e.board # op[u].board
                 PROVE  (op[u].board \in dirty' /\ op[u].dns \in dirty') \/ Leaving(e)'
      BY <1>1, <2>3 DEF HeldRow, PortsOf, Holds
    <3>1. (op[u].board \in dirty /\ op[u].dns \in dirty) \/ Leaving(e)
      BY <2>1 DEF HeldRow
    <3> QED
      BY <1>3, <2>1, <2>4, <3>1, LeavingStays
  <2>10. ServedRow'
    <3> SUFFICES ASSUME NEW x \in exposed', NEW e \in enabled, x[3] \in PortsOf(e), x[1] # e.board
                 PROVE  Left(x)' \/ Leaving(e)'
      BY <1>1 DEF ServedRow, PortsOf
    <3>1. CASE x \in exposed
      <4>1. Left(x) \/ Leaving(e)
        BY <2>1, <3>1 DEF ServedRow
      <4> QED
        BY <1>3, <2>4, <4>1, LeftStays, LeavingStays
    <3>2. CASE x[1] = op[w].board /\ Holds(w, x[3])
      <4>1. x[1] \in dirty \/ Leaving(e)
        BY <2>1, <3>2 DEF HeldRow
      <4> QED
        BY <1>3, <2>1, <2>4, <4>1, LeavingStays DEF Left
    <3> QED
      BY <2>2, <3>1, <3>2
  <2> QED
    BY <2>5, <2>6, <2>7, <2>8, <2>9, <2>10
<1> QED
  BY <1>4, <1>5, <1>6, <1>7, <1>8, <1>9, <1>10, <1>11, <1>12, <1>13 DEF IInv

(* StopHttps: the port it hands back is no other board's, as long as nothing *)
(* taken has come to the list.                                              *)
LEMMA StopHttpsKeeps ==
  ASSUME IInv, NEW w \in Workers, StopHttps(w)
  PROVE  IInv'
<1> USE DEF Stays, Was, SameThere, In, Does, Runs
<1>0. /\ Typed /\ RunInv /\ RecordInv /\ SiteInv /\ ServeInv /\ PortInv
      /\ WebInv /\ NameInv /\ RedirectInv /\ CertInv
  BY DEF IInv
<1>1. /\ pc[w] = "stop_https" /\ op[w] # NULL /\ op[w].kind = "disable"
      /\ UNCHANGED <<tables, remote, op, dirty, contested, orphan>>
  BY <1>0, WhoIsThere DEF StopHttps, At, Disabling
<1>5. PICK x \in exposed :
        /\ Served(op[w].board, "https") = {x}
        /\ free' = free \cup {x[3]}
        /\ reused' = (reused \/ x[3] \in Held \/ \E y \in exposed \ {x} : y[3] = x[3])
  BY DEF StopHttps
<1>2. Goes(w, "drop_https") /\ op'[w] = op[w]
  <2>1. reused => reused'
    BY <1>5
  <2> QED
    BY <1>0, <1>1, <2>1, GoesOn DEF StopHttps, Typed, Labels, Disabling, Grown
<1>3. Frame(w)
  BY <1>2 DEF Goes
<1>4. Typed'
  <2>1. x[3] \in Ports /\ reused' \in BOOLEAN
    BY <1>0, <1>5 DEF Typed, TypeOK
  <2>2. TableTypes'
    BY <1>0, <1>1, <1>5, <2>1 DEF Typed, TypeOK, TableTypes, tables, remote
  <2>3. FilledAt(w)'
    BY <1>0, <1>1, <1>2 DEF Typed, Filled, FilledAt, Goes, Disabling, Undrawn
  <2> QED
    BY <1>0, <1>3, <2>2, <2>3, TypedStep
<1>6. RunInv'
  BY <1>0, <1>1, <1>2, <1>3, QuietRun
  DEF Goes, Before, Unsaved, tables
<1>7. RecordInv'
  BY <1>0, <1>1, <1>2, <1>3, <1>4, QuietRecord
  DEF Goes, Typed, Recorded, Unrecorded, Unsited, Disallowed, tables, remote
<1>8. SiteInv'
  BY <1>0, <1>1, <1>2, <1>3, QuietSite
  DEF Goes, Unsited, Disallowed, ToSite, tables, remote
<1>9. ServeInv'
  BY <1>0, <1>1, <1>2, <1>3, QuietServe
  DEF Goes, HttpGone, HttpsGone, Uncerted, Unrecorded,
     Unsited, Disallowed, ToServeHttp, ToServeHttps, ToAllowHttp, ToAllowHttps, tables, remote
<1>10. WebInv'
  BY <1>0, <1>1, <1>2, <1>3, QuietWeb
  DEF Goes, WebThere, Checked, Enabling, tables
<1>11. NameInv'
  BY <1>0, <1>1, <1>2, <1>3, <1>4, QuietName
  DEF Goes, Named, Typed, tables, remote
<1>12. RedirectInv'
  BY <1>0, <1>1, <1>2, <1>3, QuietRedirect
  DEF Goes, Unsited, Disallowed, Redirected, tables, remote
<1>13. CertInv'
  BY <1>0, <1>1, <1>2, <1>3, QuietCert
  DEF Goes, Uncerted, Unrecorded, Unsited, Disallowed, Certified, Decerting, tables, remote
<1>14. PortInv'
  <2> USE DEF Soiled
  <2> SUFFICES ASSUME ~reused'
               PROVE  (/\ FreeHeld /\ FreeServed /\ FreeRow
                       /\ HeldHeld /\ HeldServed /\ HeldRow /\ ServedRow)'
    BY DEF PortInv
  <2>1. /\ FreeHeld /\ FreeServed /\ FreeRow
        /\ HeldHeld /\ HeldServed /\ HeldRow /\ ServedRow
        /\ dirty \subseteq dirty'
    BY <1>0, <1>3 DEF PortInv, Frame
  <2>2. /\ x[1] = op[w].board /\ x[2] = "https" /\ x[3] \notin Held
        /\ \A y \in exposed : y[3] = x[3] => y = x
        /\ x[3] \in Ports
    BY <1>0, <1>5 DEF Served, Typed, TypeOK
  <2>3. \A u \in Workers : ~Holds(u, x[3])
    BY <2>2 DEF Held, Holds
  <2>4. Stays(w, "disable", {"drop_https"}) /\ Stays(w, "disable", HttpGone)
    BY <1>1, <1>2 DEF Goes, HttpGone
  <2>5. /\ \A u \in Workers : op'[u] = op[u]
        /\ exposed' = exposed /\ enabled' = enabled
    BY <1>1 DEF tables
  <2>6. FreeHeld' /\ HeldHeld'
    BY <1>5, <2>1, <2>3, <2>5 DEF FreeHeld, HeldHeld, Holds
  <2>7. FreeServed'
    <3> SUFFICES ASSUME NEW y \in exposed, y[3] \in free'
                 PROVE  Left(y)'
      BY <2>5 DEF FreeServed
    <3>1. CASE y[3] \in free
      BY <1>3, <2>1, <2>4, <3>1, LeftStays DEF FreeServed
    <3>2. CASE y = x
      <4>1. In(w, "disable", {"drop_https"})' /\ op'[w].board = y[1]
        BY <1>1, <1>2, <2>2, <3>2 DEF Goes
      <4>2. AtBoard(y[1], "disable", {"drop_https"})'
        BY <4>1 DEF AtBoard
      <4> QED
        BY <2>2, <3>2, <4>2 DEF Left, Dropping
    <3> QED
      BY <1>5, <2>2, <3>1, <3>2
  <2>8. FreeRow'
    <3> SUFFICES ASSUME NEW e \in enabled, PortsOf(e) \cap free' # {}
                 PROVE  Leaving(e)'
      BY <2>5 DEF FreeRow, PortsOf
    <3>1. CASE PortsOf(e) \cap free # {}
      BY <1>3, <2>1, <2>4, <3>1, LeavingStays DEF FreeRow
    <3>2. CASE x[3] \in PortsOf(e)
      <4>1. CASE e.dns = op[w].dns \/ e.dns \in dirty
        <5>1. In(w, "disable", HttpGone)' /\ op'[w].dns = op[w].dns
          BY <1>1, <1>2 DEF Goes, HttpGone
        <5>2. e.dns \in dirty' \/ AtName(e.dns, "disable", HttpGone)'
          BY <2>1, <4>1, <5>1 DEF AtName
        <5> QED
          BY <5>2 DEF Leaving
      <4>2. CASE e.dns # op[w].dns /\ e.board # op[w].board /\ e.dns \notin dirty
        <5>1. CASE Leaving(e)
          BY <1>3, <2>4, <5>1, LeavingStays
        <5>2. CASE ~Leaving(e)
          <6>1. \E y \in exposed : y[1] = e.board /\ y[3] = x[3]
            BY <1>0, <2>3, <3>2, <5>2, RowIsTaken
          <6> QED
            BY <2>2, <4>2, <6>1
        <5> QED
          BY <5>1, <5>2
      <4> QED
        BY <1>0, <1>1, <4>1, <4>2, RowCases DEF Before
    <3> QED
      BY <1>5, <3>1, <3>2
  <2>9. HeldServed'
    <3> SUFFICES ASSUME NEW u \in Workers, NEW y \in exposed, Holds(u, y[3]), y[1] # op[u].board
                 PROVE  (op[u].board \in dirty' /\ op[u].dns \in dirty') \/ Left(y)'
      BY <2>5 DEF HeldServed, Holds
    <3>1. (op[u].board \in dirty /\ op[u].dns \in dirty) \/ Left(y)
      BY <2>1 DEF HeldServed
    <3> QED
      BY <1>3, <2>1, <2>4, <3>1, LeftStays
  <2>10. HeldRow'
    <3> SUFFICES ASSUME NEW u \in Workers, NEW e \in enabled, NEW p \in PortsOf(e),
                        Holds(u, p), e.board # op[u].board
                 PROVE  (op[u].board \in dirty' /\ op[u].dns \in dirty') \/ Leaving(e)'
      BY <2>5 DEF HeldRow, PortsOf, Holds
    <3>1. (op[u].board \in dirty /\ op[u].dns \in dirty) \/ Leaving(e)
      BY <2>1 DEF HeldRow
    <3> QED
      BY <1>3, <2>1, <2>4, <3>1, LeavingStays
  <2>11. ServedRow'
    <3> SUFFICES ASSUME NEW y \in exposed, NEW e \in enabled, y[3] \in PortsOf(e), y[1] # e.board
                 PROVE  Left(y)' \/ Leaving(e)'
      BY <2>5 DEF ServedRow, PortsOf
    <3>1. Left(y) \/ Leaving(e)
      BY <2>1 DEF ServedRow
    <3> QED
      BY <1>3, <2>4, <3>1, LeftStays, LeavingStays
  <2> QED
    BY <2>6, <2>7, <2>8, <2>9, <2>10, <2>11
<1> QED
  BY <1>4, <1>6, <1>7, <1>8, <1>9, <1>10, <1>11, <1>12, <1>13, <1>14 DEF IInv

(* RandomPorts: the two ports are different and nobody's, and so is what is *)
(* left in the list.                                                        *)
LEMMA RandomPortsKeeps ==
  ASSUME IInv, NEW w \in Workers, RandomPorts(w)
  PROVE  IInv'
<1> USE DEF Stays, Was, SameThere, In, Does, Runs
<1>0. /\ Typed /\ RunInv /\ RecordInv /\ SiteInv /\ ServeInv /\ PortInv
      /\ WebInv /\ NameInv /\ RedirectInv /\ CertInv
  BY DEF IInv
<1>1. /\ pc[w] = "lookup" /\ op[w] # NULL /\ op[w].kind = "enable"
      /\ UNCHANGED <<tables, remote, dirty, contested, orphan>>
  BY <1>0, WhoIsThere DEF RandomPorts, At, Enabling
<1>2. PICK p \in Listed(free) : \E r \in Listed(Listed(free) \ {p}) :
        /\ op' = [op EXCEPT ![w].https = p, ![w].http = r]
        /\ free' = Listed(Listed(free) \ {p}) \ {r}
        /\ reused' = (reused \/ Reuses(free, Held)
                             \/ Reuses(Listed(free) \ {p}, Held \cup {p}))
  BY DEF RandomPorts
<1>3. PICK q \in Listed(Listed(free) \ {p}) :
        /\ op' = [op EXCEPT ![w].https = p, ![w].http = q]
        /\ free' = Listed(Listed(free) \ {p}) \ {q}
        /\ reused' = (reused \/ Reuses(free, Held)
                             \/ Reuses(Listed(free) \ {p}, Held \cup {p}))
  BY <1>2
<1>4. /\ Listed(free) \subseteq Ports /\ Listed(Listed(free) \ {p}) \subseteq Ports
      /\ p \in Ports /\ q \in Ports /\ reused' \in BOOLEAN
  BY <1>0, <1>2, <1>3 DEF Listed, Typed, TypeOK, Reuses
<1>5. /\ Goes(w, "save")
      /\ op'[w].http = q /\ op'[w].https = p
      /\ op'[w].text = op[w].text /\ op'[w].ok = op[w].ok
  <2> DEFINE o == [op[w] EXCEPT !.https = p, !.http = q]
  <2>1. op[w] \in Operations
    BY <1>0, <1>1, RunsOperation DEF Typed
  <2>2. /\ o \in Operations
        /\ o.kind = op[w].kind /\ o.board = op[w].board /\ o.dns = op[w].dns
        /\ o.name = op[w].name /\ o.lport = op[w].lport /\ o.names = op[w].names
        /\ o.http = q /\ o.https = p /\ o.text = op[w].text /\ o.ok = op[w].ok
    BY <1>4, <2>1 DEF Operations
  <2>3. op' = [op EXCEPT ![w] = o]
    BY <1>0, <1>3 DEF Typed, TypeOK
  <2>4. Grown /\ Goto(w, "save")
    BY <1>1, <1>3 DEF RandomPorts, Grown
  <2> HIDE DEF o
  <2>5. Goes(w, "save") /\ op'[w] = o
    BY <1>0, <1>1, <2>2, <2>3, <2>4, GoesOnWith DEF Typed, Labels, Enabling
  <2> QED
    BY <2>2, <2>5
<1>6. Frame(w)
  BY <1>5 DEF Goes
<1>7. Typed'
  <2>1. TableTypes'
    BY <1>0, <1>1, <1>3, <1>4 DEF Typed, TypeOK, TableTypes, tables, remote
  <2>2. FilledAt(w)'
    BY <1>0, <1>1, <1>4, <1>5 DEF Typed, Filled, FilledAt, Goes, Enabling, Undrawn
  <2> QED
    BY <1>0, <1>6, <2>1, <2>2, TypedStep
<1>8. RunInv'
  BY <1>0, <1>1, <1>5, <1>6, QuietRun
  DEF Goes, Before, Unsaved, tables
<1>9. RecordInv'
  BY <1>0, <1>1, <1>5, <1>6, <1>7, QuietRecord
  DEF Goes, Typed, Recorded, Unrecorded, Unsited, Disallowed, tables, remote
<1>10. SiteInv'
  BY <1>0, <1>1, <1>5, <1>6, QuietSite
  DEF Goes, Unsited, Disallowed, ToSite, tables, remote
<1>11. ServeInv'
  BY <1>0, <1>1, <1>5, <1>6, QuietServe
  DEF Goes, HttpGone, HttpsGone, Uncerted, Unrecorded,
     Unsited, Disallowed, ToServeHttp, ToServeHttps, ToAllowHttp, ToAllowHttps, tables, remote
<1>12. WebInv'
  BY <1>0, <1>1, <1>5, <1>6, QuietWeb
  DEF Goes, WebThere, Checked, Enabling, tables
<1>13. NameInv'
  BY <1>0, <1>1, <1>5, <1>6, <1>7, QuietName
  DEF Goes, Named, Typed, tables, remote
<1>14. RedirectInv'
  BY <1>0, <1>1, <1>5, <1>6, QuietRedirect
  DEF Goes, Unsited, Disallowed, Redirected, tables, remote
<1>15. CertInv'
  BY <1>0, <1>1, <1>5, <1>6, QuietCert
  DEF Goes, Uncerted, Unrecorded, Unsited, Disallowed, Certified, Decerting, tables, remote
<1>16. PortInv'
  <2> USE DEF Soiled
  <2> SUFFICES ASSUME ~reused'
               PROVE  (/\ FreeHeld /\ FreeServed /\ FreeRow
                       /\ HeldHeld /\ HeldServed /\ HeldRow /\ ServedRow)'
    BY DEF PortInv
  <2>1. /\ ~reused /\ ~Reuses(free, Held) /\ ~Reuses(Listed(free) \ {p}, Held \cup {p})
        /\ FreeHeld /\ FreeServed /\ FreeRow
        /\ HeldHeld /\ HeldServed /\ HeldRow /\ ServedRow
        /\ dirty \subseteq dirty'
    BY <1>0, <1>3, <1>6 DEF PortInv, Frame
  <2>2. \A r \in Listed(free) : NotTaken(r)
    <3>1. \A r \in free : NotTaken(r)
      BY <2>1 DEF NotTaken, FreeHeld, FreeServed, FreeRow
    <3> QED
      BY <1>0, <2>1, <3>1, ListedNotTaken DEF Reuses
  <2>3. \A r \in Listed(Listed(free) \ {p}) : NotTaken(r) /\ r # p
    <3> DEFINE list == Listed(free) \ {p}
    <3>1. ~(list = {} /\ Listed(list) \cap (Held \cup {p}) # {})
      BY <2>1 DEF Reuses
    <3>2. \A r \in list : NotTaken(r)
      BY <2>2
    <3>3. list # {} => Listed(list) = list
      BY DEF Listed
    <3>4. p \notin list
      OBVIOUS
    <3> HIDE DEF list
    <3>5. \A r \in Listed(list) : NotTaken(r)
      BY <1>0, <3>1, <3>2, ListedNotTaken
    <3>6. \A r \in Listed(list) : r # p
      BY <3>1, <3>3, <3>4
    <3> QED
      BY <3>5, <3>6 DEF list
  <2>4. /\ NotTaken(p) /\ NotTaken(q) /\ p # q
        /\ \A r \in free' : NotTaken(r) /\ r # p /\ r # q
    BY <1>2, <1>3, <2>2, <2>3
  <2>5. /\ \A u \in Workers : \A r : Holds(u, r)' =>
             \/ u = w /\ r \in {p, q}
             \/ u # w /\ op'[u] = op[u] /\ Holds(u, r)
        /\ op'[w].board = op[w].board
    BY <1>5, <1>6 DEF Frame, Goes, Holds
  <2>6. /\ Stays(w, "disable", {"drop_https"}) /\ Stays(w, "disable", HttpGone)
        /\ exposed' = exposed /\ enabled' = enabled
    BY <1>1 DEF tables
  <2>7. ASSUME NEW u \in Workers, NEW r, Holds(u, r)', u # w, NotTaken(r)
        PROVE  op'[u].board \in dirty' /\ op'[u].dns \in dirty'
    BY <2>1, <2>5, <2>7 DEF NotTaken
  <2>8. FreeHeld'
    BY <2>4, <2>5, <2>7 DEF FreeHeld
  <2>9. FreeServed'
    <3> SUFFICES ASSUME NEW x \in exposed, x[3] \in free'
                 PROVE  Left(x)'
      BY <2>6 DEF FreeServed
    <3> QED
      BY <1>6, <2>4, <2>6, LeftStays DEF NotTaken
  <2>10. FreeRow'
    <3> SUFFICES ASSUME NEW e \in enabled, NEW r \in PortsOf(e), r \in free'
                 PROVE  Leaving(e)'
      BY <2>6 DEF FreeRow, PortsOf
    <3> QED
      BY <1>6, <2>4, <2>6, LeavingStays DEF NotTaken
  <2>11. HeldHeld'
    <3> SUFFICES ASSUME NEW u \in Workers, NEW v \in Workers, NEW r \in Ports, u # v,
                        Holds(u, r)', Holds(v, r)'
                 PROVE  \/ op'[u].board \in dirty' /\ op'[u].dns \in dirty'
                        \/ op'[v].board \in dirty' /\ op'[v].dns \in dirty'
      BY DEF HeldHeld
    <3>1. CASE u # w /\ v # w
      BY <2>1, <2>5, <3>1 DEF HeldHeld
    <3>2. CASE u = w
      BY <2>4, <2>5, <2>7, <3>2
    <3>3. CASE v = w
      BY <2>4, <2>5, <2>7, <3>3
    <3> QED
      BY <3>1, <3>2, <3>3
  <2>12. HeldServed'
    <3> SUFFICES ASSUME NEW u \in Workers, NEW x \in exposed, Holds(u, x[3])', x[1] # op'[u].board
                 PROVE  (op'[u].board \in dirty' /\ op'[u].dns \in dirty') \/ Left(x)'
      BY <2>6 DEF HeldServed
    <3>1. CASE u = w
      <4>1. x[3] \in {p, q}
        BY <2>5, <3>1
      <4> QED
        BY <1>6, <2>4, <2>6, <4>1, LeftStays DEF NotTaken
    <3>2. CASE u # w
      <4>1. op'[u] = op[u] /\ Holds(u, x[3])
        BY <2>5, <3>2
      <4>2. (op[u].board \in dirty /\ op[u].dns \in dirty) \/ Left(x)
        BY <2>1, <4>1 DEF HeldServed
      <4> QED
        BY <1>6, <2>1, <2>6, <4>1, <4>2, LeftStays
    <3> QED
      BY <3>1, <3>2
  <2>13. HeldRow'
    <3> SUFFICES ASSUME NEW u \in Workers, NEW e \in enabled, NEW r \in PortsOf(e),
                        Holds(u, r)', e.board # op'[u].board
                 PROVE  (op'[u].board \in dirty' /\ op'[u].dns \in dirty') \/ Leaving(e)'
      BY <2>6 DEF HeldRow, PortsOf
    <3>1. CASE u = w
      <4>1. r \in {p, q}
        BY <2>5, <3>1
      <4> QED
        BY <1>6, <2>4, <2>6, <4>1, LeavingStays DEF NotTaken
    <3>2. CASE u # w
      <4>1. op'[u] = op[u] /\ Holds(u, r)
        BY <2>5, <3>2
      <4>2. (op[u].board \in dirty /\ op[u].dns \in dirty) \/ Leaving(e)
        BY <2>1, <4>1 DEF HeldRow
      <4> QED
        BY <1>6, <2>1, <2>6, <4>1, <4>2, LeavingStays
    <3> QED
      BY <3>1, <3>2
  <2>14. ServedRow'
    <3> SUFFICES ASSUME NEW x \in exposed, NEW e \in enabled, x[3] \in PortsOf(e), x[1] # e.board
                 PROVE  Left(x)' \/ Leaving(e)'
      BY <2>6 DEF ServedRow, PortsOf
    <3>1. Left(x) \/ Leaving(e)
      BY <2>1 DEF ServedRow
    <3> QED
      BY <1>6, <2>6, <3>1, LeftStays, LeavingStays
  <2> QED
    BY <2>8, <2>9, <2>10, <2>11, <2>12, <2>13, <2>14
<1> QED
  BY <1>7, <1>8, <1>9, <1>10, <1>11, <1>12, <1>13, <1>14, <1>15, <1>16 DEF IInv

(* NotEnoughPort: the operation ends and leaves its board and name soiled. *)
LEMMA NotEnoughPortKeeps ==
  ASSUME IInv, NEW w \in Workers, NotEnoughPort(w)
  PROVE  IInv'
<1> USE DEF Stays, Was, SameThere, In, Does, Runs
<1>0. /\ Typed /\ RunInv /\ RecordInv /\ SiteInv /\ ServeInv /\ PortInv
      /\ WebInv /\ NameInv /\ RedirectInv /\ CertInv
  BY DEF IInv
<1>1. /\ pc[w] = "lookup" /\ op[w] # NULL /\ op[w].kind = "enable"
      /\ free' = {} /\ dirty' = dirty \cup {op[w].board, op[w].dns}
      /\ UNCHANGED <<tables, remote, contested, orphan, reused>>
  BY <1>0, WhoIsThere DEF NotEnoughPort, At, Enabling, Soil
<1>2. Ends(w)
  BY <1>0, <1>1, EndsHere DEF NotEnoughPort, Typed, Grown
<1>3. Frame(w)
  BY <1>2 DEF Ends
<1>4. Typed'
  <2>1. op[w].board \in Boards /\ op[w].dns \in Dns
    BY <1>0, <1>1, RunsOperation DEF Typed
  <2>2. TableTypes'
    BY <1>0, <1>1, <2>1 DEF Typed, TypeOK, TableTypes, tables, remote
  <2>3. FilledAt(w)'
    BY <1>2 DEF FilledAt, Ends
  <2> QED
    BY <1>0, <1>3, <2>2, <2>3, TypedStep
<1>5. RunInv'
  BY <1>0, <1>1, <1>2, <1>3, QuietRun
  DEF Ends, Before, Unsaved, tables
<1>6. RecordInv'
  BY <1>0, <1>1, <1>2, <1>3, <1>4, QuietRecord
  DEF Ends, Typed, Recorded, Unrecorded, Unsited, Disallowed, tables, remote
<1>7. SiteInv'
  BY <1>0, <1>1, <1>2, <1>3, QuietSite
  DEF Ends, Unsited, Disallowed, ToSite, tables, remote
<1>8. ServeInv'
  BY <1>0, <1>1, <1>2, <1>3, QuietServe
  DEF Ends, HttpGone, HttpsGone, Uncerted, Unrecorded,
     Unsited, Disallowed, ToServeHttp, ToServeHttps, ToAllowHttp, ToAllowHttps, tables, remote
<1>9. PortInv'
  BY <1>0, <1>1, <1>2, <1>3, QuietPort
  DEF Ends, Held0, HttpGone, HttpsGone, Uncerted, Unrecorded,
     Unsited, Disallowed, Typed, tables
<1>10. WebInv'
  BY <1>0, <1>1, <1>2, <1>3, QuietWeb
  DEF Ends, WebThere, Checked, Enabling, tables
<1>11. NameInv'
  BY <1>0, <1>1, <1>2, <1>3, <1>4, QuietName
  DEF Ends, Named, Typed, tables, remote
<1>12. RedirectInv'
  BY <1>0, <1>1, <1>2, <1>3, QuietRedirect
  DEF Ends, Unsited, Disallowed, Redirected, tables, remote
<1>13. CertInv'
  BY <1>0, <1>1, <1>2, <1>3, QuietCert
  DEF Ends, Uncerted, Unrecorded, Unsited, Disallowed, Certified, Decerting, tables, remote
<1> QED
  BY <1>4, <1>5, <1>6, <1>7, <1>8, <1>9, <1>10, <1>11, <1>12, <1>13 DEF IInv

(* Raise: where an operation has changed something already, its board and   *)
(* name are soiled.                                                         *)
LEMMA RaiseKeeps ==
  ASSUME IInv, NEW w \in Workers, Raise(w)
  PROVE  IInv'
<1> USE DEF Stays, Was, SameThere, In, Does, Runs
<1>0. /\ Typed /\ RunInv /\ RecordInv /\ SiteInv /\ ServeInv /\ PortInv
      /\ WebInv /\ NameInv /\ RedirectInv /\ CertInv
  BY DEF IInv
<1>1. /\ op[w] # NULL /\ dirty \subseteq dirty'
      /\ \/ pc[w] \in {"is_enabled", "record", "stop_http", "name_record", "decertify"}
         \/ op[w].board \in dirty' /\ op[w].dns \in dirty'
      /\ dirty' \subseteq dirty \cup {op[w].board, op[w].dns}
      /\ UNCHANGED <<tables, remote, free, contested, orphan, reused>>
  BY <1>0, WhoIsThere DEF Raise, At, Soil
<1>2. Ends(w)
  BY <1>0, <1>1, EndsHere DEF Raise, Typed, Grown
<1>3. Frame(w)
  BY <1>2 DEF Ends
<1>4. Typed'
  <2>1. op[w].board \in Boards /\ op[w].dns \in Dns
    BY <1>0, <1>1, RunsOperation DEF Typed
  <2>2. TableTypes'
    BY <1>0, <1>1, <2>1 DEF Typed, TypeOK, TableTypes, tables, remote
  <2>3. FilledAt(w)'
    BY <1>2 DEF FilledAt, Ends
  <2> QED
    BY <1>0, <1>3, <2>2, <2>3, TypedStep
<1>5. RunInv'
  BY <1>0, <1>1, <1>2, <1>3, QuietRun
  DEF Ends, Before, Unsaved, tables
<1>6. RecordInv'
  BY <1>0, <1>1, <1>2, <1>3, <1>4, QuietRecord
  DEF Ends, Typed, Recorded, Unrecorded, Unsited, Disallowed, tables, remote
<1>7. SiteInv'
  BY <1>0, <1>1, <1>2, <1>3, QuietSite
  DEF Ends, Unsited, Disallowed, ToSite, tables, remote
<1>8. ServeInv'
  BY <1>0, <1>1, <1>2, <1>3, QuietServe
  DEF Ends, HttpGone, HttpsGone, Uncerted, Unrecorded,
     Unsited, Disallowed, ToServeHttp, ToServeHttps, ToAllowHttp, ToAllowHttps, tables, remote
<1>9. PortInv'
  BY <1>0, <1>1, <1>2, <1>3, QuietPort
  DEF Ends, Held0, HttpGone, HttpsGone, Uncerted, Unrecorded,
     Unsited, Disallowed, Typed, tables
<1>10. WebInv'
  BY <1>0, <1>1, <1>2, <1>3, QuietWeb
  DEF Ends, WebThere, Checked, Enabling, tables
<1>11. NameInv'
  BY <1>0, <1>1, <1>2, <1>3, <1>4, QuietName
  DEF Ends, Named, Typed, tables, remote
<1>12. RedirectInv'
  BY <1>0, <1>1, <1>2, <1>3, QuietRedirect
  DEF Ends, Unsited, Disallowed, Redirected, tables, remote
<1>13. CertInv'
  BY <1>0, <1>1, <1>2, <1>3, QuietCert
  DEF Ends, Uncerted, Unrecorded, Unsited, Disallowed, Certified, Decerting, tables, remote
<1> QED
  BY <1>4, <1>5, <1>6, <1>7, <1>8, <1>9, <1>10, <1>11, <1>12, <1>13 DEF IInv

(* Lookup: the board has a row already, so another operation has enabled it *)
(* in the meantime, and both boards and names are soiled.                   *)
LEMMA LookupKeeps ==
  ASSUME IInv, NEW w \in Workers, Lookup(w)
  PROVE  IInv'
<1> USE DEF Stays, Was, SameThere, In, Does, Runs
<1>0. /\ Typed /\ RunInv /\ RecordInv /\ SiteInv /\ ServeInv /\ PortInv
      /\ WebInv /\ NameInv /\ RedirectInv /\ CertInv
  BY DEF IInv
<1>1. /\ pc[w] = "lookup" /\ op[w] # NULL /\ op[w].kind = "enable"
      /\ UNCHANGED <<tables, remote, free, ghosts>>
  BY <1>0, WhoIsThere DEF Lookup, At, Enabling
<1>2. PICK e \in enabled :
        /\ EnabledOn(op[w].board) = {e}
        /\ op' = [op EXCEPT ![w].http = e.http, ![w].https = e.https]
  BY DEF Lookup
<1>3. e.http \in Ports /\ e.https \in Ports /\ e.board = op[w].board
  BY <1>0, <1>2 DEF Typed, TypeOK, EnabledOn
<1>4. /\ Goes(w, "allow_http")
      /\ op'[w].http = e.http /\ op'[w].https = e.https
      /\ op'[w].text = op[w].text /\ op'[w].ok = op[w].ok
  <2> DEFINE o == [op[w] EXCEPT !.http = e.http, !.https = e.https]
  <2>1. op[w] \in Operations
    BY <1>0, <1>1, RunsOperation DEF Typed
  <2>2. /\ o \in Operations
        /\ o.kind = op[w].kind /\ o.board = op[w].board /\ o.dns = op[w].dns
        /\ o.name = op[w].name /\ o.lport = op[w].lport /\ o.names = op[w].names
        /\ o.http = e.http /\ o.https = e.https /\ o.text = op[w].text /\ o.ok = op[w].ok
    BY <1>3, <2>1 DEF Operations
  <2>3. op' = [op EXCEPT ![w] = o]
    BY <1>0, <1>2 DEF Typed, TypeOK
  <2>4. Grown /\ Goto(w, "allow_http")
    BY <1>1 DEF Lookup, Grown, ghosts
  <2> HIDE DEF o
  <2>5. Goes(w, "allow_http") /\ op'[w] = o
    BY <1>0, <1>1, <2>2, <2>3, <2>4, GoesOnWith DEF Typed, Labels, Enabling
  <2> QED
    BY <2>2, <2>5
<1>5. Frame(w)
  BY <1>4 DEF Goes
<1>6. /\ op[w].board \in dirty /\ op[w].dns \in dirty
      /\ op'[w].board \in dirty' /\ op'[w].dns \in dirty'
  <2>1. Before(w)
    BY <1>1 DEF Before, Unsaved
  <2> QED
    BY <1>0, <1>1, <1>3, <1>4, <2>1 DEF RunInv, RowIsOwn, Soiled, Goes, ghosts
<1>7. Typed'
  <2>1. TableTypes'
    BY <1>0, <1>1 DEF Typed, TypeOK, TableTypes, tables, remote, ghosts
  <2>2. FilledAt(w)'
    BY <1>0, <1>1, <1>3, <1>4 DEF Typed, Filled, FilledAt, Goes, Enabling, Undrawn
  <2> QED
    BY <1>0, <1>5, <2>1, <2>2, TypedStep
<1>8. RecordInv'
  BY <1>0, <1>1, <1>4, <1>5, <1>6, <1>7, QuietRecord
  DEF Goes, Typed, Recorded, Unrecorded, Unsited, Disallowed, tables, remote
<1>9. SiteInv'
  BY <1>0, <1>1, <1>4, <1>5, <1>6, QuietSite
  DEF Goes, Unsited, Disallowed, ToSite, tables, remote
<1>10. ServeInv'
  BY <1>0, <1>1, <1>4, <1>5, <1>6, QuietServe
  DEF Goes, HttpGone, HttpsGone, Uncerted, Unrecorded,
     Unsited, Disallowed, ToServeHttp, ToServeHttps, ToAllowHttp, ToAllowHttps, tables, remote
<1>11. PortInv'
  BY <1>0, <1>1, <1>4, <1>5, <1>6, QuietPort
  DEF Goes, Held0, HttpGone, HttpsGone, Uncerted, Unrecorded,
     Unsited, Disallowed, Typed, tables
<1>12. WebInv'
  BY <1>0, <1>1, <1>4, <1>5, <1>6, QuietWeb
  DEF Goes, WebThere, Checked, Enabling, tables
<1>13. NameInv'
  BY <1>0, <1>1, <1>4, <1>5, <1>6, <1>7, QuietName
  DEF Goes, Named, Typed, tables, remote
<1>14. RedirectInv'
  BY <1>0, <1>1, <1>4, <1>5, <1>6, QuietRedirect
  DEF Goes, Unsited, Disallowed, Redirected, tables, remote
<1>15. CertInv'
  BY <1>0, <1>1, <1>4, <1>5, <1>6, QuietCert
  DEF Goes, Uncerted, Unrecorded, Unsited, Disallowed, Certified, Decerting, tables, remote
<1>16. RunInv'
  <2> USE DEF Soiled, Before
  <2>1. /\ enabled' = enabled /\ dirty \subseteq dirty' /\ contested \subseteq contested'
        /\ \A u \in Workers \ {w} : op'[u] = op[u] /\ pc'[u] = pc[u]
        /\ op[w].board = op'[w].board /\ op[w].dns = op'[w].dns
        /\ pc'[w] = "allow_http" /\ op'[w] # NULL
    BY <1>1, <1>4, <1>5 DEF tables, Goes, Frame
  <2>2. Alone'
    BY <1>0, <1>1, <1>6, <2>1 DEF RunInv, Alone
  <2>3. NewName'
    BY <1>0, <2>1 DEF RunInv, NewName, Unsaved
  <2>4. RowIsOwn'
    BY <1>0, <1>1, <1>6, <2>1 DEF RunInv, RowIsOwn, Unsaved
  <2>5. HasRow'
    BY <1>0, <1>6, <2>1 DEF RunInv, HasRow
  <2>6. OneRow' /\ OneBoard'
    BY <1>0, <2>1 DEF RunInv, OneRow, OneBoard
  <2>7. CheckedName' /\ UniqueDns'
    BY <1>0, <2>1 DEF RunInv, CheckedName, UniqueDns, Unsaved
  <2> QED
    BY <2>2, <2>3, <2>4, <2>5, <2>6, <2>7 DEF RunInv
<1> QED
  BY <1>7, <1>8, <1>9, <1>10, <1>11, <1>12, <1>13, <1>14, <1>15, <1>16 DEF IInv

(* IsEnabled: the board has no row, so its webservices, if there are any,   *)
(* are of before.                                                           *)
LEMMA IsEnabledKeeps ==
  ASSUME IInv, NEW w \in Workers, IsEnabled(w)
  PROVE  IInv'
<1> USE DEF Stays, Was, SameThere, In, Does, Runs
<1>0. /\ Typed /\ RunInv /\ RecordInv /\ SiteInv /\ ServeInv /\ PortInv
      /\ WebInv /\ NameInv /\ RedirectInv /\ CertInv
  BY DEF IInv
<1>1. /\ pc[w] = "is_enabled" /\ op[w] # NULL /\ op[w].kind = "enable"
      /\ \A e \in enabled : e.board # op[w].board
      /\ UNCHANGED <<tables, remote, free, op, ghosts>>
  BY <1>0, WhoIsThere DEF IsEnabled, At, Enabling, EnabledOn
<1>2. Goes(w, "record") /\ op'[w] = op[w]
  BY <1>0, <1>1, GoesOn DEF IsEnabled, Typed, Labels, Enabling, Redirecting, Grown, ghosts
<1>3. Frame(w)
  BY <1>2 DEF Goes
<1>4. Typed'
  <2>1. TableTypes'
    BY <1>0, <1>1 DEF Typed, TypeOK, TableTypes, tables, remote, ghosts
  <2>2. FilledAt(w)'
    BY <1>0, <1>1, <1>2 DEF Typed, Filled, FilledAt, Goes, Enabling, Redirecting, Undrawn
  <2> QED
    BY <1>0, <1>3, <2>1, <2>2, TypedStep
<1>5. RecordInv'
  BY <1>0, <1>1, <1>2, <1>3, <1>4, QuietRecord
  DEF Goes, Typed, Recorded, Unrecorded, Unsited, Disallowed, tables, remote
<1>6. SiteInv'
  BY <1>0, <1>1, <1>2, <1>3, QuietSite
  DEF Goes, Unsited, Disallowed, ToSite, tables, remote
<1>7. ServeInv'
  BY <1>0, <1>1, <1>2, <1>3, QuietServe
  DEF Goes, HttpGone, HttpsGone, Uncerted, Unrecorded,
     Unsited, Disallowed, ToServeHttp, ToServeHttps, ToAllowHttp, ToAllowHttps, tables, remote
<1>8. PortInv'
  BY <1>0, <1>1, <1>2, <1>3, QuietPort
  DEF Goes, Held0, HttpGone, HttpsGone, Uncerted, Unrecorded,
     Unsited, Disallowed, Typed, tables
<1>9. NameInv'
  BY <1>0, <1>1, <1>2, <1>3, <1>4, QuietName
  DEF Goes, Named, Typed, tables, remote
<1>10. RedirectInv'
  BY <1>0, <1>1, <1>2, <1>3, QuietRedirect
  DEF Goes, Unsited, Disallowed, Redirected, tables, remote
<1>11. CertInv'
  BY <1>0, <1>1, <1>2, <1>3, QuietCert
  DEF Goes, Uncerted, Unrecorded, Unsited, Disallowed, Certified, Decerting, tables, remote
<1>12. RunInv'
  <2> USE DEF Soiled, Before
  <2>1. /\ enabled' = enabled /\ dirty \subseteq dirty' /\ contested \subseteq contested'
        /\ \A u \in Workers \ {w} : op'[u] = op[u] /\ pc'[u] = pc[u]
        /\ pc'[w] = "record"
    BY <1>1, <1>2, <1>3 DEF tables, Goes, Frame
  <2>2. Alone'
    BY <1>0, <1>1, <1>2, <2>1 DEF RunInv, Alone
  <2>3. NewName'
    BY <1>0, <1>1, <1>2, <2>1 DEF RunInv, NewName, Unsaved
  <2>4. RowIsOwn'
    BY <1>0, <1>1, <1>2, <2>1 DEF RunInv, RowIsOwn, Unsaved
  <2>5. HasRow'
    BY <1>0, <1>1, <1>2, <2>1 DEF RunInv, HasRow, Unsaved
  <2>6. OneRow' /\ OneBoard'
    BY <1>0, <2>1 DEF RunInv, OneRow, OneBoard
  <2>7. CheckedName' /\ UniqueDns'
    BY <1>0, <1>1, <1>2, <2>1 DEF RunInv, CheckedName, UniqueDns, Unsaved
  <2> QED
    BY <2>2, <2>3, <2>4, <2>5, <2>6, <2>7 DEF RunInv
<1>13. WebInv'
  <2>1. /\ webs' = webs /\ enabled' = enabled /\ dirty \subseteq dirty' /\ orphan \subseteq orphan'
        /\ \A u \in Workers : op'[u] = op[u]
        /\ \A u \in Workers \ {w} : pc'[u] = pc[u]
    BY <1>1, <1>2, <1>3 DEF tables, Frame
  <2>2. WebHasRow' /\ OneWeb' /\ FreshName' /\ NamesRead'
    BY <1>0, <2>1 DEF WebInv, WebHasRow, OneWeb, FreshName, NamesRead, Orphaned
  <2>3. WebToGo' /\ WebIsGone'
    BY <1>0, <1>1, <2>1 DEF WebInv, WebToGo, WebIsGone
  <2>4. NewBoard'
    <3> SUFFICES ASSUME NEW u \in Workers, NEW v \in webs, In(u, "enable", Checked)', v[1] = op[u].board
                 PROVE  v[1] \in dirty' \/ Orphaned(v[1], v[2])'
      BY <2>1 DEF NewBoard
    <3>1. v[1] \in dirty \/ Orphaned(v[1], v[2])
      <4>1. CASE u # w
        BY <1>0, <2>1, <4>1 DEF WebInv, NewBoard
      <4>2. CASE u = w
        BY <1>0, <1>1, <4>2 DEF WebInv, WebHasRow
      <4> QED
        BY <4>1, <4>2
    <3> QED
      BY <2>1, <3>1 DEF Orphaned
  <2> QED
    BY <2>2, <2>3, <2>4 DEF WebInv
<1> QED
  BY <1>4, <1>5, <1>6, <1>7, <1>8, <1>9, <1>10, <1>11, <1>12, <1>13 DEF IInv

(* ReadSite: what is read is the site, which changes under this name only. *)
LEMMA ReadSiteKeeps ==
  ASSUME IInv, NEW w \in Workers, ReadSite(w)
  PROVE  IInv'
<1> USE DEF Stays, Was, SameThere, In, Does, Runs
<1>0. /\ Typed /\ RunInv /\ RecordInv /\ SiteInv /\ ServeInv /\ PortInv
      /\ WebInv /\ NameInv /\ RedirectInv /\ CertInv
  BY DEF IInv
<1> DEFINE t == site[AgentOf[op[w].board]][op[w].dns]
<1>1. /\ pc[w] = "read_site" /\ op[w] # NULL /\ op[w].kind # "disable"
      /\ UNCHANGED <<tables, remote, free, ghosts>>
  BY <1>0, WhoIsThere DEF ReadSite, At, Redirecting
<1>2. /\ Goes(w, "write_site")
      /\ op'[w].text = t /\ t \in Sites
      /\ op'[w].http = op[w].http /\ op'[w].https = op[w].https /\ op'[w].ok = op[w].ok
  <2> DEFINE o == [op[w] EXCEPT !.text = t]
  <2>1. op[w] \in Operations /\ t \in Sites
    BY <1>0, <1>1, RunsOperation DEF Typed, TypeOK, ReadSite
  <2>2. /\ o \in Operations
        /\ o.kind = op[w].kind /\ o.board = op[w].board /\ o.dns = op[w].dns
        /\ o.name = op[w].name /\ o.lport = op[w].lport /\ o.names = op[w].names
        /\ o.text = t /\ o.http = op[w].http /\ o.https = op[w].https /\ o.ok = op[w].ok
    BY <2>1 DEF Operations
  <2>3. op' = [op EXCEPT ![w] = o]
    BY <1>0 DEF ReadSite, Typed, TypeOK
  <2>4. Grown /\ Goto(w, "write_site")
    BY <1>1 DEF ReadSite, Grown, ghosts
  <2> HIDE DEF o
  <2>5. Goes(w, "write_site") /\ op'[w] = o
    BY <1>0, <1>1, <2>2, <2>3, <2>4, GoesOnWith DEF Typed, Labels, Redirecting
  <2> QED
    BY <2>1, <2>2, <2>5
<1>3. Frame(w)
  BY <1>2 DEF Goes
<1>4. Typed'
  <2>1. TableTypes'
    BY <1>0, <1>1 DEF Typed, TypeOK, TableTypes, tables, remote, ghosts
  <2>2. FilledAt(w)'
    BY <1>0, <1>1, <1>2 DEF Typed, Filled, FilledAt, Goes, Redirecting, Undrawn
  <2> QED
    BY <1>0, <1>3, <2>1, <2>2, TypedStep
<1>5. RunInv'
  BY <1>0, <1>1, <1>2, <1>3, QuietRun
  DEF Goes, Before, Unsaved, tables
<1>6. RecordInv'
  BY <1>0, <1>1, <1>2, <1>3, <1>4, QuietRecord
  DEF Goes, Typed, Recorded, Unrecorded, Unsited, Disallowed, tables, remote
<1>7. ServeInv'
  BY <1>0, <1>1, <1>2, <1>3, QuietServe
  DEF Goes, HttpGone, HttpsGone, Uncerted, Unrecorded,
     Unsited, Disallowed, ToServeHttp, ToServeHttps, ToAllowHttp, ToAllowHttps, tables, remote
<1>8. PortInv'
  BY <1>0, <1>1, <1>2, <1>3, QuietPort
  DEF Goes, Held0, HttpGone, HttpsGone, Uncerted, Unrecorded,
     Unsited, Disallowed, Typed, tables
<1>9. WebInv'
  BY <1>0, <1>1, <1>2, <1>3, QuietWeb
  DEF Goes, WebThere, Checked, Enabling, tables
<1>10. NameInv'
  BY <1>0, <1>1, <1>2, <1>3, <1>4, QuietName
  DEF Goes, Named, Typed, tables, remote
<1>11. RedirectInv'
  BY <1>0, <1>1, <1>2, <1>3, QuietRedirect
  DEF Goes, Unsited, Disallowed, Redirected, tables, remote
<1>12. CertInv'
  BY <1>0, <1>1, <1>2, <1>3, QuietCert
  DEF Goes, Uncerted, Unrecorded, Unsited, Disallowed, Certified, Decerting, tables, remote
<1>13. SiteInv'
  <2>1. TextIsSite'
    BY <1>0, <1>1, <1>2, <1>3 DEF SiteInv, TextIsSite, SiteAt, Goes, Frame, remote
  <2>2. SiteOfRow'
    <3> SUFFICES ASSUME NEW e \in enabled
                 PROVE  \/ e.dns \in dirty' \/ AtName(e.dns, "disable", Unsited)'
                        \/ AtName(e.dns, "enable", ToSite)'
                        \/ /\ SiteAt(e.board, e.dns)' # NULL
                           /\ SiteAt(e.board, e.dns)'.http = e.http
                           /\ SiteAt(e.board, e.dns)'.https = e.https
      BY <1>1 DEF SiteOfRow, tables
    <3>1. SiteAt(e.board, e.dns)' = SiteAt(e.board, e.dns)
      BY <1>1 DEF SiteAt, remote
    <3>2. Stays(w, "disable", Unsited) /\ Stays(w, "enable", ToSite)
      BY <1>1 DEF ToSite
    <3> QED
      BY <1>0, <1>3, <3>1, <3>2, SiteOfRowStays DEF SiteInv
  <2> QED
    BY <2>1, <2>2 DEF SiteInv
<1> QED
  BY <1>4, <1>5, <1>6, <1>7, <1>8, <1>9, <1>10, <1>11, <1>12, <1>13 DEF IInv

(* WriteProxy: the files have the ports of the row; no redirect is lost. *)
LEMMA WriteProxyKeeps ==
  ASSUME IInv, NEW w \in Workers, WriteProxy(w)
  PROVE  IInv'
<1> USE DEF Stays, Was, SameThere, In, Does, Runs
<1>0. /\ Typed /\ RunInv /\ RecordInv /\ SiteInv /\ ServeInv /\ PortInv
      /\ WebInv /\ NameInv /\ RedirectInv /\ CertInv
  BY DEF IInv
<1>1. /\ pc[w] = "proxy" /\ op[w] # NULL /\ op[w].kind = "enable"
      /\ UNCHANGED <<tables, record, cert, free, allow, op, ghosts>>
  BY <1>0, WhoIsThere DEF WriteProxy, At, Enabling
<1>2. Goes(w, "configure") /\ op'[w] = op[w]
  BY <1>0, <1>1, GoesOn DEF WriteProxy, Typed, Labels, Enabling, Redirecting, Grown, ghosts
<1>3. Frame(w)
  BY <1>2 DEF Goes
<1>5. /\ site' \in [Agents -> [Dns -> Sites \cup {NULL}]]
      /\ \A a \in Agents, d \in Dns : d # op[w].dns => site'[a][d] = site[a][d]
      /\ SiteAt(op[w].board, op[w].dns)' # NULL
      /\ SiteAt(op[w].board, op[w].dns)'.http = op[w].http
      /\ SiteAt(op[w].board, op[w].dns)'.https = op[w].https
  <2> DEFINE s == [http |-> op[w].http, https |-> op[w].https, redirects |-> {}]
  <2>1. op[w].dns \in Dns /\ op[w].board \in Boards /\ AgentOf[op[w].board] \in Agents
    BY <1>0, <1>1, RunsOperation DEF Typed
  <2>2. op[w].http \in Ports /\ op[w].https \in Ports
    BY <1>0, <1>1 DEF Typed, Filled, FilledAt, Undrawn
  <2>3. s \in Sites /\ s # NULL /\ s.http = op[w].http /\ s.https = op[w].https
    BY <2>2, WebAssumption DEF Sites
  <2>4. site' = [site EXCEPT ![AgentOf[op[w].board]][op[w].dns] = s]
    BY DEF WriteProxy
  <2> HIDE DEF s
  <2> QED
    BY <1>0, <1>1, <2>1, <2>3, <2>4 DEF Typed, TypeOK, SiteAt
<1>4. Typed'
  <2>1. TableTypes'
    BY <1>0, <1>1, <1>5 DEF Typed, TypeOK, TableTypes, tables, remote, ghosts
  <2>2. FilledAt(w)'
    BY <1>0, <1>1, <1>2 DEF Typed, Filled, FilledAt, Goes, Enabling, Redirecting, Undrawn
  <2> QED
    BY <1>0, <1>3, <2>1, <2>2, TypedStep
<1>6. RunInv'
  BY <1>0, <1>1, <1>2, <1>3, QuietRun
  DEF Goes, Before, Unsaved, tables
<1>7. RecordInv'
  BY <1>0, <1>1, <1>2, <1>3, <1>4, QuietRecord
  DEF Goes, Typed, Recorded, Unrecorded, Unsited, Disallowed, tables, remote
<1>8. ServeInv'
  BY <1>0, <1>1, <1>2, <1>3, QuietServe
  DEF Goes, HttpGone, HttpsGone, Uncerted, Unrecorded,
     Unsited, Disallowed, ToServeHttp, ToServeHttps, ToAllowHttp, ToAllowHttps, tables, remote
<1>9. PortInv'
  BY <1>0, <1>1, <1>2, <1>3, QuietPort
  DEF Goes, Held0, HttpGone, HttpsGone, Uncerted, Unrecorded,
     Unsited, Disallowed, Typed, tables
<1>10. WebInv'
  BY <1>0, <1>1, <1>2, <1>3, QuietWeb
  DEF Goes, WebThere, Checked, Enabling, tables
<1>11. NameInv'
  BY <1>0, <1>1, <1>2, <1>3, <1>4, QuietName
  DEF Goes, Named, Typed, tables, remote
<1>12. CertInv'
  BY <1>0, <1>1, <1>2, <1>3, QuietCert
  DEF Goes, Uncerted, Unrecorded, Unsited, Disallowed, Certified, Decerting, tables, remote
<1>13. SiteInv'
  <2>1. /\ dirty \subseteq dirty' /\ enabled' = enabled /\ ~Before(w) /\ pc[w] # "is_enabled"
        /\ \A u \in Workers \ {w} : op'[u] = op[u] /\ pc'[u] = pc[u]
        /\ \A e \in enabled : e.board \in Boards /\ e.dns \in Dns /\ AgentOf[e.board] \in Agents
    BY <1>0, <1>1, <1>3, WebAssumption DEF Frame, tables, Typed, TypeOK, Before, Unsaved
  <2>2. TextIsSite'
    <3> SUFFICES ASSUME NEW u \in Workers, op'[u] # NULL, pc'[u] = "write_site"
                 PROVE  op'[u].dns \in dirty' \/ op'[u].text = site'[AgentOf[op'[u].board]][op'[u].dns]
      BY DEF TextIsSite, SiteAt
    <3>1. u # w /\ op'[u] = op[u] /\ pc'[u] = pc[u] /\ op[u] # NULL
      BY <1>1, <1>2, <2>1 DEF Goes, Ends
    <3>2. op[u].dns \in Dns /\ AgentOf[op[u].board] \in Agents
      BY <1>0, <3>1, RunsOperation DEF Typed
    <3>3. op[u].dns = op[w].dns => op[u].dns \in dirty
      BY <1>0, <1>1, <3>1, RunElsewhere
    <3>4. op[u].dns # op[w].dns => site'[AgentOf[op'[u].board]][op'[u].dns] = SiteAt(op[u].board, op[u].dns)
      BY <1>5, <3>1, <3>2 DEF SiteAt
    <3> QED
      BY <1>0, <2>1, <3>1, <3>3, <3>4 DEF SiteInv, TextIsSite
  <2>3. SiteOfRow'
    <3> SUFFICES ASSUME NEW e \in enabled
                 PROVE  \/ e.dns \in dirty' \/ AtName(e.dns, "disable", Unsited)'
                        \/ AtName(e.dns, "enable", ToSite)'
                        \/ /\ SiteAt(e.board, e.dns)' # NULL
                           /\ SiteAt(e.board, e.dns)'.http = e.http
                           /\ SiteAt(e.board, e.dns)'.https = e.https
      BY <2>1 DEF SiteOfRow
    <3>1. CASE e.dns \in dirty
      BY <2>1, <3>1
    <3>2. CASE e.dns # op[w].dns
      <4>1. SiteAt(e.board, e.dns)' = SiteAt(e.board, e.dns)
        BY <1>5, <2>1, <3>2 DEF SiteAt
      <4> QED
        BY <1>0, <1>3, <3>2, <4>1, SiteOfRowStays DEF SiteInv
    <3>3. CASE /\ e.dns = op[w].dns /\ e.board = op[w].board /\ e.dns \notin dirty
               /\ op[w].kind \in {"enable", "disable"} => e.http = op[w].http /\ e.https = op[w].https
      <4>1. SiteAt(e.board, e.dns)' = SiteAt(op[w].board, op[w].dns)'
        BY <1>1, <3>3 DEF SiteAt
      <4> QED
        BY <1>1, <1>5, <3>3, <4>1
    <3> QED
      BY <1>0, <1>1, <2>1, <3>1, <3>2, <3>3, RowCases
  <2> QED
    BY <2>2, <2>3 DEF SiteInv
<1>14. RedirectInv'
  <2>1. /\ dirty \subseteq dirty' /\ enabled' = enabled /\ webs' = webs
        /\ ~Before(w) /\ pc[w] # "is_enabled"
        /\ \A u \in Workers \ {w} : op'[u] = op[u] /\ pc'[u] = pc[u]
        /\ \A e \in enabled : e.board \in Boards /\ e.dns \in Dns /\ AgentOf[e.board] \in Agents
    BY <1>0, <1>1, <1>3, WebAssumption DEF Frame, tables, Typed, TypeOK, Before, Unsaved
  <2>2. WebRedirect'
    <3> SUFFICES ASSUME NEW v \in webs, NEW e \in enabled, v[1] = e.board
                 PROVE  \/ Excused(v, e)' \/ AtWeb(v[1], v[2], "unexpose", {"drop_web"})'
                        \/ AtBoard(v[1], "disable", Unsited)'
                        \/ /\ SiteAt(e.board, e.dns)' # NULL
                           /\ v[2] \in SiteAt(e.board, e.dns)'.redirects
      BY <2>1 DEF WebRedirect
    <3>1. CASE e.dns \in dirty
      BY <1>3, <3>1, ExcusedStays DEF Excused
    <3>2. CASE e.dns # op[w].dns /\ e.board # op[w].board
      <4>1. SiteAt(e.board, e.dns)' = SiteAt(e.board, e.dns)
        BY <1>5, <2>1, <3>2 DEF SiteAt
      <4> QED
        BY <1>0, <1>3, <3>2, <4>1, WebRedirectStays DEF RedirectInv
    <3>3. CASE e.dns = op[w].dns /\ e.board = op[w].board /\ e.dns \notin dirty
      <4>1. v[1] \in dirty \/ Orphaned(v[1], v[2])
        BY <1>0, <1>1, <3>3 DEF WebInv, NewBoard, Checked, Enabling
      <4>2. Excused(v, e)
        BY <4>1 DEF Excused
      <4> QED
        BY <1>3, <4>2, ExcusedStays
    <3> QED
      BY <1>0, <1>1, <2>1, <3>1, <3>2, <3>3, RowCases
  <2>3. RedirectMade'
    <3> SUFFICES ASSUME NEW u \in Workers, In(u, "expose", Redirected)'
                 PROVE  \/ op'[u].board \in dirty' \/ op'[u].dns \in dirty'
                        \/ /\ site'[AgentOf[op'[u].board]][op'[u].dns] # NULL
                           /\ op'[u].name \in site'[AgentOf[op'[u].board]][op'[u].dns].redirects
      BY DEF RedirectMade, SiteAt
    <3>1. CASE u # w
      <4>1. op'[u] = op[u] /\ pc'[u] = pc[u] /\ op[u] # NULL
        BY <2>1, <3>1
      <4>2. op[u].dns \in Dns /\ AgentOf[op[u].board] \in Agents
        BY <1>0, <4>1, RunsOperation DEF Typed
      <4>3. op[u].dns = op[w].dns => op[u].dns \in dirty
        BY <1>0, <1>1, <3>1, <4>1, RunElsewhere
      <4>4. op[u].dns # op[w].dns => site'[AgentOf[op'[u].board]][op'[u].dns] = SiteAt(op[u].board, op[u].dns)
        BY <1>5, <4>1, <4>2 DEF SiteAt
      <4> QED
        BY <1>0, <2>1, <4>1, <4>3, <4>4 DEF RedirectInv, RedirectMade
    <3>2. CASE u = w
      BY <1>1, <1>2, <3>2
    <3> QED
      BY <3>1, <3>2
  <2> QED
    BY <2>2, <2>3 DEF RedirectInv
<1> QED
  BY <1>4, <1>6, <1>7, <1>8, <1>9, <1>10, <1>11, <1>12, <1>13, <1>14 DEF IInv

(* RemoveProxy: the site goes while the operation that disables the name runs. *)
LEMMA RemoveProxyKeeps ==
  ASSUME IInv, NEW w \in Workers, RemoveProxy(w)
  PROVE  IInv'
<1> USE DEF Stays, Was, SameThere, In, Does, Runs
<1>0. /\ Typed /\ RunInv /\ RecordInv /\ SiteInv /\ ServeInv /\ PortInv
      /\ WebInv /\ NameInv /\ RedirectInv /\ CertInv
  BY DEF IInv
<1>1. /\ pc[w] = "unproxy" /\ op[w] # NULL /\ op[w].kind = "disable"
      /\ UNCHANGED <<tables, record, cert, free, allow, op, ghosts>>
  BY <1>0, WhoIsThere DEF RemoveProxy, At, Disabling
<1>2. Goes(w, "disallow_http") /\ op'[w] = op[w]
  BY <1>0, <1>1, GoesOn DEF RemoveProxy, Typed, Labels, Disabling, Redirecting, Grown, ghosts
<1>3. Frame(w)
  BY <1>2 DEF Goes
<1>5. /\ site' \in [Agents -> [Dns -> Sites \cup {NULL}]]
      /\ \A a \in Agents, d \in Dns : d # op[w].dns => site'[a][d] = site[a][d]
  <2>1. op[w].dns \in Dns /\ op[w].board \in Boards /\ AgentOf[op[w].board] \in Agents
    BY <1>0, <1>1, RunsOperation DEF Typed
  <2> QED
    BY <1>0, <2>1 DEF RemoveProxy, Typed, TypeOK
<1>4. Typed'
  <2>1. TableTypes'
    BY <1>0, <1>1, <1>5 DEF Typed, TypeOK, TableTypes, tables, remote, ghosts
  <2>2. FilledAt(w)'
    BY <1>0, <1>1, <1>2 DEF Typed, Filled, FilledAt, Goes, Disabling, Redirecting, Undrawn
  <2> QED
    BY <1>0, <1>3, <2>1, <2>2, TypedStep
<1>6. RunInv'
  BY <1>0, <1>1, <1>2, <1>3, QuietRun
  DEF Goes, Before, Unsaved, tables
<1>7. RecordInv'
  BY <1>0, <1>1, <1>2, <1>3, <1>4, QuietRecord
  DEF Goes, Typed, Recorded, Unrecorded, Unsited, Disallowed, tables, remote
<1>8. ServeInv'
  BY <1>0, <1>1, <1>2, <1>3, QuietServe
  DEF Goes, HttpGone, HttpsGone, Uncerted, Unrecorded,
     Unsited, Disallowed, ToServeHttp, ToServeHttps, ToAllowHttp, ToAllowHttps, tables, remote
<1>9. PortInv'
  BY <1>0, <1>1, <1>2, <1>3, QuietPort
  DEF Goes, Held0, HttpGone, HttpsGone, Uncerted, Unrecorded,
     Unsited, Disallowed, Typed, tables
<1>10. WebInv'
  BY <1>0, <1>1, <1>2, <1>3, QuietWeb
  DEF Goes, WebThere, Checked, Enabling, tables
<1>11. NameInv'
  BY <1>0, <1>1, <1>2, <1>3, <1>4, QuietName
  DEF Goes, Named, Typed, tables, remote
<1>12. CertInv'
  BY <1>0, <1>1, <1>2, <1>3, QuietCert
  DEF Goes, Uncerted, Unrecorded, Unsited, Disallowed, Certified, Decerting, tables, remote
<1>13. SiteInv'
  <2>1. /\ dirty \subseteq dirty' /\ enabled' = enabled /\ ~Before(w) /\ pc[w] # "is_enabled"
        /\ \A u \in Workers \ {w} : op'[u] = op[u] /\ pc'[u] = pc[u]
        /\ \A e \in enabled : e.board \in Boards /\ e.dns \in Dns /\ AgentOf[e.board] \in Agents
    BY <1>0, <1>1, <1>3, WebAssumption DEF Frame, tables, Typed, TypeOK, Before, Unsaved
  <2>2. TextIsSite'
    <3> SUFFICES ASSUME NEW u \in Workers, op'[u] # NULL, pc'[u] = "write_site"
                 PROVE  op'[u].dns \in dirty' \/ op'[u].text = site'[AgentOf[op'[u].board]][op'[u].dns]
      BY DEF TextIsSite, SiteAt
    <3>1. u # w /\ op'[u] = op[u] /\ pc'[u] = pc[u] /\ op[u] # NULL
      BY <1>1, <1>2, <2>1 DEF Goes, Ends
    <3>2. op[u].dns \in Dns /\ AgentOf[op[u].board] \in Agents
      BY <1>0, <3>1, RunsOperation DEF Typed
    <3>3. op[u].dns = op[w].dns => op[u].dns \in dirty
      BY <1>0, <1>1, <3>1, RunElsewhere
    <3>4. op[u].dns # op[w].dns => site'[AgentOf[op'[u].board]][op'[u].dns] = SiteAt(op[u].board, op[u].dns)
      BY <1>5, <3>1, <3>2 DEF SiteAt
    <3> QED
      BY <1>0, <2>1, <3>1, <3>3, <3>4 DEF SiteInv, TextIsSite
  <2>3. SiteOfRow'
    <3> SUFFICES ASSUME NEW e \in enabled
                 PROVE  \/ e.dns \in dirty' \/ AtName(e.dns, "disable", Unsited)'
                        \/ AtName(e.dns, "enable", ToSite)'
                        \/ /\ SiteAt(e.board, e.dns)' # NULL
                           /\ SiteAt(e.board, e.dns)'.http = e.http
                           /\ SiteAt(e.board, e.dns)'.https = e.https
      BY <2>1 DEF SiteOfRow
    <3>1. CASE e.dns \in dirty
      BY <2>1, <3>1
    <3>2. CASE e.dns # op[w].dns
      <4>1. SiteAt(e.board, e.dns)' = SiteAt(e.board, e.dns)
        BY <1>5, <2>1, <3>2 DEF SiteAt
      <4> QED
        BY <1>0, <1>3, <3>2, <4>1, SiteOfRowStays DEF SiteInv
    <3>3. CASE /\ e.dns = op[w].dns /\ e.board = op[w].board /\ e.dns \notin dirty
               /\ op[w].kind \in {"enable", "disable"} => e.http = op[w].http /\ e.https = op[w].https
      <4>1. In(w, "disable", Unsited)' /\ op'[w].dns = e.dns
        BY <1>1, <1>2, <3>3 DEF Goes, Unsited
      <4>2. AtName(e.dns, "disable", Unsited)'
        BY <4>1 DEF AtName
      <4> QED
        BY <4>2
    <3> QED
      BY <1>0, <1>1, <2>1, <3>1, <3>2, <3>3, RowCases
  <2> QED
    BY <2>2, <2>3 DEF SiteInv
<1>14. RedirectInv'
  <2>1. /\ dirty \subseteq dirty' /\ enabled' = enabled /\ webs' = webs
        /\ ~Before(w) /\ pc[w] # "is_enabled"
        /\ \A u \in Workers \ {w} : op'[u] = op[u] /\ pc'[u] = pc[u]
        /\ \A e \in enabled : e.board \in Boards /\ e.dns \in Dns /\ AgentOf[e.board] \in Agents
    BY <1>0, <1>1, <1>3, WebAssumption DEF Frame, tables, Typed, TypeOK, Before, Unsaved
  <2>2. WebRedirect'
    <3> SUFFICES ASSUME NEW v \in webs, NEW e \in enabled, v[1] = e.board
                 PROVE  \/ Excused(v, e)' \/ AtWeb(v[1], v[2], "unexpose", {"drop_web"})'
                        \/ AtBoard(v[1], "disable", Unsited)'
                        \/ /\ SiteAt(e.board, e.dns)' # NULL
                           /\ v[2] \in SiteAt(e.board, e.dns)'.redirects
      BY <2>1 DEF WebRedirect
    <3>1. CASE e.dns \in dirty
      BY <1>3, <3>1, ExcusedStays DEF Excused
    <3>2. CASE e.dns # op[w].dns /\ e.board # op[w].board
      <4>1. SiteAt(e.board, e.dns)' = SiteAt(e.board, e.dns)
        BY <1>5, <2>1, <3>2 DEF SiteAt
      <4> QED
        BY <1>0, <1>3, <3>2, <4>1, WebRedirectStays DEF RedirectInv
    <3>3. CASE e.dns = op[w].dns /\ e.board = op[w].board /\ e.dns \notin dirty
      <4>1. In(w, "disable", Unsited)' /\ op'[w].board = v[1]
        BY <1>1, <1>2, <3>3 DEF Goes, Unsited
      <4>2. AtBoard(v[1], "disable", Unsited)'
        BY <4>1 DEF AtBoard
      <4> QED
        BY <4>2
    <3> QED
      BY <1>0, <1>1, <2>1, <3>1, <3>2, <3>3, RowCases
  <2>3. RedirectMade'
    <3> SUFFICES ASSUME NEW u \in Workers, In(u, "expose", Redirected)'
                 PROVE  \/ op'[u].board \in dirty' \/ op'[u].dns \in dirty'
                        \/ /\ site'[AgentOf[op'[u].board]][op'[u].dns] # NULL
                           /\ op'[u].name \in site'[AgentOf[op'[u].board]][op'[u].dns].redirects
      BY DEF RedirectMade, SiteAt
    <3>1. CASE u # w
      <4>1. op'[u] = op[u] /\ pc'[u] = pc[u] /\ op[u] # NULL
        BY <2>1, <3>1
      <4>2. op[u].dns \in Dns /\ AgentOf[op[u].board] \in Agents
        BY <1>0, <4>1, RunsOperation DEF Typed
      <4>3. op[u].dns = op[w].dns => op[u].dns \in dirty
        BY <1>0, <1>1, <3>1, <4>1, RunElsewhere
      <4>4. op[u].dns # op[w].dns => site'[AgentOf[op'[u].board]][op'[u].dns] = SiteAt(op[u].board, op[u].dns)
        BY <1>5, <4>1, <4>2 DEF SiteAt
      <4> QED
        BY <1>0, <2>1, <4>1, <4>3, <4>4 DEF RedirectInv, RedirectMade
    <3>2. CASE u = w
      BY <1>1, <1>2, <3>2 DEF Goes
    <3> QED
      BY <3>1, <3>2
  <2> QED
    BY <2>2, <2>3 DEF RedirectInv
<1> QED
  BY <1>4, <1>6, <1>7, <1>8, <1>9, <1>10, <1>11, <1>12, <1>13, <1>14 DEF IInv

(* WriteSite: what is written is the site there is with one redirect more   *)
(* or less, unless another operation works on the name.                     *)
LEMMA WriteSiteKeeps ==
  ASSUME IInv, NEW w \in Workers, WriteSite(w)
  PROVE  IInv'
<1> USE DEF Stays, Was, SameThere, In, Does, Runs
<1>0. /\ Typed /\ RunInv /\ RecordInv /\ SiteInv /\ ServeInv /\ PortInv
      /\ WebInv /\ NameInv /\ RedirectInv /\ CertInv
  BY DEF IInv
<1>1. /\ pc[w] = "write_site" /\ op[w] # NULL /\ op[w].kind \in {"enable", "expose", "unexpose"}
      /\ op[w].text \in Sites
      /\ op[w].kind \in {"expose", "unexpose"} => op[w].name \in Names
      /\ op[w].name \in Names \cup {NULL}
      /\ op[w].dns \in Dns /\ op[w].board \in Boards /\ AgentOf[op[w].board] \in Agents
      /\ UNCHANGED <<tables, record, cert, free, allow, ghosts>>
  <2>1. pc[w] = "write_site" /\ op[w] # NULL /\ op[w].kind # "disable"
    BY <1>0, WhoIsThere DEF WriteSite, At, Redirecting
  <2>2. op[w].text \in Sites /\ (op[w].kind \in {"expose", "unexpose"} => op[w].name \in Names)
    BY <1>0, <2>1 DEF Typed, Filled, FilledAt
  <2>3. /\ op[w] \in Operations /\ op[w].kind \in {"enable", "disable", "expose", "unexpose"}
        /\ op[w].dns \in Dns /\ op[w].board \in Boards /\ AgentOf[op[w].board] \in Agents
    BY <1>0, <2>1, RunsOperation DEF Typed
  <2>4. op[w].name \in Names \cup {NULL}
    BY <2>3 DEF Operations
  <2> QED
    BY <2>1, <2>2, <2>3, <2>4 DEF WriteSite
<1>2. \/ op[w].kind = "enable" /\ Ends(w)
      \/ op[w].kind = "expose" /\ Goes(w, "save_web") /\ op'[w] = op[w]
      \/ op[w].kind = "unexpose" /\ Goes(w, "drop_web") /\ op'[w] = op[w]
  <2>1. Grown
    BY <1>1 DEF Grown, ghosts
  <2>2. CASE op[w].kind = "enable"
    BY <1>0, <1>1, <2>1, <2>2, EndsHere DEF WriteSite, Typed
  <2>3. CASE op[w].kind = "expose"
    BY <1>0, <1>1, <2>1, <2>3, GoesOn DEF WriteSite, Typed, Labels, Exposing
  <2>4. CASE op[w].kind = "unexpose"
    BY <1>0, <1>1, <2>1, <2>4, GoesOn DEF WriteSite, Typed, Labels, Unexposing
  <2> QED
    BY <1>1, <2>2, <2>3, <2>4
<1>3. Frame(w)
  BY <1>2 DEF Goes, Ends
<1>5. /\ site' \in [Agents -> [Dns -> Sites \cup {NULL}]]
      /\ \A a \in Agents, d \in Dns : d # op[w].dns => site'[a][d] = site[a][d]
      /\ site'[AgentOf[op[w].board]][op[w].dns] # NULL
      /\ site'[AgentOf[op[w].board]][op[w].dns].http = op[w].text.http
      /\ site'[AgentOf[op[w].board]][op[w].dns].https = op[w].text.https
      /\ site'[AgentOf[op[w].board]][op[w].dns].redirects = Redirects(op[w])
  <2> DEFINE s == [op[w].text EXCEPT !.redirects = Redirects(op[w])]
  <2>1. Redirects(op[w]) \in SUBSET (Names \cup {NULL})
    BY <1>1 DEF Redirects, Sites
  <2>2. /\ s \in Sites /\ s # NULL /\ s.http = op[w].text.http /\ s.https = op[w].text.https
        /\ s.redirects = Redirects(op[w])
    BY <1>1, <2>1, WebAssumption DEF Sites
  <2>3. site' = [site EXCEPT ![AgentOf[op[w].board]][op[w].dns] = s]
    BY DEF WriteSite
  <2> HIDE DEF s
  <2> QED
    BY <1>0, <1>1, <2>2, <2>3 DEF Typed, TypeOK
<1>4. Typed'
  <2>1. TableTypes'
    BY <1>0, <1>1, <1>5 DEF Typed, TypeOK, TableTypes, tables, remote, ghosts
  <2>2. FilledAt(w)'
    BY <1>0, <1>1, <1>2 DEF Typed, Filled, FilledAt, Goes, Ends, Exposing, Unexposing, Redirecting, Undrawn
  <2> QED
    BY <1>0, <1>3, <2>1, <2>2, TypedStep
<1>6. RunInv'
  BY <1>0, <1>1, <1>2, <1>3, QuietRun
  DEF Goes, Ends, Before, Unsaved, tables
<1>7. RecordInv'
  BY <1>0, <1>1, <1>2, <1>3, <1>4, QuietRecord
  DEF Goes, Ends, Typed, Recorded, Unrecorded, Unsited, Disallowed, tables, remote
<1>8. ServeInv'
  BY <1>0, <1>1, <1>2, <1>3, QuietServe
  DEF Goes, Ends, HttpGone, HttpsGone, Uncerted, Unrecorded,
     Unsited, Disallowed, ToServeHttp, ToServeHttps, ToAllowHttp, ToAllowHttps, tables, remote
<1>9. PortInv'
  BY <1>0, <1>1, <1>2, <1>3, QuietPort
  DEF Goes, Ends, Held0, HttpGone, HttpsGone, Uncerted, Unrecorded,
     Unsited, Disallowed, Typed, tables
<1>10. WebInv'
  BY <1>0, <1>1, <1>2, <1>3, QuietWeb
  DEF Goes, Ends, WebThere, Checked, Enabling, tables
<1>11. NameInv'
  BY <1>0, <1>1, <1>2, <1>3, <1>4, QuietName
  DEF Goes, Ends, Named, Typed, tables, remote
<1>12. CertInv'
  BY <1>0, <1>1, <1>2, <1>3, QuietCert
  DEF Goes, Ends, Uncerted, Unrecorded, Unsited, Disallowed, Certified, Decerting, tables, remote
<1>13. SiteInv'
  <2>1. /\ dirty \subseteq dirty' /\ enabled' = enabled /\ ~Before(w) /\ pc[w] # "is_enabled"
        /\ \A u \in Workers \ {w} : op'[u] = op[u] /\ pc'[u] = pc[u]
        /\ \A e \in enabled : e.board \in Boards /\ e.dns \in Dns /\ AgentOf[e.board] \in Agents
    BY <1>0, <1>1, <1>3, WebAssumption DEF Frame, tables, Typed, TypeOK, Before, Unsaved
  <2>2. TextIsSite'
    <3> SUFFICES ASSUME NEW u \in Workers, op'[u] # NULL, pc'[u] = "write_site"
                 PROVE  op'[u].dns \in dirty' \/ op'[u].text = site'[AgentOf[op'[u].board]][op'[u].dns]
      BY DEF TextIsSite, SiteAt
    <3>1. u # w /\ op'[u] = op[u] /\ pc'[u] = pc[u] /\ op[u] # NULL
      BY <1>1, <1>2, <2>1 DEF Goes, Ends
    <3>2. op[u].dns \in Dns /\ AgentOf[op[u].board] \in Agents
      BY <1>0, <3>1, RunsOperation DEF Typed
    <3>3. op[u].dns = op[w].dns => op[u].dns \in dirty
      BY <1>0, <1>1, <3>1, RunElsewhere
    <3>4. op[u].dns # op[w].dns => site'[AgentOf[op'[u].board]][op'[u].dns] = SiteAt(op[u].board, op[u].dns)
      BY <1>5, <3>1, <3>2 DEF SiteAt
    <3> QED
      BY <1>0, <2>1, <3>1, <3>3, <3>4 DEF SiteInv, TextIsSite
  <2>3. SiteOfRow'
    <3> SUFFICES ASSUME NEW e \in enabled
                 PROVE  \/ e.dns \in dirty' \/ AtName(e.dns, "disable", Unsited)'
                        \/ AtName(e.dns, "enable", ToSite)'
                        \/ /\ SiteAt(e.board, e.dns)' # NULL
                           /\ SiteAt(e.board, e.dns)'.http = e.http
                           /\ SiteAt(e.board, e.dns)'.https = e.https
      BY <2>1 DEF SiteOfRow
    <3>1. CASE e.dns \in dirty
      BY <2>1, <3>1
    <3>2. CASE e.dns # op[w].dns
      <4>1. SiteAt(e.board, e.dns)' = SiteAt(e.board, e.dns)
        BY <1>5, <2>1, <3>2 DEF SiteAt
      <4> QED
        BY <1>0, <1>3, <3>2, <4>1, SiteOfRowStays DEF SiteInv
    <3>3. CASE /\ e.dns = op[w].dns /\ e.board = op[w].board /\ e.dns \notin dirty
               /\ op[w].kind \in {"enable", "disable"} => e.http = op[w].http /\ e.https = op[w].https
      <4>1. op[w].text = SiteAt(op[w].board, op[w].dns)
        BY <1>0, <1>1, <3>3 DEF SiteInv, TextIsSite

      <4>2. /\ SiteAt(e.board, e.dns)' # NULL
            /\ SiteAt(e.board, e.dns)'.http = SiteAt(e.board, e.dns).http
            /\ SiteAt(e.board, e.dns)'.https = SiteAt(e.board, e.dns).https
        BY <1>5, <3>3, <4>1 DEF SiteAt
      <4>3. Stays(w, "disable", Unsited) /\ Stays(w, "enable", ToSite)
        BY <1>1 DEF ToSite
      <4> QED
        BY <1>0, <1>3, <4>2, <4>3, SiteOfRowStays DEF SiteInv
    <3> QED
      BY <1>0, <1>1, <2>1, <3>1, <3>2, <3>3, RowCases
  <2> QED
    BY <2>2, <2>3 DEF SiteInv
<1>14. RedirectInv'
  <2>1. /\ dirty \subseteq dirty' /\ enabled' = enabled /\ webs' = webs
        /\ ~Before(w) /\ pc[w] # "is_enabled"
        /\ \A u \in Workers \ {w} : op'[u] = op[u] /\ pc'[u] = pc[u]
        /\ \A e \in enabled : e.board \in Boards /\ e.dns \in Dns /\ AgentOf[e.board] \in Agents
    BY <1>0, <1>1, <1>3, WebAssumption DEF Frame, tables, Typed, TypeOK, Before, Unsaved
  <2>2. WebRedirect'
    <3> SUFFICES ASSUME NEW v \in webs, NEW e \in enabled, v[1] = e.board
                 PROVE  \/ Excused(v, e)' \/ AtWeb(v[1], v[2], "unexpose", {"drop_web"})'
                        \/ AtBoard(v[1], "disable", Unsited)'
                        \/ /\ SiteAt(e.board, e.dns)' # NULL
                           /\ v[2] \in SiteAt(e.board, e.dns)'.redirects
      BY <2>1 DEF WebRedirect
    <3>1. CASE e.dns \in dirty
      BY <1>3, <3>1, ExcusedStays DEF Excused
    <3>2. CASE e.dns # op[w].dns /\ e.board # op[w].board
      <4>1. SiteAt(e.board, e.dns)' = SiteAt(e.board, e.dns)
        BY <1>5, <2>1, <3>2 DEF SiteAt
      <4> QED
        BY <1>0, <1>3, <3>2, <4>1, WebRedirectStays DEF RedirectInv
    <3>3. CASE e.dns = op[w].dns /\ e.board = op[w].board /\ e.dns \notin dirty
      <4>1. op[w].text = SiteAt(op[w].board, op[w].dns)
        BY <1>0, <1>1, <3>3 DEF SiteInv, TextIsSite

      <4>2. CASE op[w].kind = "unexpose" /\ v[2] = op[w].name
        <5>1. In(w, "unexpose", {"drop_web"})' /\ op'[w].board = v[1] /\ op'[w].name = v[2]
          BY <1>2, <3>3, <4>2 DEF Goes
        <5>2. AtWeb(v[1], v[2], "unexpose", {"drop_web"})'
          BY <5>1 DEF AtWeb
        <5> QED
          BY <5>2
      <4>3. CASE ~(op[w].kind = "unexpose" /\ v[2] = op[w].name)
        <5>1. v[2] \in SiteAt(e.board, e.dns).redirects => v[2] \in SiteAt(e.board, e.dns)'.redirects
          BY <1>5, <3>3, <4>1, <4>3, ZenonT(60) DEF SiteAt, Redirects
        <5>2. SiteAt(e.board, e.dns)' # NULL
          BY <1>5, <3>3 DEF SiteAt
        <5>3. Stays(w, "unexpose", {"drop_web"}) /\ Stays(w, "disable", Unsited)
          BY <1>1
        <5> QED
          BY <1>0, <1>3, <5>1, <5>2, <5>3, WebRedirectStays, SMTT(30) DEF RedirectInv
      <4> QED
        BY <4>2, <4>3
    <3> QED
      BY <1>0, <1>1, <2>1, <3>1, <3>2, <3>3, RowCases
  <2>3. RedirectMade'
    <3> SUFFICES ASSUME NEW u \in Workers, In(u, "expose", Redirected)'
                 PROVE  \/ op'[u].board \in dirty' \/ op'[u].dns \in dirty'
                        \/ /\ site'[AgentOf[op'[u].board]][op'[u].dns] # NULL
                           /\ op'[u].name \in site'[AgentOf[op'[u].board]][op'[u].dns].redirects
      BY DEF RedirectMade, SiteAt
    <3>1. CASE u # w
      <4>1. op'[u] = op[u] /\ pc'[u] = pc[u] /\ op[u] # NULL
        BY <2>1, <3>1
      <4>2. op[u].dns \in Dns /\ AgentOf[op[u].board] \in Agents
        BY <1>0, <4>1, RunsOperation DEF Typed
      <4>3. op[u].dns = op[w].dns => op[u].dns \in dirty
        BY <1>0, <1>1, <3>1, <4>1, RunElsewhere
      <4>4. op[u].dns # op[w].dns => site'[AgentOf[op'[u].board]][op'[u].dns] = SiteAt(op[u].board, op[u].dns)
        BY <1>5, <4>1, <4>2, SMTT(30) DEF SiteAt
      <4> QED
        BY <1>0, <2>1, <4>1, <4>3, <4>4 DEF RedirectInv, RedirectMade
    <3>2. CASE u = w
      <4>1. op[w].kind = "expose" /\ op'[w] = op[w]
        BY <1>2, <3>2 DEF Goes, Ends
      <4> QED
        BY <1>5, <3>2, <4>1 DEF Redirects
    <3> QED
      BY <3>1, <3>2
  <2> QED
    BY <2>2, <2>3 DEF RedirectInv
<1> QED
  BY <1>4, <1>6, <1>7, <1>8, <1>9, <1>10, <1>11, <1>12, <1>13, <1>14 DEF IInv

(* DeleteRecord: the record goes while the operation that disables the name runs. *)
LEMMA DeleteRecordKeeps ==
  ASSUME IInv, NEW w \in Workers, DeleteRecord(w)
  PROVE  IInv'
<1> USE DEF Stays, Was, SameThere, In, Does, Runs
<1>0. /\ Typed /\ RunInv /\ RecordInv /\ SiteInv /\ ServeInv /\ PortInv
      /\ WebInv /\ NameInv /\ RedirectInv /\ CertInv
  BY DEF IInv
<1>1. /\ pc[w] = "unrecord" /\ op[w] # NULL /\ op[w].kind = "disable"
      /\ op[w].dns \in Dns /\ op[w].board \in Boards
      /\ UNCHANGED <<tables, site, cert, free, allow, op, ghosts>>
  <2>1. pc[w] = "unrecord" /\ op[w] # NULL /\ op[w].kind = "disable"
    BY <1>0, WhoIsThere DEF DeleteRecord, At, Disabling
  <2> QED
    BY <1>0, <2>1, RunsOperation DEF DeleteRecord, Typed
<1>2. Goes(w, pc'[w]) /\ op'[w] = op[w] /\ pc'[w] \in {"unproxy", "disallow_http"}
  <2> DEFINE l == IF op[w].online THEN "unproxy" ELSE "disallow_http"
  <2>1. l \in Labels /\ l \in {"unproxy", "disallow_http"} /\ Goto(w, l)
    BY DEF DeleteRecord, Labels, Disabling
  <2> HIDE DEF l
  <2>2. Goes(w, l)
    BY <1>0, <1>1, <2>1, GoesOn DEF Typed, Grown, ghosts
  <2> QED
    BY <1>1, <2>1, <2>2 DEF Goes
<1>3. Frame(w)
  BY <1>2 DEF Goes
<1>5. /\ record' \in [Hosts -> Agents \cup {NULL}]
      /\ \A d \in Dns : d # op[w].dns => record'[<<NULL, d>>] = record[<<NULL, d>>]
      /\ \A n \in Names, d \in Dns : record'[<<n, d>>] = record[<<n, d>>]
      /\ record'[<<NULL, op[w].dns>>] = NULL
  BY <1>0, <1>1, WebAssumption DEF DeleteRecord, Typed, TypeOK, Hosts
<1>4. Typed'
  <2>1. TableTypes'
    BY <1>0, <1>1, <1>5 DEF Typed, TypeOK, TableTypes, tables, ghosts
  <2>2. FilledAt(w)'
    BY <1>0, <1>1, <1>2 DEF Typed, Filled, FilledAt, Goes, Disabling, Undrawn
  <2> QED
    BY <1>0, <1>3, <2>1, <2>2, TypedStep
<1>6. RunInv'
  BY <1>0, <1>1, <1>2, <1>3, QuietRun
  DEF Goes, Before, Unsaved, tables
<1>7. SiteInv'
  BY <1>0, <1>1, <1>2, <1>3, QuietSite
  DEF Goes, Unsited, Disallowed, ToSite, tables, remote
<1>8. ServeInv'
  BY <1>0, <1>1, <1>2, <1>3, QuietServe
  DEF Goes, HttpGone, HttpsGone, Uncerted, Unrecorded,
     Unsited, Disallowed, ToServeHttp, ToServeHttps, ToAllowHttp, ToAllowHttps, tables, remote
<1>9. PortInv'
  BY <1>0, <1>1, <1>2, <1>3, QuietPort
  DEF Goes, Held0, HttpGone, HttpsGone, Uncerted, Unrecorded,
     Unsited, Disallowed, Typed, tables
<1>10. WebInv'
  BY <1>0, <1>1, <1>2, <1>3, QuietWeb
  DEF Goes, WebThere, Checked, Enabling, tables
<1>11. NameInv'
  BY <1>0, <1>1, <1>2, <1>3, <1>4, <1>5, QuietName
  DEF Goes, Named, Typed, tables, remote
<1>12. RedirectInv'
  BY <1>0, <1>1, <1>2, <1>3, QuietRedirect
  DEF Goes, Unsited, Disallowed, Redirected, tables, remote
<1>13. CertInv'
  BY <1>0, <1>1, <1>2, <1>3, QuietCert
  DEF Goes, Uncerted, Unrecorded, Unsited, Disallowed, Certified, Decerting, tables, remote
<1>14. RecordInv'
  <2>1. /\ dirty \subseteq dirty' /\ orphan \subseteq orphan' /\ enabled' = enabled /\ webs' = webs
        /\ ~Before(w) /\ pc[w] # "is_enabled"
        /\ \A u \in Workers \ {w} : op'[u] = op[u] /\ pc'[u] = pc[u]
        /\ \A e \in enabled : e.dns \in Dns
        /\ \A v \in webs : v[2] \in Names
    BY <1>0, <1>1, <1>3 DEF Frame, tables, Typed, TypeOK, Before
  <2>2. \A u \in Workers : op'[u] # NULL => op'[u].dns \in Dns
    BY <1>4, RunsOperation DEF Typed, TypeOK, Operations
  <2>3. ASSUME NEW u \in Workers, u # w, op[u] # NULL, op[u].dns = op[w].dns
        PROVE  op[u].dns \in dirty'
    BY <1>0, <1>1, <2>1, <2>3, RunElsewhere
  <2>4. RecordMade'
    BY <1>0, <1>1, <1>2, <1>5, <2>1, <2>2, <2>3 DEF RecordInv, RecordMade
  <2>5. NoRecord'
    BY <1>0, <1>1, <1>2, <1>5, <2>1, <2>2, <2>3 DEF RecordInv, NoRecord
  <2>6. Stays(w, "disable", Unrecorded) /\ Stays(w, "enable", Recorded)
    BY <1>1 DEF Unrecorded, Unsited, Disallowed
  <2>7. RecordOfRow'
    <3> SUFFICES ASSUME NEW e \in enabled
                 PROVE  \/ e.dns \in dirty' \/ AtName(e.dns, "disable", Unrecorded)'
                        \/ record'[<<NULL, e.dns>>] = AgentOf[e.board]
      BY <2>1 DEF RecordOfRow
    <3>1. CASE e.dns # op[w].dns
      BY <1>0, <1>3, <1>5, <2>1, <2>6, <3>1, RecordOfRowStays DEF RecordInv
    <3>2. CASE e.dns = op[w].dns
      <4>1. In(w, "disable", Unrecorded)' /\ op'[w].dns = e.dns
        BY <1>1, <1>2, <3>2 DEF Unrecorded, Unsited
      <4>2. AtName(e.dns, "disable", Unrecorded)'
        BY <4>1 DEF AtName
      <4> QED
        BY <4>2
    <3> QED
      BY <3>1, <3>2
  <2>8. RecordOwned'
    <3> SUFFICES ASSUME NEW d \in Dns, record'[<<NULL, d>>] # NULL
                 PROVE  \/ d \in dirty' \/ AtName(d, "enable", Recorded)'
                        \/ \E e \in enabled : e.dns = d
      BY <2>1 DEF RecordOwned
    <3>1. record[<<NULL, d>>] # NULL
      BY <1>5
    <3> QED
      BY <1>0, <1>3, <2>1, <2>6, <3>1, NameStays DEF RecordInv, RecordOwned
  <2> QED
    BY <2>4, <2>5, <2>7, <2>8 DEF RecordInv
<1> QED
  BY <1>4, <1>6, <1>7, <1>8, <1>9, <1>10, <1>11, <1>12, <1>13, <1>14 DEF IInv

(* CreateName: a record there is already was left by a webservice the board *)
(* disabled the module under, or the name is soiled.                        *)
LEMMA CreateNameKeeps ==
  ASSUME IInv, NEW w \in Workers, CreateName(w)
  PROVE  IInv'
<1> USE DEF Stays, Was, SameThere, In, Does, Runs
<1>0. /\ Typed /\ RunInv /\ RecordInv /\ SiteInv /\ ServeInv /\ PortInv
      /\ WebInv /\ NameInv /\ RedirectInv /\ CertInv
  BY DEF IInv
<1>1. /\ pc[w] = "name_record" /\ op[w] # NULL /\ op[w].kind = "expose"
      /\ op[w].dns \in Dns /\ op[w].board \in Boards /\ op[w].name \in Names
      /\ AgentOf[op[w].board] \in Agents
      /\ UNCHANGED <<tables, site, cert, free, allow, ghosts>>
  <2>1. pc[w] = "name_record" /\ op[w] # NULL /\ op[w].kind = "expose"
    BY <1>0, WhoIsThere DEF CreateName, At, Exposing
  <2>2. op[w].name \in Names
    BY <1>0, <2>1 DEF Typed, Filled, FilledAt
  <2> QED
    BY <1>0, <2>1, <2>2, RunsOperation DEF CreateName, Typed
<1>2. Goes(w, "certify") /\ op'[w] = op[w]
  BY <1>0, <1>1, GoesOn DEF CreateName, Typed, Labels, Exposing, Redirecting, Grown, ghosts
<1>3. Frame(w)
  BY <1>2 DEF Goes, Ends
<1>5. /\ record' \in [Hosts -> Agents \cup {NULL}]
      /\ \A d \in Dns : record'[<<NULL, d>>] = record[<<NULL, d>>]
      /\ \A n \in Names, d \in Dns :
           n # op[w].name \/ d # op[w].dns => record'[<<n, d>>] = record[<<n, d>>]
      /\ record'[<<op[w].name, op[w].dns>>] = IF record[<<op[w].name, op[w].dns>>] = NULL
             THEN AgentOf[op[w].board] ELSE record[<<op[w].name, op[w].dns>>]
  BY <1>0, <1>1, WebAssumption DEF CreateName, Resolving, Typed, TypeOK, Hosts
<1>4. Typed'
  <2>1. TableTypes'
    BY <1>0, <1>1, <1>5 DEF Typed, TypeOK, TableTypes, tables, ghosts
  <2>2. FilledAt(w)'
    BY <1>0, <1>1, <1>2 DEF Typed, Filled, FilledAt, Goes, Ends, Exposing, Redirecting, Undrawn
  <2> QED
    BY <1>0, <1>3, <2>1, <2>2, TypedStep
<1>6. RunInv'
  BY <1>0, <1>1, <1>2, <1>3, QuietRun
  DEF Goes, Before, Unsaved, tables
<1>7. RecordInv'
  BY <1>0, <1>1, <1>2, <1>3, <1>4, <1>5, QuietRecord
  DEF Goes, Typed, Recorded, Unrecorded, Unsited, Disallowed, tables, remote
<1>8. SiteInv'
  BY <1>0, <1>1, <1>2, <1>3, QuietSite
  DEF Goes, Unsited, Disallowed, ToSite, tables, remote
<1>9. ServeInv'
  BY <1>0, <1>1, <1>2, <1>3, QuietServe
  DEF Goes, HttpGone, HttpsGone, Uncerted, Unrecorded,
     Unsited, Disallowed, ToServeHttp, ToServeHttps, ToAllowHttp, ToAllowHttps, tables, remote
<1>10. PortInv'
  BY <1>0, <1>1, <1>2, <1>3, QuietPort
  DEF Goes, Held0, HttpGone, HttpsGone, Uncerted, Unrecorded,
     Unsited, Disallowed, Typed, tables
<1>11. WebInv'
  BY <1>0, <1>1, <1>2, <1>3, QuietWeb
  DEF Goes, WebThere, Checked, Enabling, tables
<1>12. RedirectInv'
  BY <1>0, <1>1, <1>2, <1>3, QuietRedirect
  DEF Goes, Unsited, Disallowed, Redirected, tables, remote
<1>13. CertInv'
  BY <1>0, <1>1, <1>2, <1>3, QuietCert
  DEF Goes, Uncerted, Unrecorded, Unsited, Disallowed, Certified, Decerting, tables, remote
<1>14. NameInv'
  <2>1. /\ dirty \subseteq dirty' /\ orphan \subseteq orphan' /\ enabled' = enabled /\ webs' = webs
        /\ ~Before(w) /\ pc[w] # "is_enabled"
        /\ \A u \in Workers \ {w} : op'[u] = op[u] /\ pc'[u] = pc[u]
        /\ \A e \in enabled : e.dns \in Dns
        /\ \A v \in webs : v[2] \in Names
    BY <1>0, <1>1, <1>3 DEF Frame, tables, Typed, TypeOK, Before
  <2>2. Stays(w, "expose", Named) /\ Stays(w, "unexpose", {"name_unrecord"})
    BY <1>1, <1>2 DEF Goes, Named
  <2>4. NameOwned'
    <3> SUFFICES ASSUME NEW n \in Names, NEW d \in Dns, record'[<<n, d>>] # NULL
                 PROVE  \/ d \in dirty' \/ OrphanName(n, d)'
                        \/ \E e \in enabled', v \in webs' : v[1] = e.board /\ v[2] = n /\ e.dns = d
                        \/ AtHost(n, d, "expose", Named)' \/ AtHost(n, d, "unexpose", {"name_unrecord"})'
      BY DEF NameOwned
    <3>1. CASE n = op[w].name /\ d = op[w].dns
      <4>1. In(w, "expose", Named)' /\ op'[w].dns = d /\ op'[w].name = n
        BY <1>1, <1>2, <3>1 DEF Goes, Named
      <4>2. AtHost(n, d, "expose", Named)'
        BY <4>1 DEF AtHost
      <4> QED
        BY <4>2
    <3>2. CASE n # op[w].name \/ d # op[w].dns
      <4>1. record[<<n, d>>] # NULL
        BY <1>5, <3>2
      <4> QED
        BY <1>0, <1>3, <2>1, <2>2, <3>2, <4>1, NameOwnedStays DEF NameInv
    <3> QED
      BY <3>1, <3>2
  <2>5. NameMade'
    <3> SUFFICES ASSUME NEW u \in Workers, In(u, "expose", Named)'
                 PROVE  \/ op'[u].board \in dirty' \/ op'[u].dns \in dirty'
                        \/ \E x \in orphan' : x[2] = op'[u].name /\ x[3] = op'[u].dns
                        \/ record'[<<op'[u].name, op'[u].dns>>] = AgentOf[op'[u].board]
      BY DEF NameMade, OrphanName
    <3>1. CASE u = w
      <4> DEFINE n == op[w].name
                 d == op[w].dns
      <4>1. op'[w] = op[w] /\ n \in Names /\ d \in Dns
        BY <1>1, <1>2
      <4>2. CASE record[<<n, d>>] = NULL
        BY <1>5, <3>1, <4>1, <4>2
      <4>3. CASE record[<<n, d>>] # NULL
        <5>1. \/ d \in dirty \/ OrphanName(n, d)
              \/ \E e \in enabled, v \in webs : v[1] = e.board /\ v[2] = n /\ e.dns = d
              \/ \E x \in Workers : In(x, "expose", Named) /\ op[x].dns = d
              \/ \E x \in Workers : In(x, "unexpose", {"name_unrecord"}) /\ op[x].dns = d
          BY <1>0, <4>1, <4>3 DEF NameInv, NameOwned, AtHost
        <5>2. ASSUME NEW x \in Workers, op[x] # NULL, op[x].dns = d, x # w
              PROVE  d \in dirty
          BY <1>0, <1>1, <5>2, RunElsewhere
        <5>3. ~In(w, "expose", Named) /\ ~In(w, "unexpose", {"name_unrecord"})
          BY <1>1 DEF Named
        <5>4. ASSUME NEW e \in enabled, NEW v \in webs, v[1] = e.board, v[2] = n, e.dns = d
              PROVE  d \in dirty \/ op[w].board \in dirty
          <6>1. CASE e.board # op[w].board
            BY <1>0, <1>1, <5>4, <6>1, RowElsewhere
          <6>2. CASE e.board = op[w].board
            BY <1>0, <1>1, <5>4, <6>2 DEF WebInv, FreshName
          <6> QED
            BY <6>1, <6>2
        <5>5. d \in dirty \/ op[w].board \in dirty \/ OrphanName(n, d)
          BY <5>1, <5>2, <5>3, <5>4
        <5> QED
          BY <2>1, <3>1, <4>1, <5>5 DEF OrphanName
      <4> QED
        BY <4>2, <4>3
    <3>2. CASE u # w
      <4>1. op'[u] = op[u] /\ pc'[u] = pc[u] /\ op[u] # NULL
        BY <2>1, <3>2
      <4>2. op[u].dns \in Dns /\ op[u].name \in Names
        BY <1>0, <4>1, RunsOperation DEF Typed, Filled, FilledAt
      <4>3. op[u].dns = op[w].dns => op[u].dns \in dirty
        BY <1>0, <1>1, <3>2, <4>1, RunElsewhere
      <4>4. \/ op[u].board \in dirty \/ op[u].dns \in dirty
            \/ \E x \in orphan : x[2] = op[u].name /\ x[3] = op[u].dns
            \/ record[<<op[u].name, op[u].dns>>] = AgentOf[op[u].board]
        BY <1>0, <4>1 DEF NameInv, NameMade, OrphanName
      <4> QED
        BY <1>5, <2>1, <4>1, <4>2, <4>3, <4>4
    <3> QED
      BY <3>1, <3>2
  <2>6. WebRecord'
    <3> SUFFICES ASSUME NEW v \in webs, NEW e \in enabled, v[1] = e.board
                 PROVE  Excused(v, e)' \/ record'[<<v[2], e.dns>>] = AgentOf[e.board]
      BY <2>1 DEF WebRecord
    <3>1. Excused(v, e) \/ record[<<v[2], e.dns>>] = AgentOf[e.board]
      BY <1>0 DEF NameInv, WebRecord
    <3>2. CASE v[2] # op[w].name \/ e.dns # op[w].dns
      BY <1>3, <1>5, <2>1, <3>1, <3>2, ExcusedStays
    <3>3. CASE v[2] = op[w].name /\ e.dns = op[w].dns
      <4>1. AgentOf[e.board] # NULL
        BY <1>0, WebAssumption DEF Typed, TypeOK
      <4> QED
        BY <1>3, <1>5, <3>1, <3>3, <4>1, ExcusedStays
    <3> QED
      BY <3>2, <3>3
  <2> QED
    BY <2>4, <2>5, <2>6 DEF NameInv
<1> QED
  BY <1>4, <1>6, <1>7, <1>8, <1>9, <1>10, <1>11, <1>12, <1>13, <1>14 DEF IInv

(* DeleteName: nobody else uses the name any more, or it is soiled. *)
LEMMA DeleteNameKeeps ==
  ASSUME IInv, NEW w \in Workers, DeleteName(w)
  PROVE  IInv'
<1> USE DEF Stays, Was, SameThere, In, Does, Runs
<1>0. /\ Typed /\ RunInv /\ RecordInv /\ SiteInv /\ ServeInv /\ PortInv
      /\ WebInv /\ NameInv /\ RedirectInv /\ CertInv
  BY DEF IInv
<1>1. /\ pc[w] = "name_unrecord" /\ op[w] # NULL /\ op[w].kind = "unexpose"
      /\ op[w].dns \in Dns /\ op[w].board \in Boards /\ op[w].name \in Names
      /\ AgentOf[op[w].board] \in Agents
      /\ UNCHANGED <<tables, site, cert, free, allow, ghosts>>
  <2>1. pc[w] = "name_unrecord" /\ op[w] # NULL /\ op[w].kind = "unexpose"
    BY <1>0, WhoIsThere DEF DeleteName, At, Unexposing
  <2>2. op[w].name \in Names
    BY <1>0, <2>1 DEF Typed, Filled, FilledAt
  <2> QED
    BY <1>0, <2>1, <2>2, RunsOperation DEF DeleteName, Typed
<1>2. Ends(w)
  BY <1>0, <1>1, EndsHere DEF DeleteName, Typed, Labels, Unexposing, Redirecting, Grown, ghosts
<1>3. Frame(w)
  BY <1>2 DEF Goes, Ends
<1>5. /\ record' \in [Hosts -> Agents \cup {NULL}]
      /\ \A d \in Dns : record'[<<NULL, d>>] = record[<<NULL, d>>]
      /\ \A n \in Names, d \in Dns :
           n # op[w].name \/ d # op[w].dns => record'[<<n, d>>] = record[<<n, d>>]
      /\ record'[<<op[w].name, op[w].dns>>] = NULL
  BY <1>0, <1>1, WebAssumption DEF DeleteName, Resolving, Typed, TypeOK, Hosts
<1>4. Typed'
  <2>1. TableTypes'
    BY <1>0, <1>1, <1>5 DEF Typed, TypeOK, TableTypes, tables, ghosts
  <2>2. FilledAt(w)'
    BY <1>0, <1>1, <1>2 DEF Typed, Filled, FilledAt, Goes, Ends, Unexposing, Redirecting, Undrawn
  <2> QED
    BY <1>0, <1>3, <2>1, <2>2, TypedStep
<1>6. RunInv'
  BY <1>0, <1>1, <1>2, <1>3, QuietRun
  DEF Ends, Before, Unsaved, tables
<1>7. RecordInv'
  BY <1>0, <1>1, <1>2, <1>3, <1>4, <1>5, QuietRecord
  DEF Ends, Typed, Recorded, Unrecorded, Unsited, Disallowed, tables, remote
<1>8. SiteInv'
  BY <1>0, <1>1, <1>2, <1>3, QuietSite
  DEF Ends, Unsited, Disallowed, ToSite, tables, remote
<1>9. ServeInv'
  BY <1>0, <1>1, <1>2, <1>3, QuietServe
  DEF Ends, HttpGone, HttpsGone, Uncerted, Unrecorded,
     Unsited, Disallowed, ToServeHttp, ToServeHttps, ToAllowHttp, ToAllowHttps, tables, remote
<1>10. PortInv'
  BY <1>0, <1>1, <1>2, <1>3, QuietPort
  DEF Ends, Held0, HttpGone, HttpsGone, Uncerted, Unrecorded,
     Unsited, Disallowed, Typed, tables
<1>11. WebInv'
  BY <1>0, <1>1, <1>2, <1>3, QuietWeb
  DEF Ends, WebThere, Checked, Enabling, tables
<1>12. RedirectInv'
  BY <1>0, <1>1, <1>2, <1>3, QuietRedirect
  DEF Ends, Unsited, Disallowed, Redirected, tables, remote
<1>13. CertInv'
  BY <1>0, <1>1, <1>2, <1>3, QuietCert
  DEF Ends, Uncerted, Unrecorded, Unsited, Disallowed, Certified, Decerting, tables, remote
<1>14. NameInv'
  <2>1. /\ dirty \subseteq dirty' /\ orphan \subseteq orphan' /\ enabled' = enabled /\ webs' = webs
        /\ ~Before(w) /\ pc[w] # "is_enabled"
        /\ \A u \in Workers \ {w} : op'[u] = op[u] /\ pc'[u] = pc[u]
        /\ \A e \in enabled : e.dns \in Dns
        /\ \A v \in webs : v[2] \in Names
    BY <1>0, <1>1, <1>3 DEF Frame, tables, Typed, TypeOK, Before
  <2>2. Stays(w, "expose", Named)
    BY <1>1
  <2>4. NameOwned'
    <3> SUFFICES ASSUME NEW n \in Names, NEW d \in Dns, record'[<<n, d>>] # NULL
                 PROVE  \/ d \in dirty' \/ OrphanName(n, d)'
                        \/ \E e \in enabled', v \in webs' : v[1] = e.board /\ v[2] = n /\ e.dns = d
                        \/ AtHost(n, d, "expose", Named)' \/ AtHost(n, d, "unexpose", {"name_unrecord"})'
      BY DEF NameOwned
    <3>1. CASE n = op[w].name /\ d = op[w].dns
      BY <1>5, <3>1
    <3>2. CASE n # op[w].name \/ d # op[w].dns
      <4>1. record[<<n, d>>] # NULL
        BY <1>5, <3>2
      <4> QED
        BY <1>0, <1>3, <2>1, <2>2, <3>2, <4>1, NameOwnedStays DEF NameInv
    <3> QED
      BY <3>1, <3>2
  <2>5. NameMade'
    <3> SUFFICES ASSUME NEW u \in Workers, In(u, "expose", Named)'
                 PROVE  \/ op'[u].board \in dirty' \/ op'[u].dns \in dirty'
                        \/ \E x \in orphan' : x[2] = op'[u].name /\ x[3] = op'[u].dns
                        \/ record'[<<op'[u].name, op'[u].dns>>] = AgentOf[op'[u].board]
      BY DEF NameMade, OrphanName
    <3>1. CASE u = w
      BY <1>2, <3>1 DEF Ends
    <3>2. CASE u # w
      <4>1. op'[u] = op[u] /\ pc'[u] = pc[u] /\ op[u] # NULL
        BY <2>1, <3>2
      <4>2. op[u].dns \in Dns /\ op[u].name \in Names
        BY <1>0, <4>1, RunsOperation DEF Typed, Filled, FilledAt
      <4>3. op[u].dns = op[w].dns => op[u].dns \in dirty
        BY <1>0, <1>1, <3>2, <4>1, RunElsewhere
      <4>4. \/ op[u].board \in dirty \/ op[u].dns \in dirty
            \/ \E x \in orphan : x[2] = op[u].name /\ x[3] = op[u].dns
            \/ record[<<op[u].name, op[u].dns>>] = AgentOf[op[u].board]
        BY <1>0, <4>1 DEF NameInv, NameMade, OrphanName
      <4> QED
        BY <1>5, <2>1, <4>1, <4>2, <4>3, <4>4
    <3> QED
      BY <3>1, <3>2
  <2>6. WebRecord'
    <3> SUFFICES ASSUME NEW v \in webs, NEW e \in enabled, v[1] = e.board
                 PROVE  Excused(v, e)' \/ record'[<<v[2], e.dns>>] = AgentOf[e.board]
      BY <2>1 DEF WebRecord
    <3>1. Excused(v, e) \/ record[<<v[2], e.dns>>] = AgentOf[e.board]
      BY <1>0 DEF NameInv, WebRecord
    <3>2. CASE v[2] # op[w].name \/ e.dns # op[w].dns
      BY <1>3, <1>5, <2>1, <3>1, <3>2, ExcusedStays
    <3>3. CASE v[2] = op[w].name /\ e.dns = op[w].dns
      <4>1. v[1] \in dirty \/ e.dns \in dirty
        <5>1. CASE e.board # op[w].board
          BY <1>0, <1>1, <3>3, <5>1, RowElsewhere
        <5>2. CASE e.board = op[w].board
          BY <1>0, <1>1, <3>3, <5>2 DEF WebInv, WebIsGone
        <5> QED
          BY <5>1, <5>2
      <4>2. Excused(v, e)
        BY <4>1 DEF Excused
      <4> QED
        BY <1>3, <4>2, ExcusedStays
    <3> QED
      BY <3>2, <3>3
  <2> QED
    BY <2>4, <2>5, <2>6 DEF NameInv
<1> QED
  BY <1>4, <1>6, <1>7, <1>8, <1>9, <1>10, <1>11, <1>12, <1>13, <1>14 DEF IInv

(* Certify: the board gets the certificates of the webservices it had and   *)
(* the new one, or the operation knows that it did not.                     *)
LEMMA CertifyKeeps ==
  ASSUME IInv, NEW w \in Workers, Certify(w)
  PROVE  IInv'
<1> USE DEF Stays, Was, SameThere, In, Does, Runs
<1>0. /\ Typed /\ RunInv /\ RecordInv /\ SiteInv /\ ServeInv /\ PortInv
      /\ WebInv /\ NameInv /\ RedirectInv /\ CertInv
  BY DEF IInv
<1>1. /\ pc[w] = "certify" /\ op[w] # NULL /\ op[w].kind = "expose"
      /\ op[w].board \in Boards /\ op[w].name \in Names /\ op[w].names \subseteq Names
      /\ cert' \in [Boards -> SUBSET Names]
      /\ \A b \in Boards : b # op[w].board => cert'[b] = cert[b]
      /\ UNCHANGED <<tables, record, site, free, allow, ghosts>>
  <2>1. pc[w] = "certify" /\ op[w] # NULL /\ op[w].kind = "expose"
    BY <1>0, WhoIsThere DEF Certify, At, Exposing
  <2>2. op[w].name \in Names
    BY <1>0, <2>1 DEF Typed, Filled, FilledAt
  <2>3. op[w].board \in Boards /\ op[w].names \subseteq Names
    BY <1>0, <2>1, RunsOperation DEF Typed
  <2> QED
    BY <1>0, <2>1, <2>2, <2>3 DEF Certify, Typed, TypeOK
<1>2. /\ Goes(w, "read_site")
      /\ op'[w].http = op[w].http /\ op'[w].https = op[w].https /\ op'[w].text = op[w].text
      /\ \/ cert'[op[w].board] = op[w].names \cup {op[w].name}
         \/ cert' = cert /\ ~op'[w].ok
  <2>1. Grown /\ Goto(w, "read_site")
    BY <1>1 DEF Certify, Grown, ghosts
  <2>2. CASE UNCHANGED op /\ cert' = [cert EXCEPT ![op[w].board] = op[w].names \cup {op[w].name}]
    BY <1>0, <1>1, <2>1, <2>2, GoesOn DEF Typed, TypeOK, Labels, Redirecting
  <2>3. CASE UNCHANGED cert /\ op' = [op EXCEPT ![w].ok = FALSE]
    <3> DEFINE o == [op[w] EXCEPT !.ok = FALSE]
    <3>1. op[w] \in Operations
      BY <1>0, <1>1, RunsOperation DEF Typed
    <3>2. /\ o \in Operations
          /\ o.kind = op[w].kind /\ o.board = op[w].board /\ o.dns = op[w].dns
          /\ o.name = op[w].name /\ o.lport = op[w].lport /\ o.names = op[w].names
          /\ o.http = op[w].http /\ o.https = op[w].https /\ o.text = op[w].text /\ o.ok = FALSE
      BY <3>1 DEF Operations
    <3>3. op' = [op EXCEPT ![w] = o]
      BY <1>0, <2>3 DEF Typed, TypeOK
    <3> HIDE DEF o
    <3>4. Goes(w, "read_site") /\ op'[w] = o
      BY <1>0, <1>1, <2>1, <3>2, <3>3, GoesOnWith DEF Typed, Labels, Redirecting
    <3> QED
      BY <2>3, <3>2, <3>4
  <2> QED
    BY <2>2, <2>3 DEF Certify
<1>3. Frame(w)
  BY <1>2 DEF Goes
<1>4. Typed'
  <2>1. TableTypes'
    BY <1>0, <1>1 DEF Typed, TypeOK, TableTypes, tables, ghosts
  <2>2. FilledAt(w)'
    BY <1>0, <1>1, <1>2 DEF Typed, Filled, FilledAt, Goes, Redirecting, Undrawn
  <2> QED
    BY <1>0, <1>3, <2>1, <2>2, TypedStep
<1>5. RunInv'
  BY <1>0, <1>1, <1>2, <1>3, QuietRun
  DEF Goes, Before, Unsaved, tables
<1>6. RecordInv'
  BY <1>0, <1>1, <1>2, <1>3, <1>4, QuietRecord
  DEF Goes, Typed, Recorded, Unrecorded, Unsited, Disallowed, tables, remote
<1>7. SiteInv'
  BY <1>0, <1>1, <1>2, <1>3, QuietSite
  DEF Goes, Unsited, Disallowed, ToSite, tables, remote
<1>8. ServeInv'
  BY <1>0, <1>1, <1>2, <1>3, QuietServe
  DEF Goes, HttpGone, HttpsGone, Uncerted, Unrecorded,
     Unsited, Disallowed, ToServeHttp, ToServeHttps, ToAllowHttp, ToAllowHttps, tables, remote
<1>9. PortInv'
  BY <1>0, <1>1, <1>2, <1>3, QuietPort
  DEF Goes, Held0, HttpGone, HttpsGone, Uncerted, Unrecorded,
     Unsited, Disallowed, Typed, tables
<1>10. WebInv'
  BY <1>0, <1>1, <1>2, <1>3, QuietWeb
  DEF Goes, WebThere, Checked, Enabling, tables
<1>11. NameInv'
  BY <1>0, <1>1, <1>2, <1>3, <1>4, QuietName
  DEF Goes, Named, Typed, tables, remote
<1>12. RedirectInv'
  BY <1>0, <1>1, <1>2, <1>3, QuietRedirect
  DEF Goes, Unsited, Disallowed, Redirected, tables, remote
<1>13. CertInv'
  <2>1. /\ \A b \in Boards : b # op[w].board => cert'[b] = cert[b]
        /\ \A e \in enabled : e.board \in Boards
        /\ dirty \subseteq dirty'
    BY <1>0, <1>1, <1>3 DEF Typed, TypeOK, Frame
  <2>2. WebCert'
    <3> SUFFICES ASSUME NEW v \in webs, NEW e \in enabled, v[1] = e.board
                 PROVE  \/ Excused(v, e)' \/ AtWeb(v[1], v[2], "unexpose", Decerting)'
                        \/ AtBoard(v[1], "disable", Uncerted)' \/ v[2] \in cert'[e.board]
      BY <1>1 DEF WebCert, tables
    <3>1. CASE v[1] = op[w].board
      <4>1. CASE cert'[op[w].board] = op[w].names \cup {op[w].name}
        <5>1. v[1] \in dirty \/ v[2] \in op[w].names
          BY <1>0, <1>1, <3>1 DEF WebInv, NamesRead
        <5>2. v[1] \in dirty' => Excused(v, e)'
          BY DEF Excused
        <5> QED
          BY <2>1, <3>1, <4>1, <5>1, <5>2
      <4>2. CASE cert' = cert
        <5>1. Stays(w, "unexpose", Decerting) /\ Stays(w, "disable", Uncerted)
          BY <1>1
        <5> QED
          BY <1>0, <1>3, <4>2, <5>1, WebCertStays DEF CertInv
      <4> QED
        BY <1>2, <4>1, <4>2
    <3>2. CASE v[1] # op[w].board
      BY <1>0, <1>3, <2>1, <3>2, WebCertStays DEF CertInv
    <3> QED
      BY <3>1, <3>2
  <2>3. CertMade'
    <3> SUFFICES ASSUME NEW u \in Workers, In(u, "expose", Certified)', op'[u].ok
                 PROVE  op'[u].board \in dirty' \/ op'[u].name \in cert'[op'[u].board]
      BY DEF CertMade
    <3>1. CASE u # w
      BY <1>0, <1>1, <1>3, <2>1, <3>1, CertElsewhere DEF Typed
    <3>2. CASE u = w
      BY <1>1, <1>2, <3>2 DEF Goes
    <3> QED
      BY <3>1, <3>2
  <2> QED
    BY <2>2, <2>3 DEF CertInv
<1> QED
  BY <1>4, <1>5, <1>6, <1>7, <1>8, <1>9, <1>10, <1>11, <1>12, <1>13 DEF IInv

(* Decertify: the board keeps the certificates of its other webservices. *)
LEMMA DecertifyKeeps ==
  ASSUME IInv, NEW w \in Workers, Decertify(w)
  PROVE  IInv'
<1> USE DEF Stays, Was, SameThere, In, Does, Runs
<1>0. /\ Typed /\ RunInv /\ RecordInv /\ SiteInv /\ ServeInv /\ PortInv
      /\ WebInv /\ NameInv /\ RedirectInv /\ CertInv
  BY DEF IInv
<1>1. /\ pc[w] = "decertify" /\ op[w] # NULL /\ op[w].kind = "unexpose"
      /\ op[w].board \in Boards
      /\ \/ cert'[op[w].board] = {v[2] : v \in WebsOn(op[w].board)} \ {op[w].name}
         \/ cert' = cert
      /\ cert' \in [Boards -> SUBSET Names]
      /\ \A b \in Boards : b # op[w].board => cert'[b] = cert[b]
      /\ UNCHANGED <<tables, record, site, free, allow, op, ghosts>>
  <2>1. pc[w] = "decertify" /\ op[w] # NULL /\ op[w].kind = "unexpose"
    BY <1>0, WhoIsThere DEF Decertify, At, Unexposing
  <2>2. op[w].board \in Boards
    BY <1>0, <2>1, RunsOperation DEF Typed
  <2> QED
    BY <1>0, <2>1, <2>2 DEF Decertify, WebsOn, Typed, TypeOK
<1>2. Goes(w, "read_site") /\ op'[w] = op[w]
  BY <1>0, <1>1, GoesOn DEF Decertify, Typed, Labels, Redirecting, Grown, ghosts
<1>3. Frame(w)
  BY <1>2 DEF Goes
<1>4. Typed'
  <2>1. TableTypes'
    BY <1>0, <1>1 DEF Typed, TypeOK, TableTypes, tables, ghosts
  <2>2. FilledAt(w)'
    BY <1>0, <1>1, <1>2 DEF Typed, Filled, FilledAt, Goes, Unexposing, Redirecting, Undrawn
  <2> QED
    BY <1>0, <1>3, <2>1, <2>2, TypedStep
<1>5. RunInv'
  BY <1>0, <1>1, <1>2, <1>3, QuietRun
  DEF Goes, Before, Unsaved, tables
<1>6. RecordInv'
  BY <1>0, <1>1, <1>2, <1>3, <1>4, QuietRecord
  DEF Goes, Typed, Recorded, Unrecorded, Unsited, Disallowed, tables, remote
<1>7. SiteInv'
  BY <1>0, <1>1, <1>2, <1>3, QuietSite
  DEF Goes, Unsited, Disallowed, ToSite, tables, remote
<1>8. ServeInv'
  BY <1>0, <1>1, <1>2, <1>3, QuietServe
  DEF Goes, HttpGone, HttpsGone, Uncerted, Unrecorded,
     Unsited, Disallowed, ToServeHttp, ToServeHttps, ToAllowHttp, ToAllowHttps, tables, remote
<1>9. PortInv'
  BY <1>0, <1>1, <1>2, <1>3, QuietPort
  DEF Goes, Held0, HttpGone, HttpsGone, Uncerted, Unrecorded,
     Unsited, Disallowed, Typed, tables
<1>10. WebInv'
  BY <1>0, <1>1, <1>2, <1>3, QuietWeb
  DEF Goes, WebThere, Checked, Enabling, tables
<1>11. NameInv'
  BY <1>0, <1>1, <1>2, <1>3, <1>4, QuietName
  DEF Goes, Named, Typed, tables, remote
<1>12. RedirectInv'
  BY <1>0, <1>1, <1>2, <1>3, QuietRedirect
  DEF Goes, Unsited, Disallowed, Redirected, tables, remote
<1>13. CertInv'
  <2>1. /\ \A b \in Boards : b # op[w].board => cert'[b] = cert[b]
        /\ \A e \in enabled : e.board \in Boards
        /\ dirty \subseteq dirty'
    BY <1>0, <1>1, <1>3 DEF Typed, TypeOK, Frame
  <2>2. WebCert'
    <3> SUFFICES ASSUME NEW v \in webs, NEW e \in enabled, v[1] = e.board
                 PROVE  \/ Excused(v, e)' \/ AtWeb(v[1], v[2], "unexpose", Decerting)'
                        \/ AtBoard(v[1], "disable", Uncerted)' \/ v[2] \in cert'[e.board]
      BY <1>1 DEF WebCert, tables
    <3>1. CASE v[1] = op[w].board
      <4>1. CASE v[2] = op[w].name
        <5>1. In(w, "unexpose", Decerting)' /\ op'[w].board = v[1] /\ op'[w].name = v[2]
          BY <1>1, <1>2, <3>1, <4>1 DEF Goes, Decerting
        <5>2. AtWeb(v[1], v[2], "unexpose", Decerting)'
          BY <5>1 DEF AtWeb
        <5> QED
          BY <5>2
      <4>2. CASE v[2] # op[w].name /\ cert'[op[w].board] = {x[2] : x \in WebsOn(op[w].board)} \ {op[w].name}
        BY <3>1, <4>2 DEF WebsOn
      <4>3. CASE cert' = cert
        <5>1. Stays(w, "unexpose", Decerting) /\ Stays(w, "disable", Uncerted)
          BY <1>1, <1>2 DEF Goes, Decerting
        <5> QED
          BY <1>0, <1>3, <4>3, <5>1, WebCertStays DEF CertInv
      <4> QED
        BY <1>1, <4>1, <4>2, <4>3
    <3>2. CASE v[1] # op[w].board
      BY <1>0, <1>3, <2>1, <3>2, WebCertStays DEF CertInv
    <3> QED
      BY <3>1, <3>2
  <2>3. CertMade'
    <3> SUFFICES ASSUME NEW u \in Workers, In(u, "expose", Certified)', op'[u].ok
                 PROVE  op'[u].board \in dirty' \/ op'[u].name \in cert'[op'[u].board]
      BY DEF CertMade
    <3>1. CASE u # w
      BY <1>0, <1>1, <1>3, <2>1, <3>1, CertElsewhere DEF Typed
    <3>2. CASE u = w
      BY <1>1, <1>2, <3>2 DEF Goes
    <3> QED
      BY <3>1, <3>2
  <2> QED
    BY <2>2, <2>3 DEF CertInv
<1> QED
  BY <1>4, <1>5, <1>6, <1>7, <1>8, <1>9, <1>10, <1>11, <1>12, <1>13 DEF IInv

(* SaveWebservice: the row comes when its record, its redirect and its       *)
(* certificate are there.                                                   *)
LEMMA SaveWebserviceKeeps ==
  ASSUME IInv, NEW w \in Workers, SaveWebservice(w)
  PROVE  IInv'
<1> USE DEF Stays, Was, SameThere, In, Does, Runs
<1>0. /\ Typed /\ RunInv /\ RecordInv /\ SiteInv /\ ServeInv /\ PortInv
      /\ WebInv /\ NameInv /\ RedirectInv /\ CertInv
  BY DEF IInv
<1> DEFINE y == <<op[w].board, op[w].name, op[w].lport>>
<1>1. /\ pc[w] = "save_web" /\ op[w] # NULL /\ op[w].kind = "expose"
      /\ op[w].dns \in Dns /\ op[w].board \in Boards /\ op[w].name \in Names
      /\ y \in Boards \X Names \X LocalPorts
      /\ y[1] = op[w].board /\ y[2] = op[w].name
      /\ webs' = webs \cup {y}
      /\ dirty \subseteq dirty' /\ dirty' \subseteq dirty \cup {op[w].board, op[w].dns}
      /\ op[w].ok \/ (op[w].board \in dirty' /\ op[w].dns \in dirty')
      /\ UNCHANGED <<enabled, exposed, remote, free, contested, orphan, reused>>
  <2>1. pc[w] = "save_web" /\ op[w] # NULL /\ op[w].kind = "expose"
    BY <1>0, WhoIsThere DEF SaveWebservice, At, Exposing
  <2>2. op[w].name \in Names /\ op[w].lport \in LocalPorts
    BY <1>0, <2>1 DEF Typed, Filled, FilledAt
  <2>3. op[w].dns \in Dns /\ op[w].board \in Boards
    BY <1>0, <2>1, RunsOperation DEF Typed
  <2> QED
    BY <2>1, <2>2, <2>3 DEF SaveWebservice, Soil
<1>2. Ends(w)
  BY <1>0, <1>1, EndsHere DEF SaveWebservice, Typed, Grown
<1>3. Frame(w)
  BY <1>2 DEF Ends
<1>4. Typed'
  <2>1. TableTypes'
    BY <1>0, <1>1 DEF Typed, TypeOK, TableTypes, remote
  <2>2. FilledAt(w)'
    BY <1>2 DEF FilledAt, Ends
  <2> QED
    BY <1>0, <1>3, <2>1, <2>2, TypedStep
<1>5. \/ op[w].board \in dirty /\ op[w].dns \in dirty
      \/ \E e \in enabled : e.board = op[w].board /\ e.dns = op[w].dns
  BY <1>0, <1>1 DEF RunInv, HasRow, Before, Soiled
<1> HIDE DEF y
<1>6. RunInv'
  BY <1>0, <1>1, <1>2, <1>3, QuietRun
  DEF Ends, Before, Unsaved, tables
<1>7. RecordInv'
  BY <1>0, <1>1, <1>2, <1>3, <1>4, QuietRecord
  DEF Ends, Typed, Recorded, Unrecorded, Unsited, Disallowed, tables, remote
<1>8. SiteInv'
  BY <1>0, <1>1, <1>2, <1>3, QuietSite
  DEF Ends, Unsited, Disallowed, ToSite, tables, remote
<1>9. ServeInv'
  BY <1>0, <1>1, <1>2, <1>3, QuietServe
  DEF Ends, HttpGone, HttpsGone, Uncerted, Unrecorded,
     Unsited, Disallowed, ToServeHttp, ToServeHttps, ToAllowHttp, ToAllowHttps, tables, remote
<1>10. PortInv'
  BY <1>0, <1>1, <1>2, <1>3, QuietPort
  DEF Ends, Held0, HttpGone, HttpsGone, Uncerted, Unrecorded,
     Unsited, Disallowed, Typed, tables
<1>11. WebInv'
  <2>1. /\ dirty \subseteq dirty' /\ orphan \subseteq orphan' /\ enabled' = enabled
        /\ ~Before(w) /\ pc[w] # "is_enabled"
        /\ \A u \in Workers \ {w} : op'[u] = op[u] /\ pc'[u] = pc[u]
        /\ \A e \in enabled : e.dns \in Dns
        /\ \A v \in webs : v[1] \in Boards /\ v[2] \in Names
    BY <1>0, <1>1, <1>3 DEF Frame, Typed, TypeOK, Before
  <2>2. ASSUME NEW u \in Workers, u # w, op[u] # NULL, op[u].board = op[w].board
        PROVE  op[w].board \in dirty
    BY <1>0, <1>1, <2>2 DEF RunInv, Alone, Soiled
  <2>3. ASSUME NEW v \in webs', v \notin webs
        PROVE  v = y /\ v[1] = op[w].board /\ v[2] = op[w].name
    BY <1>1, <2>3
  <2>4. WebHasRow'
    BY <1>0, <1>1, <1>5, <2>1, <2>3 DEF WebInv, WebHasRow, Orphaned
  <2>5. OneWeb'
    BY <1>0, <1>1, <2>1, <2>3 DEF WebInv, OneWeb, FreshName
  <2>6. FreshName' /\ NamesRead' /\ NewBoard'
    <3>1. \A u \in Workers : op'[u] # NULL => u # w /\ op'[u] = op[u] /\ pc'[u] = pc[u]
      BY <1>2, <2>1 DEF Ends
    <3>2. FreshName'
      BY <1>0, <2>1, <2>2, <2>3, <3>1 DEF WebInv, FreshName
    <3>3. NamesRead'
      BY <1>0, <2>1, <2>2, <2>3, <3>1 DEF WebInv, NamesRead
    <3>4. NewBoard'
      BY <1>0, <2>1, <2>2, <2>3, <3>1 DEF WebInv, NewBoard, Orphaned
    <3> QED
      BY <3>2, <3>3, <3>4
  <2>7. WebToGo' /\ WebIsGone'
    <3>1. \A u \in Workers : op'[u] # NULL => u # w /\ op'[u] = op[u] /\ pc'[u] = pc[u]
      BY <1>2, <2>1 DEF Ends
    <3>2. WebToGo'
      BY <1>0, <1>1, <2>1, <3>1 DEF WebInv, WebToGo
    <3>3. WebIsGone'
      BY <1>0, <2>1, <2>2, <2>3, <3>1 DEF WebInv, WebIsGone
    <3> QED
      BY <3>2, <3>3
  <2> QED
    BY <2>4, <2>5, <2>6, <2>7 DEF WebInv
<1>12. NameInv'
  <2>1. /\ dirty \subseteq dirty' /\ orphan \subseteq orphan' /\ enabled' = enabled
        /\ ~Before(w) /\ pc[w] # "is_enabled"
        /\ \A u \in Workers \ {w} : op'[u] = op[u] /\ pc'[u] = pc[u]
        /\ \A e \in enabled : e.dns \in Dns
        /\ \A v \in webs : v[1] \in Boards /\ v[2] \in Names
    BY <1>0, <1>1, <1>3 DEF Frame, Typed, TypeOK, Before
  <2>2. ASSUME NEW u \in Workers, u # w, op[u] # NULL, op[u].board = op[w].board
        PROVE  op[w].board \in dirty
    BY <1>0, <1>1, <2>2 DEF RunInv, Alone, Soiled
  <2>3. NameOwned'
    <3> SUFFICES ASSUME NEW n \in Names, NEW d \in Dns, record'[<<n, d>>] # NULL
                 PROVE  \/ d \in dirty' \/ OrphanName(n, d)'
                        \/ \E e \in enabled', v \in webs' : v[1] = e.board /\ v[2] = n /\ e.dns = d
                        \/ AtHost(n, d, "expose", Named)' \/ AtHost(n, d, "unexpose", {"name_unrecord"})'
      BY DEF NameOwned
    <3>1. CASE n = op[w].name /\ d = op[w].dns
      BY <1>1, <1>5, <2>1, <3>1
    <3>2. CASE n # op[w].name \/ d # op[w].dns
      <4>1. record[<<n, d>>] # NULL
        BY <1>1 DEF remote
      <4>2. Stays(w, "unexpose", {"name_unrecord"}) /\ webs \subseteq webs' /\ enabled \subseteq enabled'
        BY <1>1, <2>1
      <4> QED
        BY <1>0, <1>3, <3>2, <4>1, <4>2, NameOwnedStays DEF NameInv
    <3> QED
      BY <3>1, <3>2
  <2>4. NameMade'
    <3> SUFFICES ASSUME NEW u \in Workers, In(u, "expose", Named)'
                 PROVE  \/ op'[u].board \in dirty' \/ op'[u].dns \in dirty'
                        \/ \E x \in orphan' : x[2] = op'[u].name /\ x[3] = op'[u].dns
                        \/ record'[<<op'[u].name, op'[u].dns>>] = AgentOf[op'[u].board]
      BY DEF NameMade, OrphanName
    <3>1. u # w /\ op'[u] = op[u] /\ pc'[u] = pc[u] /\ op[u] # NULL
      BY <1>1, <1>2, <2>1 DEF Goes, Ends
    <3>2. \/ op[u].board \in dirty \/ op[u].dns \in dirty
          \/ \E x \in orphan : x[2] = op[u].name /\ x[3] = op[u].dns
          \/ record[<<op[u].name, op[u].dns>>] = AgentOf[op[u].board]
      BY <1>0, <3>1 DEF NameInv, NameMade, OrphanName
    <3> QED
      BY <1>1, <2>1, <3>1, <3>2 DEF remote
  <2>5. WebRecord'
    <3> SUFFICES ASSUME NEW v \in webs', NEW e \in enabled, v[1] = e.board
                 PROVE  Excused(v, e)' \/ record'[<<v[2], e.dns>>] = AgentOf[e.board]
      BY <2>1 DEF WebRecord
    <3>1. CASE v \in webs
      BY <1>0, <1>1, <1>3, <3>1, ExcusedStays DEF NameInv, WebRecord, remote
    <3>2. CASE v = y
      <4>1. e.dns \in dirty \/ e.dns = op[w].dns
        BY <1>0, <1>1, <2>1, <3>2, RowCases
      <4>2. v[1] \in dirty' \/ e.dns \in dirty' => Excused(v, e)'
        BY DEF Excused
      <4>3. \/ op[w].board \in dirty \/ op[w].dns \in dirty
            \/ OrphanName(op[w].name, op[w].dns)
            \/ record[<<op[w].name, op[w].dns>>] = AgentOf[op[w].board]
        BY <1>0, <1>1 DEF NameInv, NameMade, Named
      <4>4. CASE OrphanName(op[w].name, op[w].dns) /\ e.dns = op[w].dns
        <5>1. Excused(v, e)
          BY <1>1, <3>2, <4>4 DEF Excused
        <5> QED
          BY <1>3, <5>1, ExcusedStays
      <4>5. CASE record[<<op[w].name, op[w].dns>>] = AgentOf[op[w].board] /\ e.dns = op[w].dns
        BY <1>1, <3>2, <4>5 DEF remote
      <4> QED
        BY <1>1, <2>1, <3>2, <4>1, <4>2, <4>3, <4>4, <4>5
    <3> QED
      BY <1>1, <3>1, <3>2
  <2> QED
    BY <2>3, <2>4, <2>5 DEF NameInv
<1>13. RedirectInv'
  <2>1. /\ dirty \subseteq dirty' /\ orphan \subseteq orphan' /\ enabled' = enabled
        /\ ~Before(w) /\ pc[w] # "is_enabled"
        /\ \A u \in Workers \ {w} : op'[u] = op[u] /\ pc'[u] = pc[u]
        /\ \A e \in enabled : e.dns \in Dns
        /\ \A v \in webs : v[1] \in Boards /\ v[2] \in Names
    BY <1>0, <1>1, <1>3 DEF Frame, Typed, TypeOK, Before
  <2>2. ASSUME NEW u \in Workers, u # w, op[u] # NULL, op[u].board = op[w].board
        PROVE  op[w].board \in dirty
    BY <1>0, <1>1, <2>2 DEF RunInv, Alone, Soiled
  <2>3. WebRedirect'
    <3> SUFFICES ASSUME NEW v \in webs', NEW e \in enabled, v[1] = e.board
                 PROVE  \/ Excused(v, e)' \/ AtWeb(v[1], v[2], "unexpose", {"drop_web"})'
                        \/ AtBoard(v[1], "disable", Unsited)'
                        \/ /\ SiteAt(e.board, e.dns)' # NULL
                           /\ v[2] \in SiteAt(e.board, e.dns)'.redirects
      BY <2>1 DEF WebRedirect
    <3>1. CASE v \in webs
      <4>1. Stays(w, "unexpose", {"drop_web"}) /\ Stays(w, "disable", Unsited)
        BY <1>1
      <4>2. SiteAt(e.board, e.dns)' = SiteAt(e.board, e.dns)
        BY <1>1 DEF SiteAt, remote
      <4> QED
        BY <1>0, <1>3, <3>1, <4>1, <4>2, WebRedirectStays DEF RedirectInv
    <3>2. CASE v = y
      <4>1. e.dns \in dirty \/ e.dns = op[w].dns
        BY <1>0, <1>1, <2>1, <3>2, RowCases
      <4>2. v[1] \in dirty' \/ e.dns \in dirty' => Excused(v, e)'
        BY DEF Excused
      <4>3. \/ op[w].board \in dirty \/ op[w].dns \in dirty
            \/ /\ SiteAt(op[w].board, op[w].dns) # NULL
               /\ op[w].name \in SiteAt(op[w].board, op[w].dns).redirects
        BY <1>0, <1>1 DEF RedirectInv, RedirectMade, Redirected
      <4> QED
        BY <1>1, <2>1, <3>2, <4>1, <4>2, <4>3 DEF SiteAt, remote
    <3> QED
      BY <1>1, <3>1, <3>2
  <2>4. RedirectMade'
    <3> SUFFICES ASSUME NEW u \in Workers, In(u, "expose", Redirected)'
                 PROVE  \/ op'[u].board \in dirty' \/ op'[u].dns \in dirty'
                        \/ /\ site'[AgentOf[op'[u].board]][op'[u].dns] # NULL
                           /\ op'[u].name \in site'[AgentOf[op'[u].board]][op'[u].dns].redirects
      BY DEF RedirectMade, SiteAt
    <3>1. u # w /\ op'[u] = op[u] /\ pc'[u] = pc[u] /\ op[u] # NULL
      BY <1>1, <1>2, <2>1 DEF Goes, Ends
    <3> QED
      BY <1>0, <1>1, <2>1, <3>1 DEF RedirectInv, RedirectMade, SiteAt, remote
  <2> QED
    BY <2>3, <2>4 DEF RedirectInv
<1>14. CertInv'
  <2>1. /\ dirty \subseteq dirty' /\ orphan \subseteq orphan' /\ enabled' = enabled
        /\ ~Before(w) /\ pc[w] # "is_enabled"
        /\ \A u \in Workers \ {w} : op'[u] = op[u] /\ pc'[u] = pc[u]
        /\ \A e \in enabled : e.dns \in Dns
        /\ \A v \in webs : v[1] \in Boards /\ v[2] \in Names
    BY <1>0, <1>1, <1>3 DEF Frame, Typed, TypeOK, Before
  <2>2. ASSUME NEW u \in Workers, u # w, op[u] # NULL, op[u].board = op[w].board
        PROVE  op[w].board \in dirty
    BY <1>0, <1>1, <2>2 DEF RunInv, Alone, Soiled
  <2>3. WebCert'
    <3> SUFFICES ASSUME NEW v \in webs', NEW e \in enabled, v[1] = e.board
                 PROVE  \/ Excused(v, e)' \/ AtWeb(v[1], v[2], "unexpose", Decerting)'
                        \/ AtBoard(v[1], "disable", Uncerted)' \/ v[2] \in cert'[e.board]
      BY <2>1 DEF WebCert
    <3>1. CASE v \in webs
      <4>1. Stays(w, "unexpose", Decerting) /\ Stays(w, "disable", Uncerted)
        BY <1>1
      <4> QED
        BY <1>0, <1>1, <1>3, <3>1, <4>1, WebCertStays DEF CertInv, remote
    <3>2. CASE v = y
      <4>1. v[1] \in dirty' => Excused(v, e)'
        BY DEF Excused
      <4>2. op[w].ok => op[w].board \in dirty \/ op[w].name \in cert[op[w].board]
        BY <1>0, <1>1 DEF CertInv, CertMade, Certified
      <4> QED
        BY <1>1, <2>1, <3>2, <4>1, <4>2 DEF remote
    <3> QED
      BY <1>1, <3>1, <3>2
  <2>4. CertMade'
    <3> SUFFICES ASSUME NEW u \in Workers, In(u, "expose", Certified)', op'[u].ok
                 PROVE  op'[u].board \in dirty' \/ op'[u].name \in cert'[op'[u].board]
      BY DEF CertMade
    <3>1. u # w /\ op'[u] = op[u] /\ pc'[u] = pc[u] /\ op[u] # NULL
      BY <1>1, <1>2, <2>1 DEF Goes, Ends
    <3> QED
      BY <1>0, <1>1, <2>1, <3>1 DEF CertInv, CertMade, remote
  <2> QED
    BY <2>3, <2>4 DEF CertInv
<1> QED
  BY <1>4, <1>6, <1>7, <1>8, <1>9, <1>10, <1>11, <1>12, <1>13, <1>14 DEF IInv

(* DropWebservice: the row goes, and the operation that removed it answers   *)
(* for the record that is left.                                             *)
LEMMA DropWebserviceKeeps ==
  ASSUME IInv, NEW w \in Workers, DropWebservice(w)
  PROVE  IInv'
<1> USE DEF Stays, Was, SameThere, In, Does, Runs
<1>0. /\ Typed /\ RunInv /\ RecordInv /\ SiteInv /\ ServeInv /\ PortInv
      /\ WebInv /\ NameInv /\ RedirectInv /\ CertInv
  BY DEF IInv
<1> DEFINE y == <<op[w].board, op[w].name, op[w].lport>>
<1>1. /\ pc[w] = "drop_web" /\ op[w] # NULL /\ op[w].kind = "unexpose"
      /\ op[w].dns \in Dns /\ op[w].board \in Boards /\ op[w].name \in Names
      /\ y \in Boards \X Names \X LocalPorts
      /\ y[1] = op[w].board /\ y[2] = op[w].name
      /\ y \in webs /\ webs' = webs \ {y}
      /\ UNCHANGED <<enabled, exposed, remote, free, op, ghosts>>
  <2>1. pc[w] = "drop_web" /\ op[w] # NULL /\ op[w].kind = "unexpose"
    BY <1>0, WhoIsThere DEF DropWebservice, At, Unexposing
  <2>2. op[w].name \in Names /\ op[w].lport \in LocalPorts
    BY <1>0, <2>1 DEF Typed, Filled, FilledAt
  <2>3. op[w].dns \in Dns /\ op[w].board \in Boards
    BY <1>0, <2>1, RunsOperation DEF Typed
  <2> QED
    BY <2>1, <2>2, <2>3 DEF DropWebservice
<1>2. Goes(w, "name_unrecord") /\ op'[w] = op[w]
  BY <1>0, <1>1, GoesOn DEF DropWebservice, Typed, Labels, Unexposing, Grown, ghosts
<1>3. Frame(w)
  BY <1>2 DEF Goes
<1>4. Typed'
  <2>1. TableTypes'
    BY <1>0, <1>1 DEF Typed, TypeOK, TableTypes, remote, ghosts
  <2>2. FilledAt(w)'
    BY <1>0, <1>1, <1>2 DEF Typed, Filled, FilledAt, Goes, Unexposing, Undrawn
  <2> QED
    BY <1>0, <1>3, <2>1, <2>2, TypedStep
<1>5. ASSUME NEW v \in webs, v # y, v[1] = op[w].board, v[2] = op[w].name
      PROVE  v[1] \in dirty
  BY <1>0, <1>1, <1>5 DEF WebInv, OneWeb
<1> HIDE DEF y
<1>6. RunInv'
  BY <1>0, <1>1, <1>2, <1>3, QuietRun
  DEF Goes, Before, Unsaved, tables
<1>7. RecordInv'
  BY <1>0, <1>1, <1>2, <1>3, <1>4, QuietRecord
  DEF Goes, Typed, Recorded, Unrecorded, Unsited, Disallowed, tables, remote
<1>8. SiteInv'
  BY <1>0, <1>1, <1>2, <1>3, QuietSite
  DEF Goes, Unsited, Disallowed, ToSite, tables, remote
<1>9. ServeInv'
  BY <1>0, <1>1, <1>2, <1>3, QuietServe
  DEF Goes, HttpGone, HttpsGone, Uncerted, Unrecorded,
     Unsited, Disallowed, ToServeHttp, ToServeHttps, ToAllowHttp, ToAllowHttps, tables, remote
<1>10. PortInv'
  BY <1>0, <1>1, <1>2, <1>3, QuietPort
  DEF Goes, Held0, HttpGone, HttpsGone, Uncerted, Unrecorded,
     Unsited, Disallowed, Typed, tables
<1>11. WebInv'
  <2>1. /\ dirty \subseteq dirty' /\ orphan \subseteq orphan' /\ enabled' = enabled
        /\ ~Before(w) /\ pc[w] # "is_enabled"
        /\ \A u \in Workers \ {w} : op'[u] = op[u] /\ pc'[u] = pc[u]
        /\ \A e \in enabled : e.dns \in Dns
        /\ \A v \in webs : v[1] \in Boards /\ v[2] \in Names
    BY <1>0, <1>1, <1>3 DEF Frame, Typed, TypeOK, Before
  <2>2. ASSUME NEW u \in Workers, u # w, op[u] # NULL, op[u].board = op[w].board
        PROVE  op[w].board \in dirty
    BY <1>0, <1>1, <2>2 DEF RunInv, Alone, Soiled
  <2>3. WebHasRow' /\ OneWeb'
    BY <1>0, <1>1, <2>1 DEF WebInv, WebHasRow, OneWeb, Orphaned
  <2>4. \A u \in Workers : op'[u] = op[u]
    BY <1>1
  <2>5. FreshName' /\ NamesRead'
    BY <1>0, <1>1, <2>1, <2>4 DEF WebInv, FreshName, NamesRead
  <2>6. WebToGo'
    <3> SUFFICES ASSUME NEW u \in Workers, In(u, "unexpose", WebThere)'
                 PROVE  op[u].board \in dirty \/ <<op[u].board, op[u].name, op[u].lport>> \in webs'
      BY <2>1, <2>4 DEF WebToGo
    <3>1. u # w
      BY <1>2 DEF Goes, WebThere
    <3>2. op[u].board \in dirty \/ <<op[u].board, op[u].name, op[u].lport>> \in webs
      BY <1>0, <2>1, <3>1 DEF WebInv, WebToGo
    <3>3. op[u].board = op[w].board => op[u].board \in dirty
      BY <2>1, <2>2, <3>1
    <3> QED
      BY <1>1, <3>2, <3>3
  <2>7. WebIsGone'
    BY <1>0, <1>1, <1>5, <2>1, <2>4 DEF WebInv, WebIsGone
  <2>8. NewBoard'
    BY <1>0, <1>1, <2>1, <2>4 DEF WebInv, NewBoard, Orphaned
  <2> QED
    BY <2>3, <2>5, <2>6, <2>7, <2>8 DEF WebInv
<1>12. NameInv'
  <2>1. /\ dirty \subseteq dirty' /\ orphan \subseteq orphan' /\ enabled' = enabled
        /\ ~Before(w) /\ pc[w] # "is_enabled"
        /\ \A u \in Workers \ {w} : op'[u] = op[u] /\ pc'[u] = pc[u]
        /\ \A e \in enabled : e.dns \in Dns
        /\ \A v \in webs : v[1] \in Boards /\ v[2] \in Names
    BY <1>0, <1>1, <1>3 DEF Frame, Typed, TypeOK, Before
  <2>2. ASSUME NEW u \in Workers, u # w, op[u] # NULL, op[u].board = op[w].board
        PROVE  op[w].board \in dirty
    BY <1>0, <1>1, <2>2 DEF RunInv, Alone, Soiled
  <2>3. NameOwned'
    <3> SUFFICES ASSUME NEW n \in Names, NEW d \in Dns, record'[<<n, d>>] # NULL
                 PROVE  \/ d \in dirty' \/ OrphanName(n, d)'
                        \/ \E e \in enabled', v \in webs' : v[1] = e.board /\ v[2] = n /\ e.dns = d
                        \/ AtHost(n, d, "expose", Named)' \/ AtHost(n, d, "unexpose", {"name_unrecord"})'
      BY DEF NameOwned
    <3>1. \/ d \in dirty \/ OrphanName(n, d)
          \/ \E e \in enabled, v \in webs : v[1] = e.board /\ v[2] = n /\ e.dns = d
          \/ AtHost(n, d, "expose", Named) \/ AtHost(n, d, "unexpose", {"name_unrecord"})
      BY <1>0, <1>1 DEF NameInv, NameOwned, remote
    <3>2. OrphanName(n, d) => OrphanName(n, d)'
      BY <2>1 DEF OrphanName
    <3>3. Stays(w, "expose", Named) /\ Stays(w, "unexpose", {"name_unrecord"})
      BY <1>1
    <3>4. ASSUME NEW e \in enabled, y[1] = e.board, y[2] = n, e.dns = d
          PROVE  d \in dirty \/ AtHost(n, d, "unexpose", {"name_unrecord"})'
      <4>1. d \in dirty \/ d = op[w].dns
        BY <1>0, <1>1, <2>1, <3>4, RowCases, ZenonT(60)
      <4>2. In(w, "unexpose", {"name_unrecord"})' /\ op'[w].dns = op[w].dns /\ op'[w].name = n
        BY <1>1, <1>2, <3>4 DEF Goes
      <4> QED
        BY <4>1, <4>2 DEF AtHost
    <3> QED
      BY <1>1, <1>3, <2>1, <3>1, <3>2, <3>3, <3>4, HostStays
  <2>4. NameMade'
    <3> SUFFICES ASSUME NEW u \in Workers, In(u, "expose", Named)'
                 PROVE  \/ op'[u].board \in dirty' \/ op'[u].dns \in dirty'
                        \/ \E x \in orphan' : x[2] = op'[u].name /\ x[3] = op'[u].dns
                        \/ record'[<<op'[u].name, op'[u].dns>>] = AgentOf[op'[u].board]
      BY DEF NameMade, OrphanName
    <3>1. u # w /\ op'[u] = op[u] /\ pc'[u] = pc[u] /\ op[u] # NULL
      BY <1>1, <1>2, <2>1 DEF Goes, Ends
    <3>2. \/ op[u].board \in dirty \/ op[u].dns \in dirty
          \/ \E x \in orphan : x[2] = op[u].name /\ x[3] = op[u].dns
          \/ record[<<op[u].name, op[u].dns>>] = AgentOf[op[u].board]
      BY <1>0, <3>1 DEF NameInv, NameMade, OrphanName
    <3> QED
      BY <1>1, <2>1, <3>1, <3>2 DEF remote
  <2>5. WebRecord'
    <3> SUFFICES ASSUME NEW v \in webs, NEW e \in enabled, v[1] = e.board
                 PROVE  Excused(v, e)' \/ record'[<<v[2], e.dns>>] = AgentOf[e.board]
      BY <1>1, <2>1 DEF WebRecord
    <3> QED
      BY <1>0, <1>1, <1>3, ExcusedStays DEF NameInv, WebRecord, remote
  <2> QED
    BY <2>3, <2>4, <2>5 DEF NameInv
<1>13. RedirectInv'
  <2>1. /\ dirty \subseteq dirty' /\ orphan \subseteq orphan' /\ enabled' = enabled
        /\ ~Before(w) /\ pc[w] # "is_enabled"
        /\ \A u \in Workers \ {w} : op'[u] = op[u] /\ pc'[u] = pc[u]
        /\ \A e \in enabled : e.dns \in Dns
        /\ \A v \in webs : v[1] \in Boards /\ v[2] \in Names
    BY <1>0, <1>1, <1>3 DEF Frame, Typed, TypeOK, Before
  <2>2. ASSUME NEW u \in Workers, u # w, op[u] # NULL, op[u].board = op[w].board
        PROVE  op[w].board \in dirty
    BY <1>0, <1>1, <2>2 DEF RunInv, Alone, Soiled
  <2>3. WebRedirect'
    <3> SUFFICES ASSUME NEW v \in webs, v # y, NEW e \in enabled, v[1] = e.board
                 PROVE  \/ Excused(v, e)' \/ AtWeb(v[1], v[2], "unexpose", {"drop_web"})'
                        \/ AtBoard(v[1], "disable", Unsited)'
                        \/ /\ SiteAt(e.board, e.dns)' # NULL
                           /\ v[2] \in SiteAt(e.board, e.dns)'.redirects
      BY <1>1, <2>1 DEF WebRedirect
    <3>1. CASE v[1] \in dirty
      BY <1>3, <3>1, ExcusedStays DEF Excused
    <3>2. CASE v[1] # op[w].board \/ v[2] # op[w].name
      <4>1. Stays(w, "disable", Unsited)
        BY <1>1
      <4>2. SiteAt(e.board, e.dns)' = SiteAt(e.board, e.dns)
        BY <1>1 DEF SiteAt, remote
      <4> QED
        BY <1>0, <1>1, <1>3, <3>2, <4>1, <4>2, WebRedirectStays DEF RedirectInv, remote
    <3> QED
      BY <1>5, <3>1, <3>2
  <2>4. RedirectMade'
    <3> SUFFICES ASSUME NEW u \in Workers, In(u, "expose", Redirected)'
                 PROVE  \/ op'[u].board \in dirty' \/ op'[u].dns \in dirty'
                        \/ /\ site'[AgentOf[op'[u].board]][op'[u].dns] # NULL
                           /\ op'[u].name \in site'[AgentOf[op'[u].board]][op'[u].dns].redirects
      BY DEF RedirectMade, SiteAt
    <3>1. u # w /\ op'[u] = op[u] /\ pc'[u] = pc[u] /\ op[u] # NULL
      BY <1>1, <1>2, <2>1 DEF Goes, Ends
    <3> QED
      BY <1>0, <1>1, <2>1, <3>1 DEF RedirectInv, RedirectMade, SiteAt, remote
  <2> QED
    BY <2>3, <2>4 DEF RedirectInv
<1>14. CertInv'
  <2>1. /\ dirty \subseteq dirty' /\ orphan \subseteq orphan' /\ enabled' = enabled
        /\ ~Before(w) /\ pc[w] # "is_enabled"
        /\ \A u \in Workers \ {w} : op'[u] = op[u] /\ pc'[u] = pc[u]
        /\ \A e \in enabled : e.dns \in Dns
        /\ \A v \in webs : v[1] \in Boards /\ v[2] \in Names
    BY <1>0, <1>1, <1>3 DEF Frame, Typed, TypeOK, Before
  <2>2. ASSUME NEW u \in Workers, u # w, op[u] # NULL, op[u].board = op[w].board
        PROVE  op[w].board \in dirty
    BY <1>0, <1>1, <2>2 DEF RunInv, Alone, Soiled
  <2>3. WebCert'
    <3> SUFFICES ASSUME NEW v \in webs, v # y, NEW e \in enabled, v[1] = e.board
                 PROVE  \/ Excused(v, e)' \/ AtWeb(v[1], v[2], "unexpose", Decerting)'
                        \/ AtBoard(v[1], "disable", Uncerted)' \/ v[2] \in cert'[e.board]
      BY <1>1, <2>1 DEF WebCert
    <3>1. CASE v[1] \in dirty
      BY <1>3, <3>1, ExcusedStays DEF Excused
    <3>2. CASE v[1] # op[w].board \/ v[2] # op[w].name
      <4>1. Stays(w, "disable", Uncerted)
        BY <1>1
      <4> QED
        BY <1>0, <1>1, <1>3, <3>2, <4>1, WebCertStays DEF CertInv, remote
    <3> QED
      BY <1>5, <3>1, <3>2
  <2>4. CertMade'
    <3> SUFFICES ASSUME NEW u \in Workers, In(u, "expose", Certified)', op'[u].ok
                 PROVE  op'[u].board \in dirty' \/ op'[u].name \in cert'[op'[u].board]
      BY DEF CertMade
    <3>1. u # w /\ op'[u] = op[u] /\ pc'[u] = pc[u] /\ op[u] # NULL
      BY <1>1, <1>2, <2>1 DEF Goes, Ends
    <3> QED
      BY <1>0, <1>1, <2>1, <3>1 DEF CertInv, CertMade, remote
  <2> QED
    BY <2>3, <2>4 DEF CertInv
<1> QED
  BY <1>4, <1>6, <1>7, <1>8, <1>9, <1>10, <1>11, <1>12, <1>13, <1>14 DEF IInv

(* DropEnabled: the row goes when nothing is left that needs it but the      *)
(* webservices, which the operation leaves behind.                           *)
LEMMA DropEnabledKeeps ==
  ASSUME IInv, NEW w \in Workers, DropEnabled(w)
  PROVE  IInv'
<1> USE DEF Stays, Was, SameThere, In, Does, Runs
<1>0. /\ Typed /\ RunInv /\ RecordInv /\ SiteInv /\ ServeInv /\ PortInv
      /\ WebInv /\ NameInv /\ RedirectInv /\ CertInv
  BY DEF IInv
<1>1. /\ pc[w] = "drop" /\ op[w] # NULL /\ op[w].kind = "disable"
      /\ op[w].dns \in Dns /\ op[w].board \in Boards
      /\ UNCHANGED <<webs, exposed, remote, free, dirty, reused, contested>>
  <2>1. pc[w] = "drop" /\ op[w] # NULL /\ op[w].kind = "disable"
    BY <1>0, WhoIsThere DEF DropEnabled, At, Disabling
  <2> QED
    BY <1>0, <2>1, RunsOperation DEF DropEnabled, Typed
<1>5. /\ enabled' \subseteq enabled
      /\ \A e \in enabled : e \in enabled' \/ e.board = op[w].board
      /\ \A e \in enabled' : e.board # op[w].board
      /\ orphan \subseteq orphan' /\ orphan' \subseteq Boards \X Names \X Dns
      /\ \A v \in webs : v[1] = op[w].board => <<v[1], v[2], op[w].dns>> \in orphan'
  BY <1>0, <1>1 DEF DropEnabled, EnabledOn, WebsOn, Typed, TypeOK
<1>2. Ends(w)
  BY <1>0, <1>1, <1>5, EndsHere DEF DropEnabled, Typed, Grown
<1>3. Frame(w)
  BY <1>2 DEF Ends
<1>4. Typed'
  <2>1. TableTypes'
    BY <1>0, <1>1, <1>5 DEF Typed, TypeOK, TableTypes, remote
  <2>2. FilledAt(w)'
    BY <1>2 DEF FilledAt, Ends
  <2> QED
    BY <1>0, <1>3, <2>1, <2>2, TypedStep
<1>6. /\ dirty' = dirty /\ ~Before(w) /\ pc[w] # "is_enabled"
      /\ \A u \in Workers : op'[u] # NULL => u # w /\ op'[u] = op[u] /\ pc'[u] = pc[u]
  BY <1>1, <1>2, <1>3 DEF Ends, Frame, Before
<1>7. ASSUME NEW e \in enabled', e.dns = op[w].dns
      PROVE  e.dns \in dirty
  BY <1>0, <1>1, <1>5, <1>7, RowElsewhere

<1>8. RunInv'
  <2> USE DEF Soiled, Before
  <2>1. Alone'
    BY <1>0, <1>6 DEF RunInv, Alone
  <2>2. NewName'
    BY <1>0, <1>5, <1>6 DEF RunInv, NewName
  <2>3. RowIsOwn'
    BY <1>0, <1>5, <1>6 DEF RunInv, RowIsOwn
  <2>4. HasRow'
    <3> SUFFICES ASSUME NEW u \in Workers, u # w, op[u] # NULL, op'[u] = op[u], pc'[u] = pc[u], ~Before(u)
                 PROVE  \/ op[u].board \in dirty /\ op[u].dns \in dirty
                        \/ \E e \in enabled' :
                             /\ e.board = op[u].board /\ e.dns = op[u].dns
                             /\ op[u].kind \in {"enable", "disable"} =>
                                  e.http = op[u].http /\ e.https = op[u].https
      BY <1>6 DEF HasRow
    <3>1. op[u].board = op[w].board => op[u].board \in dirty /\ op[u].dns \in dirty
      BY <1>0, <1>1 DEF RunInv, Alone
    <3>2. \/ op[u].board \in dirty /\ op[u].dns \in dirty
          \/ \E e \in enabled :
               /\ e.board = op[u].board /\ e.dns = op[u].dns
               /\ op[u].kind \in {"enable", "disable"} =>
                    e.http = op[u].http /\ e.https = op[u].https
      BY <1>0 DEF RunInv, HasRow
    <3> QED
      BY <1>5, <3>1, <3>2
  <2>5. OneRow' /\ OneBoard'
    BY <1>0, <1>5, <1>6 DEF RunInv, OneRow, OneBoard
  <2>6. CheckedName' /\ UniqueDns'
    <3>1. contested' = contested /\ enabled' \subseteq enabled
      BY <1>1, <1>5
    <3>2. CheckedName'
      BY <1>0, <1>6, <3>1 DEF RunInv, CheckedName
    <3>3. UniqueDns'
      BY <1>0, <3>1 DEF RunInv, UniqueDns
    <3> QED
      BY <3>2, <3>3
  <2> QED
    BY <2>1, <2>2, <2>3, <2>4, <2>5, <2>6 DEF RunInv
<1>9. RecordInv'
  <2>1. record' = record
    BY <1>1 DEF remote
  <2>2. RecordMade' /\ NoRecord'
    BY <1>0, <1>6, <2>1 DEF RecordInv, RecordMade, NoRecord
  <2>3. RecordOfRow'
    <3> SUFFICES ASSUME NEW e \in enabled'
                 PROVE  \/ e.dns \in dirty' \/ AtName(e.dns, "disable", Unrecorded)'
                        \/ record'[<<NULL, e.dns>>] = AgentOf[e.board]
      BY DEF RecordOfRow
    <3>1. CASE e.dns = op[w].dns
      BY <1>6, <1>7, <3>1
    <3>2. CASE e.dns # op[w].dns
      BY <1>0, <1>3, <1>5, <2>1, <3>2, RecordOfRowStays DEF RecordInv
    <3> QED
      BY <3>1, <3>2
  <2>4. RecordOwned'
    <3> SUFFICES ASSUME NEW d \in Dns, record[<<NULL, d>>] # NULL
                 PROVE  \/ d \in dirty' \/ AtName(d, "enable", Recorded)'
                        \/ \E e \in enabled' : e.dns = d
      BY <2>1 DEF RecordOwned
    <3>1. d \in dirty \/ AtName(d, "enable", Recorded) \/ \E e \in enabled : e.dns = d
      BY <1>0 DEF RecordInv, RecordOwned
    <3>2. op[w].dns \in dirty \/ record[<<NULL, op[w].dns>>] = NULL
      BY <1>0, <1>1 DEF RecordInv, NoRecord, Unrecorded, Unsited, Disallowed
    <3>3. ASSUME NEW e \in enabled, e.dns = d, e.board = op[w].board
          PROVE  d \in dirty
      BY <1>0, <1>1, <1>6, <3>2, <3>3, RowCases
    <3>4. Stays(w, "enable", Recorded)
      BY <1>1
    <3> QED
      BY <1>3, <1>5, <1>6, <3>1, <3>3, <3>4, NameStays
  <2> QED
    BY <2>2, <2>3, <2>4 DEF RecordInv
<1>10. SiteInv'
  <2>1. site' = site
    BY <1>1 DEF remote
  <2>2. TextIsSite'
    BY <1>0, <1>6, <2>1 DEF SiteInv, TextIsSite, SiteAt
  <2>3. SiteOfRow'
    <3> SUFFICES ASSUME NEW e \in enabled'
                 PROVE  \/ e.dns \in dirty' \/ AtName(e.dns, "disable", Unsited)'
                        \/ AtName(e.dns, "enable", ToSite)'
                        \/ /\ SiteAt(e.board, e.dns)' # NULL
                           /\ SiteAt(e.board, e.dns)'.http = e.http
                           /\ SiteAt(e.board, e.dns)'.https = e.https
      BY DEF SiteOfRow
    <3>1. CASE e.dns = op[w].dns
      BY <1>6, <1>7, <3>1
    <3>2. CASE e.dns # op[w].dns
      <4>1. SiteAt(e.board, e.dns)' = SiteAt(e.board, e.dns)
        BY <2>1 DEF SiteAt
      <4> QED
        BY <1>0, <1>3, <1>5, <3>2, <4>1, SiteOfRowStays DEF SiteInv
    <3> QED
      BY <3>1, <3>2
  <2> QED
    BY <2>2, <2>3 DEF SiteInv
<1>11. ServeInv'
  <2>1. exposed' = exposed /\ allow' = allow
    BY <1>1 DEF remote
  <2>2. ASSUME NEW e \in enabled'
        PROVE  /\ \/ e.dns \in dirty' \/ AtName(e.dns, "disable", HttpGone)'
                  \/ AtName(e.dns, "enable", ToServeHttp)' \/ <<e.board, "http", e.http>> \in exposed'
               /\ \/ e.dns \in dirty' \/ AtName(e.dns, "disable", HttpsGone)'
                  \/ AtName(e.dns, "enable", ToServeHttps)' \/ <<e.board, "https", e.https>> \in exposed'
               /\ \/ e.dns \in dirty' \/ AtName(e.dns, "disable", Disallowed)'
                  \/ /\ AtName(e.dns, "enable", ToAllowHttp)' \/ <<e.board, e.http>> \in allow'
                     /\ AtName(e.dns, "enable", ToAllowHttps)' \/ <<e.board, e.https>> \in allow'
    <3>1. CASE e.dns = op[w].dns
      BY <1>6, <1>7, <3>1
    <3>2. CASE e.dns # op[w].dns
      BY <1>0, <1>3, <1>5, <2>1, <3>2, HttpOfRowStays, HttpsOfRowStays, AllowOfRowStays DEF ServeInv
    <3> QED
      BY <3>1, <3>2
  <2>3. HttpOfRow' /\ HttpsOfRow' /\ AllowOfRow'
    BY <2>2 DEF HttpOfRow, HttpsOfRow, AllowOfRow
  <2>4. RowOfServed'
    <3> SUFFICES ASSUME NEW x \in exposed, x[1] \notin dirty
                 PROVE  \E e \in enabled' : e.board = x[1] /\ x[3] = PortOf(e, x[2])
      BY <1>6, <2>1 DEF RowOfServed, PortOf
    <3>1. x[2] \in Kinds
      BY <1>0 DEF Typed, TypeOK
    <3>2. x[1] # op[w].board
      BY <1>0, <1>1, <3>1 DEF ServeInv, Stopped, Kinds, HttpGone, HttpsGone, Uncerted, Unrecorded,
           Unsited, Disallowed
    <3> QED
      BY <1>0, <1>5, <3>2 DEF ServeInv, RowOfServed
  <2>5. Stopped'
    BY <1>0, <1>6, <2>1 DEF ServeInv, Stopped
  <2> QED
    BY <2>3, <2>4, <2>5 DEF ServeInv
<1>12. PortInv'
  <2>1. \A e \in enabled' : op[w].dns # e.dns \/ e.dns \in dirty
    BY <1>7
  <2> QED
    BY <1>0, <1>1, <1>2, <1>3, <1>5, <2>1, QuietPort DEF Ends, Held0, Typed
<1>13. WebInv'
  <2>1. webs' = webs
    BY <1>1
  <2>2. WebHasRow'
    <3> SUFFICES ASSUME NEW v \in webs, v[1] \notin dirty, ~\E x \in orphan' : x[1] = v[1] /\ x[2] = v[2]
                 PROVE  \E e \in enabled' : e.board = v[1]
      BY <1>6, <2>1 DEF WebHasRow, Orphaned
    <3>1. v[1] # op[w].board
      BY <1>5
    <3> QED
      BY <1>0, <1>5, <3>1 DEF WebInv, WebHasRow, Orphaned
  <2>3. OneWeb' /\ FreshName' /\ NamesRead' /\ WebToGo' /\ WebIsGone'
    BY <1>0, <1>6, <2>1 DEF WebInv, OneWeb, FreshName, NamesRead, WebToGo, WebIsGone
  <2>4. NewBoard'
    BY <1>0, <1>5, <1>6, <2>1 DEF WebInv, NewBoard, Orphaned
  <2> QED
    BY <2>2, <2>3, <2>4 DEF WebInv
<1>14. NameInv'
  <2>1. webs' = webs /\ record' = record
    BY <1>1 DEF remote
  <2>2. NameOwned'
    <3> SUFFICES ASSUME NEW n \in Names, NEW d \in Dns, record[<<n, d>>] # NULL
                 PROVE  \/ d \in dirty' \/ OrphanName(n, d)'
                        \/ \E e \in enabled', v \in webs' : v[1] = e.board /\ v[2] = n /\ e.dns = d
                        \/ AtHost(n, d, "expose", Named)' \/ AtHost(n, d, "unexpose", {"name_unrecord"})'
      BY <2>1 DEF NameOwned
    <3>1. \/ d \in dirty \/ OrphanName(n, d)
          \/ \E e \in enabled, v \in webs : v[1] = e.board /\ v[2] = n /\ e.dns = d
          \/ AtHost(n, d, "expose", Named) \/ AtHost(n, d, "unexpose", {"name_unrecord"})
      BY <1>0 DEF NameInv, NameOwned
    <3>2. OrphanName(n, d) => OrphanName(n, d)'
      BY <1>5 DEF OrphanName
    <3>3. Stays(w, "expose", Named) /\ Stays(w, "unexpose", {"name_unrecord"})
      BY <1>1
    <3>4. ASSUME NEW e \in enabled, NEW v \in webs, v[1] = e.board, v[2] = n, e.dns = d,
                 e.board = op[w].board
          PROVE  d \in dirty \/ OrphanName(n, d)'
      <4>1. d \in dirty \/ d = op[w].dns
        BY <1>0, <1>1, <1>6, <3>4, RowCases
      <4>2. <<v[1], n, op[w].dns>> \in orphan'
        BY <1>5, <3>4
      <4> QED
        BY <4>1, <4>2 DEF OrphanName
    <3> QED
      BY <1>3, <1>5, <1>6, <2>1, <3>1, <3>2, <3>3, <3>4, HostStays
  <2>3. NameMade'
    <3> SUFFICES ASSUME NEW u \in Workers, In(u, "expose", Named)'
                 PROVE  \/ op'[u].board \in dirty' \/ op'[u].dns \in dirty'
                        \/ \E x \in orphan' : x[2] = op'[u].name /\ x[3] = op'[u].dns
                        \/ record'[<<op'[u].name, op'[u].dns>>] = AgentOf[op'[u].board]
      BY DEF NameMade, OrphanName
    <3>1. \/ op[u].board \in dirty \/ op[u].dns \in dirty
          \/ \E x \in orphan : x[2] = op[u].name /\ x[3] = op[u].dns
          \/ record[<<op[u].name, op[u].dns>>] = AgentOf[op[u].board]
      BY <1>0, <1>6 DEF NameInv, NameMade, OrphanName
    <3> QED
      BY <1>5, <1>6, <2>1, <3>1
  <2>4. WebRecord'
    <3> SUFFICES ASSUME NEW v \in webs, NEW e \in enabled', v[1] = e.board
                 PROVE  Excused(v, e)' \/ record'[<<v[2], e.dns>>] = AgentOf[e.board]
      BY <2>1 DEF WebRecord
    <3> QED
      BY <1>0, <1>3, <1>5, <2>1, ExcusedStays DEF NameInv, WebRecord
  <2> QED
    BY <2>2, <2>3, <2>4 DEF NameInv
<1>15. RedirectInv'
  <2>1. webs' = webs /\ site' = site
    BY <1>1 DEF remote
  <2>2. WebRedirect'
    <3> SUFFICES ASSUME NEW v \in webs, NEW e \in enabled', v[1] = e.board
                 PROVE  \/ Excused(v, e)' \/ AtWeb(v[1], v[2], "unexpose", {"drop_web"})'
                        \/ AtBoard(v[1], "disable", Unsited)'
                        \/ /\ SiteAt(e.board, e.dns)' # NULL
                           /\ v[2] \in SiteAt(e.board, e.dns)'.redirects
      BY <2>1 DEF WebRedirect
    <3>1. SiteAt(e.board, e.dns)' = SiteAt(e.board, e.dns)
      BY <2>1 DEF SiteAt
    <3>2. op[w].board # v[1]
      BY <1>5
    <3> QED
      BY <1>0, <1>3, <1>5, <3>1, <3>2, WebRedirectStays DEF RedirectInv
  <2>3. RedirectMade'
    BY <1>0, <1>6, <2>1 DEF RedirectInv, RedirectMade, SiteAt
  <2> QED
    BY <2>2, <2>3 DEF RedirectInv
<1>16. CertInv'
  <2>1. webs' = webs /\ cert' = cert
    BY <1>1 DEF remote
  <2>2. WebCert'
    <3> SUFFICES ASSUME NEW v \in webs, NEW e \in enabled', v[1] = e.board
                 PROVE  \/ Excused(v, e)' \/ AtWeb(v[1], v[2], "unexpose", Decerting)'
                        \/ AtBoard(v[1], "disable", Uncerted)' \/ v[2] \in cert'[e.board]
      BY <2>1 DEF WebCert
    <3>1. op[w].board # v[1]
      BY <1>5
    <3> QED
      BY <1>0, <1>3, <1>5, <2>1, <3>1, WebCertStays DEF CertInv
  <2>3. CertMade'
    BY <1>0, <1>6, <2>1 DEF CertInv, CertMade
  <2> QED
    BY <2>2, <2>3 DEF CertInv
<1> QED
  BY <1>4, <1>8, <1>9, <1>10, <1>11, <1>12, <1>13, <1>14, <1>15, <1>16 DEF IInv

(* SaveEnabled: the new row has its record and ports that are no other       *)
(* board's; the rest is still to come.                                      *)
LEMMA SaveEnabledKeeps ==
  ASSUME IInv, NEW w \in Workers, SaveEnabled(w)
  PROVE  IInv'
<1> USE DEF Stays, Was, SameThere, In, Does, Runs
<1>0. /\ Typed /\ RunInv /\ RecordInv /\ SiteInv /\ ServeInv /\ PortInv
      /\ WebInv /\ NameInv /\ RedirectInv /\ CertInv
  BY DEF IInv
<1>1. PICK r \in [board : Boards, dns : Dns, http : Ports, https : Ports] :
        /\ pc[w] = "save" /\ op[w] # NULL /\ op[w].kind = "enable"
        /\ r.board = op[w].board /\ r.dns = op[w].dns /\ r.http = op[w].http /\ r.https = op[w].https
        /\ enabled' = enabled \cup {r}
        /\ UNCHANGED <<webs, exposed, remote, free, op, ghosts>>
  <2>1. pc[w] = "save" /\ op[w] # NULL /\ op[w].kind = "enable"
    BY <1>0, WhoIsThere DEF SaveEnabled, At, Enabling
  <2>2. op[w].http \in Ports /\ op[w].https \in Ports
    BY <1>0, <2>1 DEF Typed, Filled, FilledAt, Undrawn
  <2>3. op[w].dns \in Dns /\ op[w].board \in Boards
    BY <1>0, <2>1, RunsOperation DEF Typed
  <2> QED
    BY <2>1, <2>2, <2>3 DEF SaveEnabled
<1>2. Goes(w, "allow_http") /\ op'[w] = op[w]
  BY <1>0, <1>1, GoesOn DEF SaveEnabled, Typed, Labels, Enabling, Grown, ghosts
<1>3. Frame(w)
  BY <1>2 DEF Goes
<1>4. Typed'
  <2>1. TableTypes'
    BY <1>0, <1>1 DEF Typed, TypeOK, TableTypes, remote, ghosts
  <2>2. FilledAt(w)'
    BY <1>0, <1>1, <1>2 DEF Typed, Filled, FilledAt, Goes, Enabling, Undrawn
  <2> QED
    BY <1>0, <1>3, <2>1, <2>2, TypedStep
<1>5. /\ dirty' = dirty /\ contested' = contested /\ orphan' = orphan /\ enabled \subseteq enabled' /\ Before(w)
      /\ pc'[w] = "allow_http"
      /\ \A u \in Workers : op'[u] = op[u]
      /\ \A u \in Workers \ {w} : pc'[u] = pc[u]
  BY <1>1, <1>2, <1>3 DEF Goes, Frame, ghosts, Before, Unsaved
<1>6. ASSUME NEW v \in webs, v[1] = r.board
      PROVE  Excused(v, r)'
  <2>1. v[1] \in dirty \/ Orphaned(v[1], v[2])
    BY <1>0, <1>1, <1>6 DEF WebInv, NewBoard, Checked, Enabling
  <2>2. Excused(v, r)
    BY <2>1 DEF Excused
  <2> QED
    BY <1>3, <2>2, ExcusedStays

<1>7. RunInv'
  <2> USE DEF Soiled, Before
  <2>1. Alone'
    BY <1>0, <1>5 DEF RunInv, Alone
  <2>2. NewName'
    <3>1. \A u \in Workers : Before(u)' => u # w /\ Before(u)
      BY <1>5 DEF Unsaved
    <3> QED
      BY <1>0, <1>1, <1>5, <3>1 DEF RunInv, NewName
  <2>3. \A e \in enabled : e.board = op[w].board =>
          e.board \in dirty /\ e.dns \in dirty /\ op[w].dns \in dirty
    BY <1>0, <1>1, <1>5 DEF RunInv, RowIsOwn
  <2>4. RowIsOwn'
    <3> SUFFICES ASSUME NEW u \in Workers, op[u] # NULL, pc'[u] # "is_enabled",
                        NEW e \in enabled', e.board = op[u].board
                 PROVE  \/ e.board \in dirty /\ e.dns \in dirty /\ op[u].dns \in dirty
                        \/ ~Before(u)' /\ e.dns = op[u].dns
      BY <1>5 DEF RowIsOwn
    <3>1. CASE u = w
      BY <1>1, <1>5, <2>3, <3>1 DEF Unsaved
    <3>2. CASE u # w /\ e \in enabled
      BY <1>0, <1>5, <3>2 DEF RunInv, RowIsOwn
    <3>3. CASE u # w /\ e = r
      BY <1>0, <1>1, <3>3 DEF RunInv, Alone
    <3> QED
      BY <1>1, <3>1, <3>2, <3>3
  <2>5. HasRow'
    <3> SUFFICES ASSUME NEW u \in Workers, op[u] # NULL, ~Before(u)'
                 PROVE  \/ op[u].board \in dirty /\ op[u].dns \in dirty
                        \/ \E e \in enabled' :
                             /\ e.board = op[u].board /\ e.dns = op[u].dns
                             /\ op[u].kind \in {"enable", "disable"} =>
                                  e.http = op[u].http /\ e.https = op[u].https
      BY <1>5 DEF HasRow
    <3>1. CASE u = w
      BY <1>1, <3>1
    <3>2. CASE u # w
      BY <1>0, <1>5, <3>2 DEF RunInv, HasRow
    <3> QED
      BY <3>1, <3>2
  <2>6. OneRow'
    BY <1>0, <1>1, <1>5, <2>3 DEF RunInv, OneRow
  <2>7. OneBoard'
    BY <1>0, <1>1, <1>5 DEF RunInv, OneBoard, NewName
  <2>8. CheckedName'
    <3>1. \A u \in Workers : Before(u)' => u # w /\ Before(u)
      BY <1>5 DEF Unsaved
    <3> QED
      BY <1>0, <1>1, <1>5, <3>1 DEF RunInv, CheckedName
  <2>9. UniqueDns'
    BY <1>0, <1>1, <1>5 DEF RunInv, UniqueDns, CheckedName
  <2> QED
    BY <2>1, <2>2, <2>4, <2>5, <2>6, <2>7, <2>8, <2>9 DEF RunInv
<1>8. RecordInv'
  <2>1. record' = record
    BY <1>1 DEF remote
  <2>2. RecordMade' /\ NoRecord'
    BY <1>0, <1>1, <1>5, <2>1 DEF RecordInv, RecordMade, NoRecord, Recorded
  <2>3. RecordOfRow'
    <3> SUFFICES ASSUME NEW e \in enabled'
                 PROVE  \/ e.dns \in dirty' \/ AtName(e.dns, "disable", Unrecorded)'
                        \/ record'[<<NULL, e.dns>>] = AgentOf[e.board]
      BY DEF RecordOfRow
    <3>1. CASE e = r
      BY <1>0, <1>1, <1>5, <2>1, <3>1 DEF RecordInv, RecordMade, Recorded
    <3>2. CASE e \in enabled
      <4>1. Stays(w, "disable", Unrecorded)
        BY <1>1
      <4> QED
        BY <1>0, <1>3, <2>1, <3>2, <4>1, RecordOfRowStays DEF RecordInv
    <3> QED
      BY <1>1, <3>1, <3>2
  <2>4. RecordOwned'
    <3> SUFFICES ASSUME NEW d \in Dns, record[<<NULL, d>>] # NULL
                 PROVE  \/ d \in dirty' \/ AtName(d, "enable", Recorded)'
                        \/ \E e \in enabled' : e.dns = d
      BY <2>1 DEF RecordOwned
    <3>1. CASE d = op[w].dns
      BY <1>1, <3>1
    <3>2. CASE d # op[w].dns
      <4>1. d \in dirty \/ AtName(d, "enable", Recorded) \/ \E e \in enabled : e.dns = d
        BY <1>0 DEF RecordInv, RecordOwned
      <4> QED
        BY <1>3, <1>5, <3>2, <4>1, NameStays
    <3> QED
      BY <3>1, <3>2
  <2> QED
    BY <2>2, <2>3, <2>4 DEF RecordInv
<1>9. SiteInv'
  <2>1. site' = site
    BY <1>1 DEF remote
  <2>2. TextIsSite'
    BY <1>0, <1>5, <2>1 DEF SiteInv, TextIsSite, SiteAt
  <2>3. SiteOfRow'
    <3> SUFFICES ASSUME NEW e \in enabled'
                 PROVE  \/ e.dns \in dirty' \/ AtName(e.dns, "disable", Unsited)'
                        \/ AtName(e.dns, "enable", ToSite)'
                        \/ /\ SiteAt(e.board, e.dns)' # NULL
                           /\ SiteAt(e.board, e.dns)'.http = e.http
                           /\ SiteAt(e.board, e.dns)'.https = e.https
      BY DEF SiteOfRow
    <3>1. CASE e = r
      <4>1. In(w, "enable", ToSite)' /\ op'[w].dns = e.dns
        BY <1>1, <1>5, <3>1 DEF ToSite
      <4>2. AtName(e.dns, "enable", ToSite)'
        BY <4>1 DEF AtName
      <4> QED
        BY <4>2
    <3>2. CASE e \in enabled
      <4>1. SiteAt(e.board, e.dns)' = SiteAt(e.board, e.dns)
        BY <2>1 DEF SiteAt
      <4>2. Stays(w, "disable", Unsited) /\ Stays(w, "enable", ToSite)
        BY <1>1 DEF ToSite
      <4> QED
        BY <1>0, <1>3, <3>2, <4>1, <4>2, SiteOfRowStays DEF SiteInv
    <3> QED
      BY <1>1, <3>1, <3>2
  <2> QED
    BY <2>2, <2>3 DEF SiteInv
<1>10. ServeInv'
  <2>1. exposed' = exposed /\ allow' = allow
    BY <1>1 DEF remote
  <2>2. ASSUME NEW e \in enabled'
        PROVE  /\ \/ e.dns \in dirty' \/ AtName(e.dns, "disable", HttpGone)'
                  \/ AtName(e.dns, "enable", ToServeHttp)' \/ <<e.board, "http", e.http>> \in exposed'
               /\ \/ e.dns \in dirty' \/ AtName(e.dns, "disable", HttpsGone)'
                  \/ AtName(e.dns, "enable", ToServeHttps)' \/ <<e.board, "https", e.https>> \in exposed'
               /\ \/ e.dns \in dirty' \/ AtName(e.dns, "disable", Disallowed)'
                  \/ /\ AtName(e.dns, "enable", ToAllowHttp)' \/ <<e.board, e.http>> \in allow'
                     /\ AtName(e.dns, "enable", ToAllowHttps)' \/ <<e.board, e.https>> \in allow'
    <3>1. CASE e = r
      <4>1. /\ In(w, "enable", ToServeHttp)' /\ In(w, "enable", ToServeHttps)'
            /\ In(w, "enable", ToAllowHttp)' /\ In(w, "enable", ToAllowHttps)'
            /\ op'[w].dns = e.dns
        BY <1>1, <1>5, <3>1 DEF ToServeHttp, ToServeHttps, ToAllowHttp, ToAllowHttps
      <4>2. /\ AtName(e.dns, "enable", ToServeHttp)' /\ AtName(e.dns, "enable", ToServeHttps)'
            /\ AtName(e.dns, "enable", ToAllowHttp)' /\ AtName(e.dns, "enable", ToAllowHttps)'
        BY <4>1 DEF AtName
      <4> QED
        BY <4>2
    <3>2. CASE e \in enabled
      <4>1. /\ Stays(w, "disable", HttpGone) /\ Stays(w, "disable", HttpsGone)
            /\ Stays(w, "disable", Disallowed)
            /\ Stays(w, "enable", ToServeHttp) /\ Stays(w, "enable", ToServeHttps)
            /\ Stays(w, "enable", ToAllowHttp) /\ Stays(w, "enable", ToAllowHttps)
        BY <1>1 DEF ToServeHttp, ToServeHttps, ToAllowHttp, ToAllowHttps
      <4> QED
        BY <1>0, <1>3, <2>1, <3>2, <4>1, HttpOfRowStays, HttpsOfRowStays, AllowOfRowStays DEF ServeInv
    <3> QED
      BY <1>1, <3>1, <3>2
  <2>3. HttpOfRow' /\ HttpsOfRow' /\ AllowOfRow'
    BY <2>2 DEF HttpOfRow, HttpsOfRow, AllowOfRow
  <2>4. RowOfServed'
    BY <1>0, <1>5, <2>1 DEF ServeInv, RowOfServed, PortOf
  <2>5. Stopped'
    BY <1>0, <1>1, <1>5, <2>1 DEF ServeInv, Stopped
  <2> QED
    BY <2>3, <2>4, <2>5 DEF ServeInv
<1>11. PortInv'
  <2> USE DEF Soiled
  <2> SUFFICES ASSUME ~reused'
               PROVE  (/\ FreeHeld /\ FreeServed /\ FreeRow
                       /\ HeldHeld /\ HeldServed /\ HeldRow /\ ServedRow)'
    BY DEF PortInv
  <2>1. /\ FreeHeld /\ FreeServed /\ FreeRow
        /\ HeldHeld /\ HeldServed /\ HeldRow /\ ServedRow
        /\ dirty \subseteq dirty'
    BY <1>0, <1>3 DEF PortInv, Frame
  <2>2. /\ \A p \in PortsOf(r) : Holds(w, p) /\ p \in Ports
        /\ op[w].dns \in dirty => Leaving(r)'
        /\ exposed' = exposed /\ free' = free /\ op[w].board = r.board
    BY <1>1, <2>1 DEF PortsOf, Holds, Leaving
  <2>3. Stays(w, "disable", {"drop_https"}) /\ Stays(w, "disable", HttpGone)
    BY <1>1
  <2>4. ASSUME NEW e \in enabled' PROVE e = r \/ e \in enabled
    BY <1>1
  <2>5. FreeHeld' /\ HeldHeld'
    BY <1>1, <1>5, <2>1, <2>2 DEF FreeHeld, HeldHeld, Holds
  <2>6. FreeServed'
    <3> SUFFICES ASSUME NEW x \in exposed, x[3] \in free
                 PROVE  Left(x)'
      BY <2>2 DEF FreeServed
    <3> QED
      BY <1>3, <2>1, <2>3, LeftStays DEF FreeServed
  <2>7. FreeRow'
    <3> SUFFICES ASSUME NEW e \in enabled', NEW p \in PortsOf(e), p \in free
                 PROVE  Leaving(e)'
      BY <2>2 DEF FreeRow, PortsOf
    <3>1. CASE e = r
      BY <2>1, <2>2, <3>1 DEF FreeHeld
    <3>2. CASE e \in enabled
      BY <1>3, <2>1, <2>3, <3>2, LeavingStays DEF FreeRow
    <3> QED
      BY <2>4, <3>1, <3>2
  <2>8. HeldServed'
    <3> SUFFICES ASSUME NEW u \in Workers, NEW x \in exposed, Holds(u, x[3]), x[1] # op[u].board
                 PROVE  (op[u].board \in dirty' /\ op[u].dns \in dirty') \/ Left(x)'
      BY <1>5, <2>2 DEF HeldServed, Holds
    <3>1. (op[u].board \in dirty /\ op[u].dns \in dirty) \/ Left(x)
      BY <2>1 DEF HeldServed
    <3> QED
      BY <1>3, <2>1, <2>3, <3>1, LeftStays
  <2>9. HeldRow'
    <3> SUFFICES ASSUME NEW u \in Workers, NEW e \in enabled', NEW p \in PortsOf(e),
                        Holds(u, p), e.board # op[u].board
                 PROVE  (op[u].board \in dirty' /\ op[u].dns \in dirty') \/ Leaving(e)'
      BY <1>5 DEF HeldRow, PortsOf, Holds
    <3>1. CASE e = r
      <4>1. u # w /\ p \in Ports /\ Holds(w, p)
        BY <2>2, <3>1
      <4>2. \/ op[w].board \in dirty /\ op[w].dns \in dirty
            \/ op[u].board \in dirty /\ op[u].dns \in dirty
        BY <2>1, <4>1 DEF HeldHeld
      <4> QED
        BY <2>1, <2>2, <3>1, <4>2
    <3>2. CASE e \in enabled
      <4>1. (op[u].board \in dirty /\ op[u].dns \in dirty) \/ Leaving(e)
        BY <2>1, <3>2 DEF HeldRow
      <4> QED
        BY <1>3, <2>1, <2>3, <4>1, LeavingStays
    <3> QED
      BY <2>4, <3>1, <3>2
  <2>10. ServedRow'
    <3> SUFFICES ASSUME NEW x \in exposed, NEW e \in enabled', x[3] \in PortsOf(e), x[1] # e.board
                 PROVE  Left(x)' \/ Leaving(e)'
      BY <2>2 DEF ServedRow, PortsOf
    <3>1. CASE e = r
      <4>1. Holds(w, x[3]) /\ x[1] # op[w].board
        BY <2>2, <3>1
      <4>2. (op[w].board \in dirty /\ op[w].dns \in dirty) \/ Left(x)
        BY <2>1, <4>1 DEF HeldServed
      <4> QED
        BY <1>3, <2>2, <2>3, <3>1, <4>2, LeftStays
    <3>2. CASE e \in enabled
      <4>1. Left(x) \/ Leaving(e)
        BY <2>1, <3>2 DEF ServedRow
      <4> QED
        BY <1>3, <2>3, <4>1, LeftStays, LeavingStays
    <3> QED
      BY <2>4, <3>1, <3>2
  <2> QED
    BY <2>5, <2>6, <2>7, <2>8, <2>9, <2>10
<1>12. WebInv'

  BY <1>0, <1>1, <1>2, <1>3, <1>5, QuietWeb DEF Goes, WebThere, Checked, Enabling
<1>13. NameInv'
  <2>1. webs' = webs /\ record' = record
    BY <1>1 DEF remote
  <2>2. NameOwned'
    <3> SUFFICES ASSUME NEW n \in Names, NEW d \in Dns, record[<<n, d>>] # NULL
                 PROVE  \/ d \in dirty' \/ OrphanName(n, d)'
                        \/ \E e \in enabled', v \in webs' : v[1] = e.board /\ v[2] = n /\ e.dns = d
                        \/ AtHost(n, d, "expose", Named)' \/ AtHost(n, d, "unexpose", {"name_unrecord"})'
      BY <2>1 DEF NameOwned
    <3>1. Stays(w, "expose", Named) /\ Stays(w, "unexpose", {"name_unrecord"}) /\ webs \subseteq webs'
      BY <1>1
    <3> QED
      BY <1>0, <1>3, <1>5, <3>1, NameOwnedStays DEF NameInv
  <2>3. NameMade'
    BY <1>0, <1>1, <1>5, <2>1 DEF NameInv, NameMade, OrphanName
  <2>4. WebRecord'
    <3> SUFFICES ASSUME NEW v \in webs, NEW e \in enabled', v[1] = e.board
                 PROVE  Excused(v, e)' \/ record'[<<v[2], e.dns>>] = AgentOf[e.board]
      BY <2>1 DEF WebRecord
    <3>1. CASE e = r
      BY <1>6, <3>1
    <3>2. CASE e \in enabled
      BY <1>0, <1>3, <2>1, <3>2, ExcusedStays DEF NameInv, WebRecord
    <3> QED
      BY <1>1, <3>1, <3>2
  <2> QED
    BY <2>2, <2>3, <2>4 DEF NameInv
<1>14. RedirectInv'
  <2>1. webs' = webs /\ site' = site
    BY <1>1 DEF remote
  <2>2. WebRedirect'
    <3> SUFFICES ASSUME NEW v \in webs, NEW e \in enabled', v[1] = e.board
                 PROVE  \/ Excused(v, e)' \/ AtWeb(v[1], v[2], "unexpose", {"drop_web"})'
                        \/ AtBoard(v[1], "disable", Unsited)'
                        \/ /\ SiteAt(e.board, e.dns)' # NULL
                           /\ v[2] \in SiteAt(e.board, e.dns)'.redirects
      BY <2>1 DEF WebRedirect
    <3>1. CASE e = r
      BY <1>6, <3>1
    <3>2. CASE e \in enabled
      <4>1. SiteAt(e.board, e.dns)' = SiteAt(e.board, e.dns)
        BY <2>1 DEF SiteAt
      <4>2. Stays(w, "unexpose", {"drop_web"}) /\ Stays(w, "disable", Unsited)
        BY <1>1
      <4> QED
        BY <1>0, <1>3, <3>2, <4>1, <4>2, WebRedirectStays DEF RedirectInv
    <3> QED
      BY <1>1, <3>1, <3>2
  <2>3. RedirectMade'
    BY <1>0, <1>1, <1>5, <2>1 DEF RedirectInv, RedirectMade, SiteAt
  <2> QED
    BY <2>2, <2>3 DEF RedirectInv
<1>15. CertInv'
  <2>1. webs' = webs /\ cert' = cert
    BY <1>1 DEF remote
  <2>2. WebCert'
    <3> SUFFICES ASSUME NEW v \in webs, NEW e \in enabled', v[1] = e.board
                 PROVE  \/ Excused(v, e)' \/ AtWeb(v[1], v[2], "unexpose", Decerting)'
                        \/ AtBoard(v[1], "disable", Uncerted)' \/ v[2] \in cert'[e.board]
      BY <2>1 DEF WebCert
    <3>1. CASE e = r
      BY <1>6, <3>1
    <3>2. CASE e \in enabled
      <4>1. Stays(w, "unexpose", Decerting) /\ Stays(w, "disable", Uncerted)
        BY <1>1
      <4> QED
        BY <1>0, <1>3, <2>1, <3>2, <4>1, WebCertStays DEF CertInv
    <3> QED
      BY <1>1, <3>1, <3>2
  <2>3. CertMade'
    BY <1>0, <1>1, <1>5, <2>1 DEF CertInv, CertMade
  <2> QED
    BY <2>2, <2>3 DEF CertInv
<1> QED
  BY <1>4, <1>7, <1>8, <1>9, <1>10, <1>11, <1>12, <1>13, <1>14, <1>15 DEF IInv

(* What an operation has checked and read when it starts, and where it goes. *)
RowOf(o) ==
  \E e \in enabled :
    /\ EnabledOn(o.board) = {e} /\ o.dns = e.dns
    /\ o.kind = "disable" => o.http = e.http /\ o.https = e.https
StartsAs(o, l) ==
  \/ /\ o.kind = "enable" /\ l = "is_enabled" /\ o.http = NULL /\ o.https = NULL
     /\ \A e \in enabled : e.dns # o.dns
  \/ o.kind = "disable" /\ l = "stop_http" /\ RowOf(o)
  \/ /\ o.kind = "expose" /\ l = "name_record" /\ RowOf(o)
     /\ o.name \in Names /\ o.lport \in LocalPorts
     /\ \A v \in WebsOn(o.board) : v[2] # o.name /\ v[2] \in o.names
  \/ /\ o.kind = "unexpose" /\ l \in {"decertify", "drop_web"} /\ RowOf(o)
     /\ o.name \in Names /\ o.lport \in LocalPorts
     /\ <<o.board, o.name, o.lport>> \in webs

(* Start: an operation that meets another one soils both; else it is alone  *)
(* with its board, and with its name if it is to get one.                   *)
LEMMA StartKeeps ==
  ASSUME IInv, NEW w \in Workers, NEW o \in Operations, NEW l \in Labels,
         Start(w, o, l), StartsAs(o, l)
  PROVE  IInv'
<1> USE DEF Stays, Was, SameThere, In, Does, Runs
<1>0. /\ Typed /\ RunInv /\ RecordInv /\ SiteInv /\ ServeInv /\ PortInv
      /\ WebInv /\ NameInv /\ RedirectInv /\ CertInv
  BY DEF IInv
<1>1. /\ op[w] = NULL
      /\ dirty \subseteq dirty' /\ dirty' \subseteq Boards \cup Dns
      /\ contested \subseteq contested' /\ contested' \subseteq Dns
      /\ UNCHANGED <<tables, remote, free, orphan, reused>>
      /\ op' = [op EXCEPT ![w] = o] /\ Goto(w, l) /\ At(w, "idle")
  <2>1. At(w, "idle") /\ op[w] = NULL
    BY <1>0 DEF Start, At, Typed, TypeOK
  <2>2. o.board \in Boards /\ o.dns \in Dns
    BY DEF Operations
  <2>3. \A u \in SameBoard(o) : op[u].dns \in Dns
    BY <1>0, RunsOperation DEF SameBoard, Typed
  <2> QED
    BY <1>0, <2>1, <2>2, <2>3 DEF Start, Soil, Typed, TypeOK
<1>2. Begins(w, o, l) /\ op'[w] = o /\ pc'[w] = l
  <2>1. Grown
    BY <1>1 DEF Grown
  <2> QED
    BY <1>0, <1>1, <2>1, BeginsWith DEF Typed, Begins
<1>3. Frame(w)
  BY <1>2 DEF Begins
<1>5. o # NULL
  BY OperationFields
<1>6. ASSUME NEW u \in Workers, op[u] # NULL, op[u].board = o.board
      PROVE  o.board \in dirty' /\ o.dns \in dirty' /\ op[u].dns \in dirty'
  BY <1>6 DEF Start, Soil, SameBoard
<1>7. ASSUME NEW u \in Workers, Before(u), o.kind = "enable", op[u].dns = o.dns
      PROVE  o.dns \in dirty' /\ o.dns \in contested'
  BY <1>7 DEF Start, Soil, SameName, Before, Unsaved
<1>4. Typed'
  <2>1. TableTypes'
    BY <1>0, <1>1 DEF Typed, TypeOK, TableTypes, tables, remote
  <2>2. FilledAt(w)'
    <3>1. l # "idle" /\ l # "write_site"
      BY DEF StartsAs
    <3>2. /\ o.kind = "enable" => l = "is_enabled" /\ o.http = NULL /\ o.https = NULL
          /\ o.kind = "disable" => l = "stop_http" /\ o.http \in Ports /\ o.https \in Ports
          /\ o.kind = "expose" => l = "name_record" /\ o.name \in Names /\ o.lport \in LocalPorts
          /\ o.kind = "unexpose" => l \in {"decertify", "drop_web"}
                                    /\ o.name \in Names /\ o.lport \in LocalPorts
      BY <1>0 DEF StartsAs, RowOf, Typed, TypeOK
    <3> QED
      BY <1>2, <1>5, <3>1, <3>2 DEF FilledAt, Enabling, Disabling, Exposing, Unexposing, Undrawn
  <2> QED
    BY <1>0, <1>3, <2>1, <2>2, TypedStep
<1>8. /\ l \notin Recorded /\ l \notin Unrecorded /\ l \notin HttpGone /\ l \notin HttpsGone
      /\ l \notin Named /\ l \notin Checked /\ l \notin Redirected /\ l \notin Certified
      /\ l \notin {"name_unrecord", "write_site"}
  BY DEF StartsAs, Recorded, Unrecorded, Unsited, Disallowed, HttpGone, HttpsGone, Uncerted,
     Named, Checked, Enabling, Redirected, Certified
<1>9. RecordInv'
  BY <1>0, <1>1, <1>2, <1>3, <1>8, <1>4, QuietRecord
  DEF Begins, Typed, Recorded, Unrecorded, Unsited, Disallowed, tables, remote
<1>10. SiteInv'
  BY <1>0, <1>1, <1>2, <1>3, <1>8, QuietSite
  DEF Begins, Unsited, Disallowed, ToSite, tables, remote
<1>11. ServeInv'
  BY <1>0, <1>1, <1>2, <1>3, <1>8, QuietServe
  DEF Begins, HttpGone, HttpsGone, Uncerted, Unrecorded,
     Unsited, Disallowed, ToServeHttp, ToServeHttps, ToAllowHttp, ToAllowHttps, tables, remote
<1>12. NameInv'
  BY <1>0, <1>1, <1>2, <1>3, <1>8, <1>4, QuietName
  DEF Begins, Named, Typed, tables, remote
<1>13. RedirectInv'
  BY <1>0, <1>1, <1>2, <1>3, <1>8, QuietRedirect
  DEF Begins, Unsited, Disallowed, Redirected, tables, remote
<1>14. CertInv'
  BY <1>0, <1>1, <1>2, <1>3, <1>8, QuietCert
  DEF Begins, Uncerted, Unrecorded, Unsited, Disallowed, Certified, Decerting, tables, remote
<1>15. RunInv'
  <2> USE DEF Soiled, Before
  <2>1. /\ enabled' = enabled /\ dirty \subseteq dirty' /\ contested \subseteq contested'
        /\ \A u \in Workers \ {w} : op'[u] = op[u] /\ pc'[u] = pc[u]
    BY <1>1, <1>3 DEF tables, Frame
  <2>2. Alone'
    <3> SUFFICES ASSUME NEW u \in Workers, NEW v \in Workers, u # v, op'[u] # NULL, op'[v] # NULL,
                        op'[u].board = op'[v].board
                 PROVE  op'[u].board \in dirty' /\ op'[u].dns \in dirty'
      BY DEF Alone
    <3>1. CASE u = w
      BY <1>2, <1>6, <2>1, <3>1
    <3>2. CASE v = w
      BY <1>2, <1>6, <2>1, <3>2
    <3>3. CASE u # w /\ v # w
      BY <1>0, <2>1, <3>3 DEF RunInv, Alone
    <3> QED
      BY <3>1, <3>2, <3>3
  <2>3. NewName'
    <3> SUFFICES ASSUME NEW u \in Workers, Before(u)'
                 PROVE  /\ \A e \in enabled : e.dns = op'[u].dns => e.dns \in dirty'
                        /\ \A v \in Workers : v # u /\ Before(v)' /\ op'[v].dns = op'[u].dns =>
                             op'[u].dns \in dirty'
      BY <2>1 DEF NewName
    <3>1. CASE u = w
      BY <1>2, <1>7, <2>1, <3>1 DEF StartsAs
    <3>2. CASE u # w
      BY <1>0, <1>2, <1>7, <2>1, <3>2 DEF RunInv, NewName
    <3> QED
      BY <3>1, <3>2
  <2>4. RowIsOwn'
    <3>1. l # "is_enabled" => \A e \in enabled : e.board = o.board => e.dns = o.dns /\ o.kind # "enable"
      BY DEF StartsAs, RowOf, EnabledOn
    <3> QED
      BY <1>0, <1>2, <2>1, <3>1 DEF RunInv, RowIsOwn
  <2>5. HasRow'
    <3>1. o.kind = "enable" => l \in Unsaved
      BY DEF StartsAs, Unsaved
    <3>2. o.kind # "enable" =>
            \E e \in enabled :
              /\ e.board = o.board /\ e.dns = o.dns
              /\ o.kind \in {"enable", "disable"} => e.http = o.http /\ e.https = o.https
      BY DEF StartsAs, RowOf, EnabledOn
    <3> QED
      BY <1>0, <1>2, <2>1, <3>1, <3>2 DEF RunInv, HasRow
  <2>6. OneRow' /\ OneBoard'
    BY <1>0, <2>1 DEF RunInv, OneRow, OneBoard
  <2>7. CheckedName'
    <3> SUFFICES ASSUME NEW u \in Workers, Before(u)'
                 PROVE  /\ \A e \in enabled : e.dns = op'[u].dns => e.dns \in contested'
                        /\ \A v \in Workers : v # u /\ Before(v)' /\ op'[v].dns = op'[u].dns =>
                             op'[u].dns \in contested'
      BY <2>1 DEF CheckedName
    <3>1. CASE u = w
      BY <1>2, <1>7, <2>1, <3>1 DEF StartsAs
    <3>2. CASE u # w
      BY <1>0, <1>2, <1>7, <2>1, <3>2 DEF RunInv, CheckedName
    <3> QED
      BY <3>1, <3>2
  <2>8. UniqueDns'
    BY <1>0, <2>1 DEF RunInv, UniqueDns
  <2> QED
    BY <2>2, <2>3, <2>4, <2>5, <2>6, <2>7, <2>8 DEF RunInv
<1>16. PortInv'
  <2>1. Held0(w)
    BY <1>2 DEF Held0, StartsAs
  <2> QED
    BY <1>0, <1>1, <1>3, <2>1, QuietPort DEF Typed, tables
<1>17. WebInv'
  <2>1. /\ webs' = webs /\ enabled' = enabled /\ dirty \subseteq dirty' /\ orphan \subseteq orphan'
        /\ \A u \in Workers \ {w} : op'[u] = op[u] /\ pc'[u] = pc[u]
    BY <1>1, <1>3 DEF tables, Frame
  <2>2. WebHasRow' /\ OneWeb'
    BY <1>0, <2>1 DEF WebInv, WebHasRow, OneWeb, Orphaned
  <2>3. FreshName'
    BY <1>0, <1>2, <2>1 DEF WebInv, FreshName, StartsAs, WebsOn
  <2>4. NamesRead'
    BY <1>0, <1>2, <2>1 DEF WebInv, NamesRead, StartsAs, WebsOn
  <2>5. WebToGo'
    BY <1>0, <1>2, <2>1 DEF WebInv, WebToGo, StartsAs
  <2>6. WebIsGone' /\ NewBoard'
    BY <1>0, <1>2, <1>8, <2>1 DEF WebInv, WebIsGone, NewBoard, Orphaned
  <2> QED
    BY <2>2, <2>3, <2>4, <2>5, <2>6 DEF WebInv
<1> QED
  BY <1>4, <1>9, <1>10, <1>11, <1>12, <1>13, <1>14, <1>15, <1>16, <1>17 DEF IInv

(* enable_webservice: the name is looked up in the rows. *)
LEMMA EnableWebserviceKeeps ==
  ASSUME IInv, NEW w \in Workers, NEW b \in Boards, NEW d \in Dns, EnableWebservice(w, b, d)
  PROVE  IInv'
<1> DEFINE o == [Blank EXCEPT !.kind = "enable", !.board = b, !.dns = d]
<1>3. /\ o \in Operations
      /\ o.kind = "enable" /\ o.dns = d /\ o.http = NULL /\ o.https = NULL
  BY DEF Blank, Operations
<1>4. Start(w, o, "is_enabled") /\ "is_enabled" \in Labels
  BY DEF EnableWebservice, Labels, Enabling, Disabling, Exposing, Unexposing
<1> HIDE DEF o
<1>5. StartsAs(o, "is_enabled")
  BY <1>3 DEF StartsAs, RowOf, WebsOn, EnableWebservice
<1> QED
  BY <1>3, <1>4, <1>5, StartKeeps

(* disable_webservice: name and ports are those of the row. *)
LEMMA DisableWebserviceKeeps ==
  ASSUME IInv, NEW w \in Workers, NEW b \in Boards, NEW online \in BOOLEAN,
         DisableWebservice(w, b, online)
  PROVE  IInv'
<1>1. PICK e \in enabled :
        /\ EnabledOn(b) = {e}
        /\ Start(w, [Blank EXCEPT !.kind = "disable", !.board = b, !.dns = e.dns,
                      !.http = e.http, !.https = e.https, !.online = online], "stop_http")
  BY DEF DisableWebservice
<1>2. e.dns \in Dns /\ e.http \in Ports /\ e.https \in Ports
  BY DEF IInv, Typed, TypeOK
<1> DEFINE o == [Blank EXCEPT !.kind = "disable", !.board = b, !.dns = e.dns,
                      !.http = e.http, !.https = e.https, !.online = online]
<1>3. /\ o \in Operations
      /\ o.kind = "disable" /\ o.board = b /\ o.dns = e.dns
      /\ o.http = e.http /\ o.https = e.https
  BY <1>2 DEF Blank, Operations
<1>4. Start(w, o, "stop_http") /\ "stop_http" \in Labels
  BY <1>1 DEF DisableWebservice, Labels, Enabling, Disabling, Exposing, Unexposing
<1> HIDE DEF o
<1>5. StartsAs(o, "stop_http")
  BY <1>1, <1>3 DEF StartsAs, RowOf, WebsOn
<1> QED
  BY <1>3, <1>4, <1>5, StartKeeps

(* create_webservice: the name is none of the names read. *)
LEMMA CreateWebserviceKeeps ==
  ASSUME IInv, NEW w \in Workers, NEW b \in Boards, NEW n \in Names, NEW p \in LocalPorts,
         CreateWebservice(w, b, n, p)
  PROVE  IInv'
<1>1. PICK e \in enabled :
        /\ EnabledOn(b) = {e}
        /\ \A v \in WebsOn(b) : v[2] # n
        /\ Start(w, [Blank EXCEPT !.kind = "expose", !.board = b, !.dns = e.dns, !.name = n,
                      !.lport = p, !.names = {v[2] : v \in WebsOn(b)}], "name_record")
  BY DEF CreateWebservice
<1>2. e.dns \in Dns /\ {v[2] : v \in WebsOn(b)} \subseteq Names
  BY DEF IInv, Typed, TypeOK, WebsOn
<1> DEFINE N == {v[2] : v \in WebsOn(b)}
<1>6. N \in SUBSET Names
  BY <1>2
<1> HIDE DEF N
<1> DEFINE o == [Blank EXCEPT !.kind = "expose", !.board = b, !.dns = e.dns, !.name = n,
                      !.lport = p, !.names = N]
<1>3. /\ o \in Operations
      /\ o.kind = "expose" /\ o.board = b /\ o.dns = e.dns
      /\ o.name = n /\ o.lport = p /\ o.names = N
  BY <1>2, <1>6 DEF Blank, Operations
<1>4. Start(w, o, "name_record") /\ "name_record" \in Labels
  BY <1>1 DEF N, Labels, Enabling, Disabling, Exposing, Unexposing
<1> HIDE DEF o
<1>5. StartsAs(o, "name_record")
  BY <1>1, <1>3 DEF StartsAs, RowOf, WebsOn, N
<1> QED
  BY <1>3, <1>4, <1>5, StartKeeps

(* destroy_webservice: the row is there when the operation starts. *)
LEMMA DestroyWebserviceKeeps ==
  ASSUME IInv, NEW w \in Workers, NEW v \in webs, NEW online \in BOOLEAN,
         DestroyWebservice(w, v, online)
  PROVE  IInv'
<1>1. PICK e \in enabled :
        /\ EnabledOn(v[1]) = {e}
        /\ Start(w, [Blank EXCEPT !.kind = "unexpose", !.board = v[1], !.dns = e.dns,
                      !.name = v[2], !.lport = v[3], !.online = online],
                 IF online THEN "decertify" ELSE "drop_web")
  BY DEF DestroyWebservice
<1>2. /\ e.dns \in Dns /\ v[1] \in Boards /\ v[2] \in Names /\ v[3] \in LocalPorts
      /\ <<v[1], v[2], v[3]>> \in webs
  BY DEF IInv, Typed, TypeOK
<1> DEFINE o == [Blank EXCEPT !.kind = "unexpose", !.board = v[1], !.dns = e.dns,
                      !.name = v[2], !.lport = v[3], !.online = online]
<1>3. /\ o \in Operations
      /\ o.kind = "unexpose" /\ o.board = v[1] /\ o.dns = e.dns
      /\ o.name = v[2] /\ o.lport = v[3]
  BY <1>2 DEF Blank, Operations
<1>4. \E l \in Labels : Start(w, o, l) /\ l \in {"decertify", "drop_web"}
  BY <1>1 DEF DestroyWebservice, Labels, Enabling, Disabling, Exposing, Unexposing
<1> HIDE DEF o
<1>5. \A l \in {"decertify", "drop_web"} : StartsAs(o, l)
  BY <1>1, <1>2, <1>3 DEF StartsAs, RowOf, WebsOn
<1> QED
  BY <1>3, <1>4, <1>5, StartKeeps

-----------------------------------------------------------------------------
(* In the initial state no board has a row and nobody works. *)
LEMMA InitKeeps ==
  ASSUME Init
  PROVE  IInv
<1>1. Typed
  BY WebAssumption DEF Init, Typed, TypeOK, Filled, FilledAt, Does, In, Labels, Hosts
<1>2. RunInv
  BY DEF Init, RunInv, Alone, NewName, RowIsOwn, HasRow, OneRow, OneBoard,
     CheckedName, UniqueDns, Runs, Before, In
<1>3. RecordInv
  BY DEF Init, RecordInv, RecordMade, RecordOfRow, NoRecord, RecordOwned, In, Hosts
<1>4. SiteInv /\ ServeInv
  BY DEF Init, SiteInv, TextIsSite, SiteOfRow, ServeInv, HttpOfRow, HttpsOfRow,
     RowOfServed, Stopped, AllowOfRow, Runs, In
<1>5. PortInv
  BY DEF Init, PortInv, FreeHeld, FreeServed, FreeRow, HeldHeld, HeldServed, HeldRow,
     ServedRow, Holds, Does
<1>6. WebInv
  BY DEF Init, WebInv, WebHasRow, OneWeb, FreshName, NamesRead, WebToGo, WebIsGone,
     NewBoard, In, Does
<1>7. NameInv
  BY DEF Init, NameInv, NameOwned, NameMade, WebRecord, In, Hosts
<1>8. RedirectInv /\ CertInv
  BY DEF Init, RedirectInv, WebRedirect, RedirectMade, CertInv, WebCert, CertMade, In
<1> QED
  BY <1>1, <1>2, <1>3, <1>4, <1>5, <1>6, <1>7, <1>8 DEF IInv

(* A step of an operation. *)
LEMMA StepKeeps ==
  ASSUME IInv, NEW w \in Workers, Step(w)
  PROVE  IInv'
BY IsEnabledKeeps, CreateRecordKeeps, LookupKeeps, RandomPortsKeeps, NotEnoughPortKeeps,
   SaveEnabledKeeps, AllowKeeps, ServeKeeps, WriteProxyKeeps, ConfigureKeeps, ReadSiteKeeps,
   WriteSiteKeeps, StopHttpKeeps, StopHttpsKeeps, DropHttpsKeeps, UnconfigureKeeps,
   DeleteRecordKeeps, RemoveProxyKeeps, DisallowKeeps, DropEnabledKeeps, CreateNameKeeps,
   CertifyKeeps, SaveWebserviceKeeps, DecertifyKeeps, DropWebserviceKeeps, DeleteNameKeeps,
   RaiseKeeps
DEF Step

(* A call of the API. *)
LEMMA CallKeeps ==
  ASSUME IInv, NEW w \in Workers, Call(w)
  PROVE  IInv'
BY EnableWebserviceKeeps, DisableWebserviceKeeps, CreateWebserviceKeeps, DestroyWebserviceKeeps
DEF Call, PutEnable, PutDisable, PutWebservice, DeleteWebservice

(* Nothing changes. *)
LEMMA StutterKeeps ==
  ASSUME IInv, UNCHANGED vars
  PROVE  IInv'
<1> USE DEF vars, tables, remote, ghosts, Runs, Does, In, Soiled, Before, AtName, AtBoard, AtWeb, AtHost
<1>1. Typed'
  BY DEF IInv, Typed, TypeOK, Filled, FilledAt
<1>2. RunInv'
  BY DEF IInv, RunInv, Alone, NewName, RowIsOwn, HasRow, OneRow, OneBoard, CheckedName, UniqueDns
<1>3. RecordInv'
  BY DEF IInv, RecordInv, RecordMade, RecordOfRow, NoRecord, RecordOwned
<1>4. SiteInv'
  BY DEF IInv, SiteInv, TextIsSite, SiteOfRow, SiteAt
<1>5. ServeInv'
  BY DEF IInv, ServeInv, HttpOfRow, HttpsOfRow, RowOfServed, Stopped, AllowOfRow
<1>6. PortInv'
  BY DEF IInv, PortInv, FreeHeld, FreeServed, FreeRow, HeldHeld, HeldServed, HeldRow,
     ServedRow, Holds, Leaving, Left, Dropping
<1>7. WebInv'
  BY DEF IInv, WebInv, WebHasRow, OneWeb, FreshName, NamesRead, WebToGo, WebIsGone,
     NewBoard, Orphaned
<1>8. NameInv'
  BY DEF IInv, NameInv, NameOwned, NameMade, WebRecord, Excused, Orphaned, OrphanName
<1>9. RedirectInv'
  BY DEF IInv, RedirectInv, WebRedirect, RedirectMade, Excused, Orphaned, OrphanName, SiteAt
<1>10. CertInv'
  BY DEF IInv, CertInv, WebCert, CertMade, Excused, Orphaned, OrphanName
<1> QED
  BY <1>1, <1>2, <1>3, <1>4, <1>5, <1>6, <1>7, <1>8, <1>9, <1>10 DEF IInv

(* The strengthened invariant holds in every state.                         *)
THEOREM Inductive == Spec => []IInv
<1>1. Init => IInv
  BY InitKeeps
<1>2. IInv /\ [Next]_vars => IInv'
  BY StepKeeps, CallKeeps, StutterKeeps DEF Next
<1> QED
  BY <1>1, <1>2, PTL DEF Spec

-----------------------------------------------------------------------------
(* Every variable has its type: whatever raises or dies, an idle worker has *)
(* no operation and a working one has one.                                  *)
THEOREM TypeCorrect == Spec => []TypeOK
<1>1. IInv => TypeOK
  BY DEF IInv, Typed
<1> QED
  BY <1>1, Inductive, PTL

(* Two rows have one DNS name only if an operation began to enable it while *)
(* another one had looked it up and not saved its row, whatever fails.      *)
THEOREM NamesAreUnique == Spec => []UniqueDns
<1>1. IInv => UniqueDns
  BY DEF IInv, RunInv
<1> QED
  BY <1>1, Inductive, PTL

(* A name resolves only while a board has it or is getting or losing it:    *)
(* the order of the disabling, records before rows, and the rows of         *)
(* checkDnsAvailable keep the DNS server true to the table.                 *)
THEOREM RecordsAreOwned == Spec => []RecordIsEnabled
<1>1. IInv => RecordIsEnabled
  BY DEF IInv, RecordInv, RecordOwned, RecordIsEnabled, AtName, In, Working
<1> QED
  BY <1>1, Inductive, PTL

(* The name of a webservice resolves only while the webservice exists, is   *)
(* being exposed or removed, or the module was disabled under it.           *)
THEOREM NamesAreOwned == Spec => []NameHasWebservice
<1>1. IInv => NameHasWebservice
  <2> SUFFICES ASSUME IInv, NEW n \in Names, NEW d \in Dns \ dirty, record[<<n, d>>] # NULL
               PROVE  \/ \E e \in enabled, v \in webs : v[1] = e.board /\ v[2] = n /\ e.dns = d
                      \/ \E w \in Workers : op[w] # NULL /\ op[w].dns = d /\ op[w].name = n
                      \/ \E b \in Boards : <<b, n, d>> \in orphan
    BY DEF NameHasWebservice
  <2>1. \A o \in orphan : o[1] \in Boards /\ o = <<o[1], o[2], o[3]>>
    BY DEF IInv, Typed, TypeOK
  <2>2. OrphanName(n, d) => \E b \in Boards : <<b, n, d>> \in orphan
    BY <2>1 DEF OrphanName
  <2> QED
    BY <2>2 DEF IInv, NameInv, NameOwned, AtHost, In
<1> QED
  BY <1>1, Inductive, PTL

(* No operation is at a place under the name of a settled row: on its board *)
(* nobody works, and on another board the name would have met the row's.    *)
LEMMA SettledAlone ==
  ASSUME IInv, NEW e \in enabled, Settled(e.board, e.dns)
  PROVE  /\ e.board \notin dirty /\ e.dns \notin dirty
         /\ \A k, places : ~AtName(e.dns, k, places) /\ ~AtBoard(e.board, k, places)
         /\ \A k, places, n : ~AtWeb(e.board, n, k, places)
<1>1. e.board \notin dirty /\ e.dns \notin dirty
      /\ \A w \in Workers : op[w] # NULL => op[w].board # e.board
  BY DEF Settled, Running
<1>2. \A w \in Workers : op[w] # NULL => op[w].dns # e.dns
  BY <1>1, RowElsewhere DEF IInv
<1> QED
  BY <1>1, <1>2 DEF AtName, AtBoard, AtWeb, In

(* A board whose module is enabled and on which nobody works can be reached *)
(* under its name: record, site, exposed services and allow list agree with *)
(* its row, unless a fault or a meeting of two operations touched it.       *)
THEOREM EnabledAreServed == Spec => []EnabledIsServed
<1>1. IInv => EnabledIsServed
  <2> SUFFICES ASSUME IInv, NEW e \in enabled, Settled(e.board, e.dns)
               PROVE  /\ record[<<NULL, e.dns>>] = AgentOf[e.board]
                      /\ SiteAt(e.board, e.dns) # NULL
                      /\ SiteAt(e.board, e.dns).http = e.http
                      /\ SiteAt(e.board, e.dns).https = e.https
                      /\ Served(e.board, "http") = {<<e.board, "http", e.http>>}
                      /\ Served(e.board, "https") = {<<e.board, "https", e.https>>}
                      /\ {<<e.board, e.http>>, <<e.board, e.https>>} \subseteq allow
    BY DEF EnabledIsServed, SiteAt
  <2>1. /\ e.board \notin dirty /\ e.dns \notin dirty
        /\ \A k, places : ~AtName(e.dns, k, places)
    BY SettledAlone
  <2>2. record[<<NULL, e.dns>>] = AgentOf[e.board]
    BY <2>1 DEF IInv, RecordInv, RecordOfRow
  <2>3. /\ SiteAt(e.board, e.dns) # NULL
        /\ SiteAt(e.board, e.dns).http = e.http /\ SiteAt(e.board, e.dns).https = e.https
    BY <2>1 DEF IInv, SiteInv, SiteOfRow
  <2>4. /\ <<e.board, "http", e.http>> \in exposed /\ <<e.board, "https", e.https>> \in exposed
        /\ <<e.board, e.http>> \in allow /\ <<e.board, e.https>> \in allow
    BY <2>1 DEF IInv, ServeInv, HttpOfRow, HttpsOfRow, AllowOfRow
  <2>5. ASSUME NEW x \in exposed, x[1] = e.board
        PROVE  x = <<e.board, x[2], PortOf(e, x[2])>>
    <3>1. PICK f \in enabled : f.board = e.board /\ x[3] = PortOf(f, x[2])
      BY <2>1, <2>5 DEF IInv, ServeInv, RowOfServed
    <3>2. f = e
      BY <2>1, <3>1 DEF IInv, RunInv, OneRow, Soiled
    <3> QED
      BY <2>5, <3>1, <3>2 DEF IInv, Typed, TypeOK
  <2>6. /\ Served(e.board, "http") = {<<e.board, "http", e.http>>}
        /\ Served(e.board, "https") = {<<e.board, "https", e.https>>}
    BY <2>4, <2>5 DEF Served, PortOf
  <2> QED
    BY <2>2, <2>3, <2>4, <2>6
<1> QED
  BY <1>1, Inductive, PTL

(* Whoever follows a name reaches the board that has it: the site it        *)
(* resolves to forwards to no port the same agent serves for another board, *)
(* unless the name's site is not written yet, or a disable has handed back  *)
(* its first port and not deleted its record; a port in use has come back   *)
(* to the list; or a failure or a meeting of operations touched them.       *)
THEOREM NothingMisroutes == Spec => []NoMisroute
<1>1. IInv => NoMisroute
  <2> SUFFICES ASSUME IInv, NEW d \in Dns \ dirty, NEW a \in Agents,
                      record[<<NULL, d>>] = a, site[a][d] # NULL, ~Changing(d), ~reused,
                      NEW x \in exposed,
                      x[3] \in {site[a][d].http, site[a][d].https}, AgentOf[x[1]] = a
               PROVE  \/ x[1] \in dirty
                      \/ \E w \in Workers : At(w, "drop_https") /\ op[w].board = x[1]
                      \/ \E e \in enabled : e.board = x[1] /\ e.dns = d
    BY DEF NoMisroute
  <2>1. ~AtName(d, "enable", Recorded) /\ ~AtName(d, "enable", ToSite)
    BY DEF Changing, AtName, In, Recorded, ToSite
  <2>2. ~AtName(d, "disable", Unrecorded)
    BY WebAssumption DEF IInv, RecordInv, NoRecord, AtName, In
  <2>3. ~AtName(d, "disable", Unsited) /\ ~AtName(d, "disable", HttpGone)
    BY <2>2 DEF Changing, AtName, In, HttpGone, HttpsGone, Uncerted, Unrecorded
  <2>4. PICK e \in enabled : e.dns = d
    BY <2>1, WebAssumption DEF IInv, RecordInv, RecordOwned
  <2>5. AgentOf[e.board] = a
    BY <2>2, <2>4 DEF IInv, RecordInv, RecordOfRow
  <2>6. x[3] \in PortsOf(e)
    BY <2>1, <2>3, <2>4, <2>5 DEF IInv, SiteInv, SiteOfRow, SiteAt, PortsOf
  <2>7. ~Leaving(e)
    BY <2>3, <2>4 DEF Leaving
  <2>8. x[1] # e.board => Left(x)
    BY <2>6, <2>7 DEF IInv, PortInv, ServedRow
  <2> QED
    BY <2>4, <2>8 DEF Left, Dropping, AtBoard, In, At
<1> QED
  BY <1>1, Inductive, PTL

(* An exposed webservice of a board nobody works on can be reached under    *)
(* its name: record, redirect and certificate have it.                      *)
THEOREM WebservicesAreServed == Spec => []WebserviceIsServed
<1>1. IInv => WebserviceIsServed
  <2> SUFFICES ASSUME IInv, NEW v \in webs, NEW e \in enabled,
                      v[1] = e.board, Settled(e.board, e.dns),
                      \A o \in orphan : o[2] = v[2] => o[1] # v[1] /\ o[3] # e.dns
               PROVE  /\ record[<<v[2], e.dns>>] = AgentOf[e.board]
                      /\ SiteAt(e.board, e.dns) # NULL
                      /\ v[2] \in SiteAt(e.board, e.dns).redirects
                      /\ v[2] \in cert[e.board]
    BY DEF WebserviceIsServed, SiteAt
  <2>1. /\ e.board \notin dirty /\ e.dns \notin dirty
        /\ \A k, places : ~AtBoard(e.board, k, places)
        /\ \A k, places, n : ~AtWeb(e.board, n, k, places)
    BY SettledAlone
  <2>2. ~Excused(v, e)
    BY <2>1 DEF Excused, Orphaned, OrphanName
  <2>3. record[<<v[2], e.dns>>] = AgentOf[e.board]
    BY <2>2 DEF IInv, NameInv, WebRecord
  <2>4. SiteAt(e.board, e.dns) # NULL /\ v[2] \in SiteAt(e.board, e.dns).redirects
    BY <2>1, <2>2 DEF IInv, RedirectInv, WebRedirect
  <2>5. v[2] \in cert[e.board]
    BY <2>1, <2>2 DEF IInv, CertInv, WebCert
  <2> QED
    BY <2>3, <2>4, <2>5
<1> QED
  BY <1>1, Inductive, PTL
===============================================================================
