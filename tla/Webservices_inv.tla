--------------------------- MODULE Webservices_inv ---------------------------
(***************************************************************************)
(* The inductive invariant of Webservices. An operation writes to the      *)
(* database, the DNS server, the proxy, the allow list and the board one   *)
(* after the other, and its place tells which of them agree already or do  *)
(* not agree any more. The parts of the invariant say, for each of them,   *)
(* that it agrees with the row unless the operation is before the step     *)
(* that writes it or after the one that takes it back, and that what it    *)
(* holds has a row or such an operation. Boards and names in `dirty` are   *)
(* excused throughout.                                                     *)
(***************************************************************************)
EXTENDS Webservices

(* Every place of a worker; whether it runs, and what, and where. *)
Labels == {"idle"} \cup Enabling \cup Disabling \cup Exposing \cup Unexposing \cup Redirecting

Runs(w)          == op[w] # NULL
Does(w, k)       == op[w] # NULL /\ op[w].kind = k
In(w, k, places) == op[w] # NULL /\ op[w].kind = k /\ pc[w] \in places

(* Both are excused. *)
Soiled(b, d) == b \in dirty /\ d \in dirty

(* An operation that enables a name and has not saved its row yet. *)
Undrawn   == {"is_enabled", "record", "lookup"}
Unsaved   == {"is_enabled", "record", "lookup", "save"}
Before(w) == In(w, "enable", Unsaved)

(* The name, the board or the webservice of an operation that is there. *)
AtName(d, k, places)   == \E w \in Workers : In(w, k, places) /\ op[w].dns = d
AtBoard(b, k, places)  == \E w \in Workers : In(w, k, places) /\ op[w].board = b
AtWeb(b, n, k, places) == \E w \in Workers : In(w, k, places) /\ op[w].board = b /\ op[w].name = n
AtHost(n, d, k, places) == \E w \in Workers : In(w, k, places) /\ op[w].dns = d /\ op[w].name = n

(* Enabling: what has been done, and what is still to come. *)
Checked      == Enabling \ {"is_enabled"}
Recorded     == {"lookup", "save"}
ToAllowHttp  == {"allow_http"}
ToAllowHttps == {"allow_http", "allow_https"}
ToServeHttp  == {"allow_http", "allow_https", "serve_http"}
ToServeHttps == {"allow_http", "allow_https", "serve_http", "serve_https"}
ToSite       == {"allow_http", "allow_https", "serve_http", "serve_https", "proxy"}

(* Disabling: what is gone already, each with what went before it. *)
Disallowed == {"disallow_https", "drop"}
Unsited    == {"disallow_http"} \cup Disallowed
Unrecorded == {"unproxy"} \cup Unsited
Uncerted   == {"unrecord"} \cup Unrecorded
HttpsGone  == {"unconfigure"} \cup Uncerted
HttpGone   == {"stop_https", "drop_https"} \cup HttpsGone

(* Exposing and removing a webservice. *)
Named      == {"certify", "read_site", "write_site", "save_web"}
Certified  == {"read_site", "write_site", "save_web"}
Redirected == {"save_web"}
WebThere   == {"decertify", "read_site", "write_site", "drop_web"}
Decerting  == {"read_site", "write_site", "drop_web"}

(* An operation is where its kind can be, and has read what it needs there. *)
FilledAt(w) ==
  /\ pc[w] = "idle" <=> op[w] = NULL
  /\ Does(w, "enable") => pc[w] \in Enabling \cup Redirecting
  /\ Does(w, "disable") => pc[w] \in Disabling
  /\ Does(w, "expose") => pc[w] \in Exposing \cup Redirecting
  /\ Does(w, "unexpose") => pc[w] \in Unexposing \cup Redirecting
  /\ In(w, "enable", Undrawn) => op[w].http = NULL /\ op[w].https = NULL
  /\ Does(w, "disable") \/ (Does(w, "enable") /\ pc[w] \notin Undrawn)
       => op[w].http \in Ports /\ op[w].https \in Ports
  /\ Does(w, "expose") \/ Does(w, "unexpose") => op[w].name \in Names /\ op[w].lport \in LocalPorts
  /\ pc[w] = "write_site" => op[w].text \in Sites
Filled == \A w \in Workers : FilledAt(w)

Typed == TypeOK /\ Filled

-----------------------------------------------------------------------------
(* Operations and rows. *)

(* Two operations on one board are known to have met. *)
Alone ==
  \A w, u \in Workers : w # u /\ Runs(w) /\ Runs(u) /\ op[w].board = op[u].board =>
    Soiled(op[w].board, op[w].dns)

(* A name being enabled has no row yet, and is being enabled once. *)
NewName ==
  \A w \in Workers : Before(w) =>
    /\ \A e \in enabled : e.dns = op[w].dns => e.dns \in dirty
    /\ \A u \in Workers : u # w /\ Before(u) /\ op[u].dns = op[w].dns => op[w].dns \in dirty

(* The row of a board that an operation works on has its name. *)
RowIsOwn ==
  \A w \in Workers : Runs(w) /\ pc[w] # "is_enabled" =>
    \A e \in enabled : e.board = op[w].board =>
      \/ Soiled(e.board, e.dns) /\ op[w].dns \in dirty
      \/ ~Before(w) /\ e.dns = op[w].dns

(* An operation past the saving has the row, and knows its ports. *)
HasRow ==
  \A w \in Workers : Runs(w) /\ ~Before(w) =>
    \/ Soiled(op[w].board, op[w].dns)
    \/ \E e \in enabled :
         /\ e.board = op[w].board /\ e.dns = op[w].dns
         /\ op[w].kind \in {"enable", "disable"} => e.http = op[w].http /\ e.https = op[w].https

OneRow ==
  \A e, f \in enabled : e # f /\ e.board = f.board => Soiled(e.board, e.dns)

(* A name has one board, unless two operations enabled it at once. *)
OneBoard ==
  \A e, f \in enabled : e # f /\ e.dns = f.dns => e.dns \in dirty

(* The same of NewName, with the meetings alone: no failure has a part in it. *)
CheckedName ==
  \A w \in Workers : Before(w) =>
    /\ \A e \in enabled : e.dns = op[w].dns => e.dns \in contested
    /\ \A u \in Workers : u # w /\ Before(u) /\ op[u].dns = op[w].dns => op[w].dns \in contested

RunInv ==
  /\ Alone /\ NewName /\ RowIsOwn /\ HasRow /\ OneRow /\ OneBoard
  /\ CheckedName /\ UniqueDns

-----------------------------------------------------------------------------
(* The record of a board's name. *)

RecordMade ==
  \A w \in Workers : In(w, "enable", Recorded) =>
    op[w].dns \in dirty \/ record[<<NULL, op[w].dns>>] = AgentOf[op[w].board]
RecordOfRow ==
  \A e \in enabled :
    \/ e.dns \in dirty \/ AtName(e.dns, "disable", Unrecorded)
    \/ record[<<NULL, e.dns>>] = AgentOf[e.board]
NoRecord ==
  \A w \in Workers : In(w, "disable", Unrecorded) =>
    op[w].dns \in dirty \/ record[<<NULL, op[w].dns>>] = NULL
RecordOwned ==
  \A d \in Dns : record[<<NULL, d>>] # NULL =>
    d \in dirty \/ AtName(d, "enable", Recorded) \/ \E e \in enabled : e.dns = d

RecordInv == RecordMade /\ RecordOfRow /\ NoRecord /\ RecordOwned

(* The site of a board's name on its agent. *)
SiteAt(b, d) == site[AgentOf[b]][d]

TextIsSite ==
  \A w \in Workers : Runs(w) /\ pc[w] = "write_site" =>
    op[w].dns \in dirty \/ op[w].text = SiteAt(op[w].board, op[w].dns)
SiteOfRow ==
  \A e \in enabled :
    \/ e.dns \in dirty \/ AtName(e.dns, "disable", Unsited) \/ AtName(e.dns, "enable", ToSite)
    \/ /\ SiteAt(e.board, e.dns) # NULL
       /\ SiteAt(e.board, e.dns).http = e.http /\ SiteAt(e.board, e.dns).https = e.https

SiteInv == TextIsSite /\ SiteOfRow

-----------------------------------------------------------------------------
(* The exposed services and the allow list of a row. *)

PortOf(e, k) == IF k = "http" THEN e.http ELSE e.https

HttpOfRow ==
  \A e \in enabled :
    \/ e.dns \in dirty \/ AtName(e.dns, "disable", HttpGone) \/ AtName(e.dns, "enable", ToServeHttp)
    \/ <<e.board, "http", e.http>> \in exposed
HttpsOfRow ==
  \A e \in enabled :
    \/ e.dns \in dirty \/ AtName(e.dns, "disable", HttpsGone) \/ AtName(e.dns, "enable", ToServeHttps)
    \/ <<e.board, "https", e.https>> \in exposed
RowOfServed ==
  \A x \in exposed : x[1] \in dirty \/ \E e \in enabled : e.board = x[1] /\ x[3] = PortOf(e, x[2])
Stopped ==
  \A w \in Workers, x \in exposed : Does(w, "disable") /\ x[1] = op[w].board =>
    \/ x[1] \in dirty
    \/ /\ ~(In(w, "disable", HttpGone) /\ x[2] = "http")
       /\ ~(In(w, "disable", HttpsGone) /\ x[2] = "https")
AllowOfRow ==
  \A e \in enabled :
    \/ e.dns \in dirty \/ AtName(e.dns, "disable", Disallowed)
    \/ /\ AtName(e.dns, "enable", ToAllowHttp) \/ <<e.board, e.http>> \in allow
       /\ AtName(e.dns, "enable", ToAllowHttps) \/ <<e.board, e.https>> \in allow

ServeInv == HttpOfRow /\ HttpsOfRow /\ RowOfServed /\ Stopped /\ AllowOfRow

-----------------------------------------------------------------------------
(* A public port is in the list, held by an operation, in a row or served,  *)
(* and of one board: unless one that was taken has come to the list.        *)

Holds(w, p) == Does(w, "enable") /\ p \in {op[w].http, op[w].https}
Dropping(x) == x[2] = "https" /\ AtBoard(x[1], "disable", {"drop_https"})
PortsOf(e)  == {e.http, e.https}
Leaving(e)  == e.dns \in dirty \/ AtName(e.dns, "disable", HttpGone)
Left(x)     == x[1] \in dirty \/ Dropping(x)

FreeHeld   == \A w \in Workers : \A p \in free : Holds(w, p) => Soiled(op[w].board, op[w].dns)
FreeServed == \A x \in exposed : x[3] \in free => Left(x)
FreeRow    == \A e \in enabled : PortsOf(e) \cap free # {} => Leaving(e)
HeldHeld ==
  \A w, u \in Workers : \A p \in Ports : w # u /\ Holds(w, p) /\ Holds(u, p) =>
    Soiled(op[w].board, op[w].dns) \/ Soiled(op[u].board, op[u].dns)
HeldServed ==
  \A w \in Workers, x \in exposed : Holds(w, x[3]) /\ x[1] # op[w].board =>
    Soiled(op[w].board, op[w].dns) \/ Left(x)
HeldRow ==
  \A w \in Workers, e \in enabled : \A p \in PortsOf(e) : Holds(w, p) /\ e.board # op[w].board =>
    Soiled(op[w].board, op[w].dns) \/ Leaving(e)
ServedRow ==
  \A x \in exposed, e \in enabled : x[3] \in PortsOf(e) /\ x[1] # e.board => Left(x) \/ Leaving(e)

PortInv ==
  ~reused => /\ FreeHeld /\ FreeServed /\ FreeRow
             /\ HeldHeld /\ HeldServed /\ HeldRow /\ ServedRow

-----------------------------------------------------------------------------
(* The webservices of a board. *)

Orphaned(b, n)   == \E o \in orphan : o[1] = b /\ o[2] = n
OrphanName(n, d) == \E o \in orphan : o[2] = n /\ o[3] = d

WebHasRow ==
  \A v \in webs : v[1] \in dirty \/ Orphaned(v[1], v[2]) \/ \E e \in enabled : e.board = v[1]
OneWeb == \A v, x \in webs : v # x /\ v[1] = x[1] /\ v[2] = x[2] => v[1] \in dirty
FreshName ==
  \A w \in Workers, v \in webs : Does(w, "expose") /\ v[1] = op[w].board =>
    v[1] \in dirty \/ v[2] # op[w].name
NamesRead ==
  \A w \in Workers, v \in webs : Does(w, "expose") /\ v[1] = op[w].board =>
    v[1] \in dirty \/ v[2] \in op[w].names
WebToGo ==
  \A w \in Workers : In(w, "unexpose", WebThere) =>
    op[w].board \in dirty \/ <<op[w].board, op[w].name, op[w].lport>> \in webs
WebIsGone ==
  \A w \in Workers, v \in webs : In(w, "unexpose", {"name_unrecord"}) /\ v[1] = op[w].board =>
    v[1] \in dirty \/ v[2] # op[w].name
NewBoard ==
  \A w \in Workers, v \in webs :
    In(w, "enable", Checked) /\ v[1] = op[w].board =>
      v[1] \in dirty \/ Orphaned(v[1], v[2])

WebInv == WebHasRow /\ OneWeb /\ FreshName /\ NamesRead /\ WebToGo /\ WebIsGone /\ NewBoard

(* Their names. *)
Excused(v, e) ==
  v[1] \in dirty \/ e.dns \in dirty \/ Orphaned(v[1], v[2]) \/ OrphanName(v[2], e.dns)

NameOwned ==
  \A n \in Names, d \in Dns : record[<<n, d>>] # NULL =>
    \/ d \in dirty \/ OrphanName(n, d)
    \/ \E e \in enabled, v \in webs : v[1] = e.board /\ v[2] = n /\ e.dns = d
    \/ AtHost(n, d, "expose", Named) \/ AtHost(n, d, "unexpose", {"name_unrecord"})
NameMade ==
  \A w \in Workers : In(w, "expose", Named) =>
    \/ op[w].board \in dirty \/ op[w].dns \in dirty \/ OrphanName(op[w].name, op[w].dns)
    \/ record[<<op[w].name, op[w].dns>>] = AgentOf[op[w].board]
WebRecord ==
  \A v \in webs, e \in enabled : v[1] = e.board =>
    Excused(v, e) \/ record[<<v[2], e.dns>>] = AgentOf[e.board]

NameInv == NameOwned /\ NameMade /\ WebRecord

(* Their redirects. *)
WebRedirect ==
  \A v \in webs, e \in enabled : v[1] = e.board =>
    \/ Excused(v, e) \/ AtWeb(v[1], v[2], "unexpose", {"drop_web"})
    \/ AtBoard(v[1], "disable", Unsited)
    \/ SiteAt(e.board, e.dns) # NULL /\ v[2] \in SiteAt(e.board, e.dns).redirects
RedirectMade ==
  \A w \in Workers : In(w, "expose", Redirected) =>
    \/ op[w].board \in dirty \/ op[w].dns \in dirty
    \/ /\ SiteAt(op[w].board, op[w].dns) # NULL
       /\ op[w].name \in SiteAt(op[w].board, op[w].dns).redirects

RedirectInv == WebRedirect /\ RedirectMade

(* Their certificates. *)
WebCert ==
  \A v \in webs, e \in enabled : v[1] = e.board =>
    \/ Excused(v, e) \/ AtWeb(v[1], v[2], "unexpose", Decerting)
    \/ AtBoard(v[1], "disable", Uncerted)
    \/ v[2] \in cert[e.board]
CertMade ==
  \A w \in Workers : In(w, "expose", Certified) /\ op[w].ok =>
    op[w].board \in dirty \/ op[w].name \in cert[op[w].board]

CertInv == WebCert /\ CertMade

-----------------------------------------------------------------------------
(* The inductive invariant. *)
IInv ==
  /\ Typed /\ RunInv /\ RecordInv /\ SiteInv /\ ServeInv /\ PortInv
  /\ WebInv /\ NameInv /\ RedirectInv /\ CertInv
==============================================================================
