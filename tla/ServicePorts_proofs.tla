------------------------- MODULE ServicePorts_proofs -------------------------
(***************************************************************************)
(* Who may claim a public port: IInv is an inductive invariant of          *)
(* ServicePorts for any boards, services, ports, threads and restarts. A   *)
(* port has one claim at most - a place in the list, a thread that has     *)
(* taken it, a row no thread is about to destroy - until the list is       *)
(* rebuilt with it while it is in use; and a board uses it for one thing   *)
(* at most, so that the entry a thread removes is nobody else's, until the *)
(* board takes a port that it uses.                                        *)
(***************************************************************************)
EXTENDS ServicePorts, FiniteSetTheorems, TLAPS

Holding == {"add_read", "add_write", "enable", "record"}
Keeping == {"enable", "record", "del_read", "del_write"}

(* The row a thread is about to write or to destroy. *)
Of(w)      == <<job[w][1], job[w][2], port[w]>>
Leaving(e) == \E w \in Workers : pc[w] = "destroy" /\ Of(w) = e

(* A thread knows what it works on, and no other works on the same.         *)
Place ==
  /\ \A w \in Workers :
       /\ pc[w] # "idle" => job[w] \in Jobs
       /\ pc[w] \in Holding \cup Disabling \cup {"take"} => port[w] \in Ports
  /\ \A w, u \in Workers : pc[w] # "idle" /\ pc[u] # "idle" /\ job[w] = job[u] => w = u

(* A service has one row at most; a thread that disables it has read it.    *)
RowOf ==
  /\ \A e, f \in exposed : e[1] = f[1] /\ e[2] = f[2] => e = f
  /\ \A w \in Workers :
       /\ pc[w] \in {"disable", "append", "destroy"} => Of(w) \in exposed
       /\ pc[w] \in Enabling \cup {"del_read", "del_write"} =>
            \A e \in exposed : job[w] # <<e[1], e[2]>>

(* A port has one claim at most. *)
Claims(p) ==
  /\ free[p] <= 1
  /\ \A w \in Workers : pc[w] \in Holding /\ port[w] = p => free[p] = 0
  /\ \A e \in exposed : e[3] = p => free[p] = 0 \/ Leaving(e)
  /\ \A e, f \in exposed : e[3] = p /\ f[3] = p => e = f \/ Leaving(e) \/ Leaving(f)
  /\ \A e \in exposed, w \in Workers : pc[w] \in Holding /\ port[w] = p /\ e[3] = p => Leaving(e)
  /\ \A w, u \in Workers :
       pc[w] \in Holding /\ pc[u] \in Holding /\ port[w] = p /\ port[u] = p => w = u

Claimed == \A p \in Ports \ reused : Claims(p)

(* Why an entry is in the allow list: AllowedIsExposed, with the threads    *)
(* that will see to it that the entry goes or gets its row.                 *)
Reasons ==
  \A n \in allow \ clobbered :
    \/ \E e \in exposed : n = <<e[1], e[3]>>
    \/ \E w \in Workers : pc[w] \in Keeping /\ n = Node(w)
    \/ n \in leftover

(* A board uses a port for one thing at a time, unless it took the port     *)
(* while it used it: what one thread removes no row and no thread needs.    *)
Using == Holding \cup {"del_read", "del_write"}

Uses(n) ==
  /\ \A e, f \in exposed : <<e[1], e[3]>> = n /\ <<f[1], f[3]>> = n => e = f
  /\ \A e \in exposed, w \in Workers : <<e[1], e[3]>> = n /\ Node(w) = n => pc[w] \notin Using
  /\ \A w, u \in Workers :
       pc[w] \in Using /\ pc[u] \in Using /\ Node(w) = n /\ Node(u) = n => w = u

UsedOnce == \A n \in Nodes \ retaken : Uses(n)

(* ExposedKeepsEntry, and the same of a thread that is past the allow list. *)
Allowed ==
  /\ \A e \in exposed : <<e[1], e[3]>> \in allow \cup clobbered \cup retaken
  /\ \A w \in Workers : pc[w] \in {"enable", "record"} =>
       Node(w) \in allow \cup clobbered \cup retaken

IInv ==
  /\ TypeOK
  /\ Place
  /\ RowOf
  /\ Claimed
  /\ Reasons
  /\ UsedOnce
  /\ Allowed

(* A step of one thread, which ends its operation or goes on with it.       *)
NeedsPort == Holding \cup Disabling \cup {"take"}

OwnStep(w) ==
  /\ \A u \in Workers \ {w} : pc'[u] = pc[u] /\ job'[u] = job[u] /\ port'[u] = port[u]
  /\ pc'[w] # "idle" => /\ pc[w] # "idle" /\ job'[w] = job[w]
                        /\ pc'[w] \in NeedsPort => port'[w] \in Ports

-----------------------------------------------------------------------------
(* Nothing is exposed, and no thread is in an operation.                    *)
LEMMA InitInv == Init => IInv
  <1> SUFFICES ASSUME Init PROVE IInv
    OBVIOUS
  <1>1. TypeOK
    <2>1. pc \in [Workers -> Enabling \cup Disabling \cup {"idle"}]
      BY DEF Init
    <2>2. free \in [Ports -> Nat] /\ job \in [Workers -> Jobs \cup {NULL}] /\ port \in [Workers -> Ports \cup {NULL}]
      BY DEF Init
    <2>3. view \in [Workers -> SUBSET Ports] /\ file \in [Workers -> SUBSET Nodes]
      BY DEF Init
    <2>4. restarts \in 0 .. MaxRestarts
      BY PortsAssumption DEF Init
    <2> QED BY <2>1, <2>2, <2>3, <2>4 DEF Init, TypeOK
  <1>2. Place /\ RowOf
    BY DEF Init, Place, RowOf, Holding, Disabling, Enabling
  <1>3. Claimed
    BY DEF Init, Claimed, Claims, Holding
  <1>4. Reasons /\ Allowed
    BY DEF Init, Reasons, Allowed
  <1>5. UsedOnce
    BY DEF Init, UsedOnce, Uses, Using, Holding
  <1> QED BY <1>1, <1>2, <1>3, <1>4, <1>5 DEF IInv

-----------------------------------------------------------------------------
(* What a step of a thread leaves as it is. *)
LEMMA PlaceKept ==
  ASSUME Place, NEW w \in Workers, OwnStep(w)
  PROVE  Place'
  <1>1. \A u \in Workers : pc'[u] # "idle" => pc[u] # "idle" /\ job'[u] = job[u]
    BY DEF OwnStep
  <1>2. \A u \in Workers : pc'[u] \in NeedsPort => port'[u] \in Ports
    <2>1. "idle" \notin NeedsPort
      BY DEF NeedsPort, Holding, Disabling
    <2> QED BY <2>1 DEF OwnStep, Place, NeedsPort
  <1> QED BY <1>1, <1>2 DEF Place, NeedsPort

(* A thread that only goes on, and changes no exposed service, still holds  *)
(* the row it has read.                                                     *)
LEMMA RowOfKept ==
  ASSUME RowOf, NEW w \in Workers, OwnStep(w), exposed' = exposed,
         pc'[w] \in {"disable", "append", "destroy"} =>
           pc[w] \in {"disable", "append", "destroy"} /\ port'[w] = port[w],
         pc'[w] \in Enabling \cup {"del_read", "del_write"} =>
           pc[w] \in Enabling \cup {"del_read", "del_write"}
  PROVE  RowOf'
  <1>1. pc'[w] # "idle" => job'[w] = job[w]
    BY DEF OwnStep
  <1>2. \A u \in Workers \ {w} : pc'[u] = pc[u] /\ job'[u] = job[u] /\ port'[u] = port[u]
    BY DEF OwnStep
  <1>3. "idle" \notin Enabling
    BY DEF Enabling
  <1>4. \A u \in Workers : pc'[u] \in {"disable", "append", "destroy"} =>
          pc[u] \in {"disable", "append", "destroy"} /\ Of(u)' = Of(u)
    BY <1>1, <1>2 DEF Of
  <1>5. \A u \in Workers : pc'[u] \in Enabling \cup {"del_read", "del_write"} =>
          pc[u] \in Enabling \cup {"del_read", "del_write"} /\ job'[u] = job[u]
    BY <1>1, <1>2, <1>3
  <1>6. \A e, f \in exposed : e[1] = f[1] /\ e[2] = f[2] => e = f
    BY DEF RowOf
  <1>7. \A u \in Workers : pc'[u] \in {"disable", "append", "destroy"} => Of(u)' \in exposed'
    BY <1>4 DEF RowOf
  <1>8. \A u \in Workers : pc'[u] \in Enabling \cup {"del_read", "del_write"} =>
          \A e \in exposed' : job'[u] # <<e[1], e[2]>>
    BY <1>5 DEF RowOf
  <1> QED BY <1>6, <1>7, <1>8 DEF RowOf, Enabling

(* The rows about to be destroyed are the same when no thread reaches or    *)
(* leaves the destruction.                                                  *)
LEMMA LeavingKept ==
  ASSUME NEW w \in Workers, OwnStep(w), pc[w] # "destroy", pc'[w] # "destroy"
  PROVE  \A e : Leaving(e)' <=> Leaving(e)
  <1>1. \A u \in Workers : (pc'[u] = "destroy" <=> pc[u] = "destroy")
                           /\ (pc[u] = "destroy" => Of(u)' = Of(u))
    BY DEF OwnStep, Of
  <1> QED BY <1>1 DEF Leaving

(* A port still has one claim when no thread takes one.                     *)
LEMMA ClaimsKept ==
  ASSUME Claimed, NEW w \in Workers, OwnStep(w), free' = free, exposed' = exposed,
         reused \subseteq reused', pc[w] # "destroy", pc'[w] # "destroy",
         pc'[w] \in Holding => pc[w] \in Holding /\ port'[w] = port[w]
  PROVE  Claimed'
  <1>1. \A e : Leaving(e)' <=> Leaving(e)
    BY LeavingKept
  <1>2. \A u \in Workers : pc'[u] \in Holding => pc[u] \in Holding /\ port'[u] = port[u]
    BY DEF OwnStep
  <1> HIDE DEF Leaving
  <1>3. SUFFICES ASSUME NEW p \in Ports \ reused' PROVE Claims(p)'
    BY DEF Claimed
  <1>4. Claims(p)
    BY DEF Claimed
  <1> QED BY <1>1, <1>2, <1>4 DEF Claims

(* An entry of the allow list keeps a reason to be there.                   *)
LEMMA ReasonsKept ==
  ASSUME Reasons, NEW w \in Workers, OwnStep(w), allow' = allow, exposed' = exposed,
         leftover \subseteq leftover', clobbered \cap allow \subseteq clobbered',
         pc[w] \in Keeping =>
           \/ pc'[w] \in Keeping /\ port'[w] = port[w]
           \/ Node(w) \in leftover'
           \/ Node(w) \notin allow
           \/ Node(w) \in clobbered'
  PROVE  Reasons'
  <1>1. \A u \in Workers \ {w} : Node(u)' = Node(u) /\ pc'[u] = pc[u]
    BY DEF OwnStep, Node
  <1>2. pc'[w] \in Keeping /\ port'[w] = port[w] => Node(w)' = Node(w)
    BY DEF OwnStep, Node, Keeping
  <1> QED BY <1>1, <1>2 DEF Reasons

(* No thread begins to use a port. *)
LEMMA UsesKept ==
  ASSUME UsedOnce, NEW w \in Workers, OwnStep(w), exposed' = exposed,
         retaken \subseteq retaken',
         pc'[w] \in Using => pc[w] \in Using /\ port'[w] = port[w]
  PROVE  UsedOnce'
  <1>1. "idle" \notin Using
    BY DEF Using, Holding
  <1>2. \A u \in Workers : pc'[u] \in Using => pc[u] \in Using /\ Node(u)' = Node(u)
    BY <1>1 DEF OwnStep, Node
  <1>3. SUFFICES ASSUME NEW n \in Nodes \ retaken' PROVE Uses(n)'
    BY DEF UsedOnce, Nodes
  <1>4. Uses(n)
    BY DEF UsedOnce
  <1> QED BY <1>2, <1>4 DEF Uses

(* A thread past the allow list still finds its entry there.                *)
LEMMA AllowedKept ==
  ASSUME Allowed, NEW w \in Workers, OwnStep(w), allow' = allow, exposed' = exposed,
         clobbered \subseteq clobbered', retaken \subseteq retaken',
         pc'[w] \in {"enable", "record"} =>
           Node(w) \in allow \cup clobbered' \cup retaken' /\ port'[w] = port[w]
  PROVE  Allowed'
  <1>1. \A u \in Workers \ {w} : Node(u)' = Node(u) /\ pc'[u] = pc[u]
    BY DEF OwnStep, Node
  <1>2. pc'[w] \in {"enable", "record"} => Node(w)' = Node(w)
    BY DEF OwnStep, Node
  <1> QED BY <1>1, <1>2 DEF Allowed

(* A step that writes no table. *)
LEMMA QuietInv ==
  ASSUME IInv, TypeOK', NEW w \in Workers, OwnStep(w),
         UNCHANGED <<tables, reused, retaken>>,
         clobbered \subseteq clobbered', leftover \subseteq leftover',
         pc[w] # "destroy", pc'[w] # "destroy",
         pc'[w] \in {"disable", "append"} => pc[w] \in {"disable", "append"} /\ port'[w] = port[w],
         pc'[w] \in Enabling \cup {"del_read", "del_write"} =>
           pc[w] \in Enabling \cup {"del_read", "del_write"},
         pc'[w] \in Holding => pc[w] \in Holding /\ port'[w] = port[w],
         pc'[w] \in Using => pc[w] \in Using /\ port'[w] = port[w],
         pc[w] \in Keeping =>
           \/ pc'[w] \in Keeping /\ port'[w] = port[w]
           \/ Node(w) \in leftover'
           \/ Node(w) \notin allow
           \/ Node(w) \in clobbered',
         pc'[w] \in {"enable", "record"} =>
           pc[w] \in {"enable", "record"} \/ Node(w) \in allow \cup clobbered'
  PROVE  IInv'
  <1> USE DEF tables
  <1>1. Place'
    BY PlaceKept DEF IInv
  <1>2. RowOf'
    BY RowOfKept DEF IInv
  <1>3. Claimed'
    BY ClaimsKept DEF IInv
  <1>4. Reasons'
    BY ReasonsKept DEF IInv
  <1>5. UsedOnce'
    BY UsesKept DEF IInv
  <1>6. Allowed'
    <2>1. Allowed
      BY DEF IInv
    <2>2. pc'[w] \in {"enable", "record"} =>
            Node(w) \in allow \cup clobbered' \cup retaken' /\ port'[w] = port[w]
      BY <2>1 DEF Allowed, Holding
    <2> QED BY <2>1, <2>2, AllowedKept
  <1> QED BY <1>1, <1>2, <1>3, <1>4, <1>5, <1>6 DEF IInv

-----------------------------------------------------------------------------
(* A thread that goes on keeps its operation; one that finishes has none.   *)
LEMMA GotoEffect ==
  ASSUME TypeOK, NEW w \in Workers, NEW label, Goto(w, label)
  PROVE  /\ pc'[w] = label /\ \A u \in Workers \ {w} : pc'[u] = pc[u]
         /\ label \in Enabling \cup Disabling \cup {"idle"} =>
              pc' \in [Workers -> Enabling \cup Disabling \cup {"idle"}]
  BY DEF TypeOK, Goto

(* A thread that ends drops its job and holds nothing.                      *)
LEMMA FinishEffect ==
  ASSUME TypeOK, NEW w \in Workers, Finish(w)
  PROVE  /\ pc'[w] = "idle" /\ OwnStep(w)
         /\ pc' \in [Workers -> Enabling \cup Disabling \cup {"idle"}]
         /\ job' \in [Workers -> Jobs \cup {NULL}]
         /\ port' \in [Workers -> Ports \cup {NULL}]
         /\ view' \in [Workers -> SUBSET Ports]
         /\ file' \in [Workers -> SUBSET Nodes]
  BY DEF TypeOK, Finish, Goto, OwnStep

(* What a thread that has a port knows. *)
LEMMA Keys ==
  ASSUME Place, NEW w \in Workers, pc[w] # "idle"
  PROVE  /\ job[w] \in Jobs /\ job[w][1] \in Boards /\ job[w][2] \in Services
         /\ job[w] = <<job[w][1], job[w][2]>>
         /\ pc[w] \in NeedsPort => port[w] \in Ports /\ Node(w) \in Nodes
                                   /\ Of(w) \in Boards \X Services \X Ports
  BY DEF Place, Jobs, NeedsPort, Node, Nodes, Of

-----------------------------------------------------------------------------
(* random_public_port up to the choice. *)
LEMMA CheckListInv ==
  ASSUME IInv, NEW w \in Workers, CheckList(w)
  PROVE  IInv'
  <1> USE DEF CheckList, tables, locals, ghosts
  <1>0. TypeOK /\ Place
    BY DEF IInv
  <1>1. /\ pc[w] = "check" /\ pc'[w] \in {"used", "choose"} /\ \A u \in Workers \ {w} : pc'[u] = pc[u]
        /\ pc' \in [Workers -> Enabling \cup Disabling \cup {"idle"}]
    BY <1>0, GotoEffect DEF Enabling
  <1>2. TypeOK'
    BY <1>0, <1>1 DEF TypeOK
  <1>3. OwnStep(w)
    BY <1>1 DEF OwnStep, NeedsPort, Holding, Disabling
  <1> QED BY <1>1, <1>2, <1>3, QuietInv DEF Enabling, Holding, Keeping, Using

(* ServicePort reads the ports that the rows hold.                          *)
LEMMA ReadUsedInv ==
  ASSUME IInv, NEW w \in Workers, ReadUsed(w)
  PROVE  IInv'
  <1> USE DEF ReadUsed, tables, ghosts
  <1>0. TypeOK /\ Place
    BY DEF IInv
  <1>1. /\ pc[w] = "used" /\ pc'[w] = "refill" /\ \A u \in Workers \ {w} : pc'[u] = pc[u]
        /\ pc' \in [Workers -> Enabling \cup Disabling \cup {"idle"}]
    BY <1>0, GotoEffect DEF Enabling
  <1>2. TypeOK'
    BY <1>0, <1>1 DEF TypeOK
  <1>3. OwnStep(w)
    BY <1>1 DEF OwnStep, NeedsPort, Holding, Disabling
  <1> QED BY <1>1, <1>2, <1>3, QuietInv DEF Enabling, Holding, Keeping, Using

(* A port of the list is picked at random.                                  *)
LEMMA ChooseInv ==
  ASSUME IInv, NEW w \in Workers, NEW p \in Ports, Choose(w, p)
  PROVE  IInv'
  <1> USE DEF Choose, tables, ghosts
  <1>0. TypeOK /\ Place
    BY DEF IInv
  <1>1. /\ pc[w] = "choose" /\ pc'[w] = "take" /\ \A u \in Workers \ {w} : pc'[u] = pc[u]
        /\ pc' \in [Workers -> Enabling \cup Disabling \cup {"idle"}]
    BY <1>0, GotoEffect DEF Enabling
  <1>2. TypeOK'
    BY <1>0, <1>1 DEF TypeOK
  <1>3. OwnStep(w)
    BY <1>0, <1>1 DEF OwnStep, TypeOK
  <1> QED BY <1>1, <1>2, <1>3, QuietInv DEF Enabling, Holding, Keeping, Using

(* The list is empty even after it was filled: the operation raises.        *)
LEMMA NotEnoughPortInv ==
  ASSUME IInv, NEW w \in Workers, NotEnoughPort(w)
  PROVE  IInv'
  <1> USE DEF NotEnoughPort, tables, ghosts
  <1>0. TypeOK /\ Place
    BY DEF IInv
  <1>1. TypeOK'
    BY <1>0, FinishEffect DEF TypeOK
  <1>2. OwnStep(w) /\ pc[w] = "choose" /\ pc'[w] = "idle"
    BY <1>0, FinishEffect
  <1> QED BY <1>1, <1>2, QuietInv DEF Enabling, Holding, Keeping, Using

(* The steps that read the allow list. *)
LEMMA AddReadInv ==
  ASSUME IInv, NEW w \in Workers, AddRead(w)
  PROVE  IInv'
  <1> USE DEF AddRead, ReadTorn, tables, locals, ghosts
  <1>0. TypeOK /\ Place
    BY DEF IInv
  <1>1. /\ pc[w] = "add_read" /\ pc'[w] \in {"enable", "add_write"} /\ \A u \in Workers \ {w} : pc'[u] = pc[u]
        /\ pc' \in [Workers -> Enabling \cup Disabling \cup {"idle"}]
    BY <1>0, GotoEffect DEF Enabling
  <1>2. job' = job /\ port' = port /\ view' = view /\ clobbered \subseteq clobbered' /\ clobbered' \subseteq Nodes
        /\ file' \in [Workers -> SUBSET Nodes] /\ UNCHANGED <<tables, reused, retaken, leftover, restarts>>
    BY <1>0, Keys DEF TypeOK, NeedsPort, Holding
  <1>3. pc'[w] = "enable" => Node(w) \in allow \cup clobbered'
    BY <1>0, GotoEffect
  <1>4. TypeOK'
    BY <1>0, <1>1, <1>2 DEF TypeOK
  <1>5. OwnStep(w)
    BY <1>0, <1>1, <1>2, Keys DEF OwnStep, NeedsPort, Holding
  <1> QED BY <1>1, <1>2, <1>3, <1>4, <1>5, QuietInv DEF Enabling, Holding, Keeping, Using

(* remove_from_allowlist reads the file.                                    *)
LEMMA RemoveReadInv ==
  ASSUME IInv, NEW w \in Workers, RemoveRead(w)
  PROVE  IInv'
  <1> USE DEF RemoveRead, tables, ghosts
  <1>0. TypeOK /\ Place
    BY DEF IInv
  <1>1. pc[w] = "del_read"
    OBVIOUS
  <1>2. CASE Finish(w)
    <2>1. TypeOK'
      <3>1. clobbered' \subseteq Nodes
        BY <1>0, <1>1, Keys DEF TypeOK, ReadTorn, NeedsPort, Disabling
      <3> QED BY <1>0, <1>2, <3>1, FinishEffect DEF TypeOK, ReadTorn
    <2>2. OwnStep(w) /\ pc'[w] = "idle"
      BY <1>0, <1>2, FinishEffect
    <2>3. clobbered \subseteq clobbered' /\ leftover' = leftover /\ (Node(w) \in clobbered' \/ Node(w) \notin allow)
      BY <1>0, <1>2, GotoEffect, FinishEffect DEF ReadTorn
    <2> QED BY <1>1, <2>1, <2>2, <2>3, QuietInv DEF Enabling, Holding, Keeping, Using
  <1>3. CASE ~Finish(w)
    <2>1. /\ Goto(w, "del_write") /\ file' = [file EXCEPT ![w] = allow]
          /\ UNCHANGED <<job, port, view, clobbered, leftover>>
      BY <1>3 DEF ReadTorn
    <2>2. pc'[w] = "del_write" /\ (\A u \in Workers \ {w} : pc'[u] = pc[u])
          /\ pc' \in [Workers -> Enabling \cup Disabling \cup {"idle"}]
      BY <1>0, <2>1, GotoEffect DEF Disabling
    <2>3. TypeOK'
      BY <1>0, <2>1, <2>2 DEF TypeOK
    <2>4. OwnStep(w)
      BY <1>0, <1>1, <2>1, <2>2, Keys DEF OwnStep, NeedsPort, Disabling
    <2> QED BY <1>1, <2>1, <2>2, <2>3, <2>4, QuietInv DEF Enabling, Holding, Keeping, Using
  <1> QED BY <1>2, <1>3

(* An entry that stays behind is remembered. *)
LEMMA AgentUnreachableInv ==
  ASSUME IInv, NEW w \in Workers, AgentUnreachable(w)
  PROVE  IInv'
  <1> USE DEF AgentUnreachable, tables, ghosts
  <1>0. TypeOK /\ Place
    BY DEF IInv
  <1>1. pc[w] \in {"add_read", "del_read"} /\ Node(w) \in Nodes
    BY <1>0, Keys DEF NeedsPort, Holding, Disabling
  <1>2. TypeOK'
    BY <1>0, <1>1, FinishEffect DEF TypeOK
  <1>3. OwnStep(w) /\ pc'[w] = "idle"
    BY <1>0, FinishEffect
  <1>4. leftover \subseteq leftover' /\ (pc[w] = "del_read" => Node(w) \in leftover' \/ Node(w) \notin allow)
    OBVIOUS
  <1> QED BY <1>1, <1>2, <1>3, <1>4, QuietInv DEF Enabling, Holding, Keeping, Using

(* The answers of the board. *)
LEMMA EnabledOnBoardInv ==
  ASSUME IInv, NEW w \in Workers, EnabledOnBoard(w)
  PROVE  IInv'
  <1> USE DEF EnabledOnBoard, tables, locals, ghosts
  <1>0. TypeOK /\ Place
    BY DEF IInv
  <1>1. /\ pc[w] = "enable" /\ pc'[w] = "record" /\ \A u \in Workers \ {w} : pc'[u] = pc[u]
        /\ pc' \in [Workers -> Enabling \cup Disabling \cup {"idle"}]
    BY <1>0, GotoEffect DEF Enabling
  <1>2. TypeOK'
    BY <1>0, <1>1 DEF TypeOK
  <1>3. OwnStep(w)
    BY <1>0, <1>1, Keys DEF OwnStep, NeedsPort, Holding
  <1> QED BY <1>1, <1>2, <1>3, QuietInv DEF Enabling, Holding, Keeping, Using

(* The board does not open the service: the entry stays in the allow list.  *)
LEMMA EnableFailsInv ==
  ASSUME IInv, NEW w \in Workers, EnableFails(w)
  PROVE  IInv'
  <1> USE DEF EnableFails, tables, ghosts
  <1>0. TypeOK /\ Place
    BY DEF IInv
  <1>1. pc[w] = "enable" /\ Node(w) \in Nodes
    BY <1>0, Keys DEF NeedsPort, Holding
  <1>2. TypeOK'
    BY <1>0, <1>1, FinishEffect DEF TypeOK
  <1>3. OwnStep(w) /\ pc'[w] = "idle" /\ (Node(w) \in leftover' \/ Node(w) \notin allow) /\ leftover \subseteq leftover'
    BY <1>0, FinishEffect
  <1> QED BY <1>1, <1>2, <1>3, QuietInv DEF Enabling, Holding, Keeping, Using

(* The board has closed the service.                                        *)
LEMMA DisabledOnBoardInv ==
  ASSUME IInv, NEW w \in Workers, DisabledOnBoard(w)
  PROVE  IInv'
  <1> USE DEF DisabledOnBoard, tables, locals, ghosts
  <1>0. TypeOK /\ Place
    BY DEF IInv
  <1>1. /\ pc[w] = "disable" /\ pc'[w] = "append" /\ \A u \in Workers \ {w} : pc'[u] = pc[u]
        /\ pc' \in [Workers -> Enabling \cup Disabling \cup {"idle"}]
    BY <1>0, GotoEffect DEF Disabling
  <1>2. TypeOK'
    BY <1>0, <1>1 DEF TypeOK
  <1>3. OwnStep(w)
    BY <1>0, <1>1, Keys DEF OwnStep, NeedsPort, Disabling
  <1> QED BY <1>1, <1>2, <1>3, QuietInv DEF Enabling, Holding, Keeping, Using

(* It has not: the row and the entry stay.                                  *)
LEMMA DisableFailsInv ==
  ASSUME IInv, NEW w \in Workers, DisableFails(w)
  PROVE  IInv'
  <1> USE DEF DisableFails, tables, ghosts
  <1>0. TypeOK /\ Place
    BY DEF IInv
  <1>1. TypeOK'
    BY <1>0, FinishEffect DEF TypeOK
  <1>2. OwnStep(w) /\ pc[w] = "disable" /\ pc'[w] = "idle"
    BY <1>0, FinishEffect
  <1> QED BY <1>1, <1>2, QuietInv DEF Enabling, Holding, Keeping, Using

-----------------------------------------------------------------------------
(* The steps that change who claims a port. *)

(* A rebuilt list has no port in use, except those that are in reused then. *)
LEMMA RefillInv ==
  ASSUME IInv, NEW w \in Workers, Refill(w)
  PROVE  IInv'
  <1> USE DEF Refill
  <1>0. TypeOK /\ Place
    BY DEF IInv
  <1>1. /\ pc[w] = "refill" /\ pc'[w] = "choose" /\ \A u \in Workers \ {w} : pc'[u] = pc[u]
        /\ pc' \in [Workers -> Enabling \cup Disabling \cup {"idle"}]
    BY <1>0, GotoEffect DEF Enabling
  <1>2. TypeOK'
    <2>1. free' \in [Ports -> Nat] /\ view' \in [Workers -> SUBSET Ports] /\ reused' \subseteq Ports
      BY <1>0 DEF TypeOK
    <2> QED BY <1>0, <1>1, <2>1 DEF TypeOK
  <1>3. OwnStep(w)
    BY <1>1 DEF OwnStep, NeedsPort, Holding, Disabling
  <1>4. Place'
    BY <1>0, <1>3, PlaceKept
  <1>5. RowOf'
    BY <1>1, <1>3, RowOfKept DEF IInv, Enabling
  <1>6. Claimed'
    <2> SUFFICES ASSUME NEW p \in Ports \ reused' PROVE Claims(p)'
      BY DEF Claimed
    <2>1. free'[p] = IF p \in view[w] THEN 1 ELSE 0
      OBVIOUS
    <2>2. \A u \in Workers : (pc'[u] \in Holding <=> pc[u] \in Holding) /\ port'[u] = port[u]
      BY <1>1 DEF Holding
    <2>3. exposed' = exposed /\ \A e : Leaving(e)' <=> Leaving(e)
      BY <1>1, <1>3, LeavingKept
    <2>4. CASE p \notin Held \cup UsedPorts
      <3>1. (\A u \in Workers : pc[u] \in Holding => port[u] # p) /\ \A e \in exposed : e[3] # p
        BY <2>4 DEF Held, Holders, Holding, UsedPorts
      <3> HIDE DEF Refill, Leaving
      <3> QED BY <2>1, <2>2, <2>3, <3>1 DEF Claims
    <2>5. CASE p \in Held \cup UsedPorts
      <3>1. Claims(p) /\ free'[p] = 0
        BY <2>1, <2>5 DEF IInv, Claimed
      <3> HIDE DEF Refill, Leaving
      <3> QED BY <2>2, <2>3, <3>1 DEF Claims
    <2> QED BY <2>4, <2>5
  <1>7. Reasons'
    BY <1>1, <1>3, ReasonsKept DEF IInv, Keeping
  <1>8. UsedOnce'
    BY <1>1, <1>3, UsesKept DEF IInv, Using, Holding
  <1>9. Allowed'
    BY <1>1, <1>3, AllowedKept DEF IInv
  <1> QED BY <1>2, <1>4, <1>5, <1>6, <1>7, <1>8, <1>9 DEF IInv

(* The place in the list becomes a place in the hands of the thread.        *)
LEMMA TakeInv ==
  ASSUME IInv, NEW w \in Workers, Take(w)
  PROVE  IInv'
  <1> USE DEF Take, tables, ghosts
  <1> DEFINE p == port[w]
  <1>0. TypeOK /\ Place /\ pc[w] = "take" /\ p \in Ports
    BY DEF IInv, Place
  <1>1. CASE free[p] = 0
    <2>1. Finish(w) /\ free' = free
      BY <1>1
    <2>2. TypeOK'
      BY <1>0, <2>1, FinishEffect DEF TypeOK
    <2>3. OwnStep(w) /\ pc'[w] = "idle"
      BY <1>0, <2>1, FinishEffect
    <2>4. UNCHANGED <<tables, reused, retaken, clobbered, leftover>>
      BY <1>1
    <2> HIDE DEF Take
    <2> QED BY <1>0, <2>2, <2>3, <2>4, QuietInv DEF Enabling, Holding, Keeping, Using
  <1>2. CASE free[p] # 0
    <2>0. free[p] \in Nat
      BY <1>0 DEF TypeOK
    <2>1. free' = [free EXCEPT ![p] = @ - 1] /\ Goto(w, "add_read") /\ UNCHANGED locals /\ Retake(Node(w))
      BY <1>2, <2>0
    <2>2. /\ pc'[w] = "add_read" /\ \A u \in Workers \ {w} : pc'[u] = pc[u]
          /\ pc' \in [Workers -> Enabling \cup Disabling \cup {"idle"}]
      BY <1>0, <2>1, GotoEffect DEF Enabling
    <2>3. free'[p] = free[p] - 1 /\ \A q \in Ports \ {p} : free'[q] = free[q]
      BY <1>0, <2>1 DEF TypeOK
    <2>4. TypeOK'
      <3>1. free' \in [Ports -> Nat]
        BY <1>0, <1>2, <2>0, <2>1 DEF TypeOK
      <3>2. Node(w) \in Nodes
        BY <1>0, Keys DEF NeedsPort
      <3>3. retaken' \subseteq Nodes /\ clobbered' \subseteq Nodes
        BY <1>0, <2>1, <3>2 DEF TypeOK, Retake
      <3> QED BY <1>0, <2>1, <2>2, <3>1, <3>3 DEF TypeOK, locals
    <2>5. OwnStep(w)
      BY <1>0, <2>1, <2>2 DEF OwnStep, locals
    <2>6. Place'
      BY <1>0, <2>5, PlaceKept
    <2>7. RowOf'
      BY <1>0, <2>2, <2>5, RowOfKept DEF IInv, Enabling
    <2>8. Claimed'
      <3> SUFFICES ASSUME NEW q \in Ports \ reused PROVE Claims(q)'
        BY DEF Claimed
      <3>1. Claims(q)
        BY DEF IInv, Claimed
      <3>2. exposed' = exposed /\ \A e : Leaving(e)' <=> Leaving(e)
        BY <1>0, <2>2, <2>5, LeavingKept
      <3>3. \A u \in Workers : port'[u] = port[u] /\ (pc'[u] \in Holding <=> pc[u] \in Holding \/ u = w)
        BY <2>1, <2>2 DEF Holding, locals
      <3> HIDE DEF Take, Leaving
      <3>4. CASE q # p
        BY <2>3, <3>1, <3>2, <3>3, <3>4 DEF Claims
      <3>5. CASE q = p
        <4>1. free[p] = 1 /\ free'[p] = 0
          BY <1>0, <1>2, <2>0, <2>3, <3>1, <3>5 DEF Claims
        <4>2. \A u \in Workers : pc[u] \in Holding => port[u] # p
          BY <3>1, <3>5, <4>1 DEF Claims
        <4>3. \A e \in exposed : e[3] = p => Leaving(e)
          BY <3>1, <3>5, <4>1 DEF Claims
        <4> QED BY <3>2, <3>3, <3>5, <4>1, <4>2, <4>3 DEF Claims
      <3> QED BY <3>4, <3>5
    <2>9. Reasons'
      BY <1>0, <2>1, <2>2, <2>5, ReasonsKept DEF IInv, Keeping, Retake
    <2>10. \A u \in Workers : Node(u)' = Node(u) /\ (pc'[u] \in Using <=> pc[u] \in Using \/ u = w)
      BY <2>1, <2>2 DEF Node, locals, Using, Holding
    <2>11. ~InUse(Node(w)) => /\ \A e \in exposed : <<e[1], e[3]>> # Node(w)
                              /\ \A u \in Workers : pc[u] \in Using => Node(u) # Node(w)
      BY DEF InUse, Holders, Removers, Using, Holding
    <2>12. UsedOnce'
      <3> SUFFICES ASSUME NEW n \in Nodes \ retaken' PROVE Uses(n)'
        BY DEF UsedOnce, Nodes
      <3>1. exposed' = exposed
        OBVIOUS
      <3>2. CASE n # Node(w)
        <4>1. Uses(n)
          BY <2>1, <3>2 DEF IInv, UsedOnce, Retake
        <4> HIDE DEF Take
        <4> QED BY <2>10, <3>1, <3>2, <4>1 DEF Uses
      <3>3. CASE n = Node(w)
        <4>1. ~InUse(Node(w))
          BY <2>1, <3>3 DEF Retake
        <4> HIDE DEF Take
        <4> QED BY <2>10, <2>11, <3>1, <3>3, <4>1 DEF Uses
      <3> QED BY <3>2, <3>3
    <2>13. Allowed'
      <3>1. Allowed /\ exposed' = exposed /\ allow' = allow
        BY DEF IInv
      <3>2. \A n : n # Node(w) => (n \in retaken' <=> n \in retaken) /\ (n \in clobbered' <=> n \in clobbered)
        BY <2>1 DEF Retake
      <3>3. InUse(Node(w)) => retaken \subseteq retaken' /\ clobbered' = clobbered
        BY <2>1 DEF Retake
      <3>4. \A u \in Workers : pc'[u] \in {"enable", "record"} => pc[u] = pc'[u] /\ pc[u] \in Using
        BY <2>2 DEF Using, Holding
      <3> HIDE DEF Take
      <3> QED BY <2>10, <2>11, <3>1, <3>2, <3>3, <3>4 DEF Allowed
    <2> QED BY <2>4, <2>6, <2>7, <2>8, <2>9, <2>12, <2>13 DEF IInv
  <1> QED BY <1>1, <1>2

(* The thread's claim becomes that of its row. *)
LEMMA RecordInv ==
  ASSUME IInv, NEW w \in Workers, Record(w)
  PROVE  IInv'
  <1> USE DEF Record, ghosts
  <1> DEFINE new == Of(w)
  <1>0. TypeOK /\ Place /\ RowOf /\ pc[w] = "record"
    BY DEF IInv
  <1>1. /\ job[w] \in Jobs /\ job[w] = <<job[w][1], job[w][2]>> /\ port[w] \in Ports
        /\ new \in Boards \X Services \X Ports
    BY <1>0, Keys DEF NeedsPort, Holding
  <1>2. exposed' = exposed \cup {new} /\ new[1] = job[w][1] /\ new[2] = job[w][2] /\ new[3] = port[w]
    BY DEF Of
  <1>3. OwnStep(w) /\ pc'[w] = "idle" /\ \A u \in Workers \ {w} : pc'[u] = pc[u] /\ job'[u] = job[u] /\ port'[u] = port[u]
    BY <1>0, FinishEffect DEF OwnStep
  <1>4. TypeOK'
    BY <1>0, <1>1, <1>2, FinishEffect DEF TypeOK
  <1>5. Place'
    BY <1>0, <1>3, PlaceKept
  <1>6. RowOf'
    <2>1. \A e \in exposed : job[w] # <<e[1], e[2]>>
      BY <1>0 DEF RowOf, Enabling
    <2>2. \A e, f \in exposed' : e[1] = f[1] /\ e[2] = f[2] => e = f
      BY <1>0, <1>1, <1>2, <2>1 DEF RowOf
    <2>3. \A u \in Workers : pc'[u] # "idle" => u # w /\ pc'[u] = pc[u] /\ job'[u] = job[u] /\ Of(u)' = Of(u)
                                                /\ job[u] # job[w]
      BY <1>0, <1>3 DEF Place, Of
    <2>4. \A u \in Workers : pc'[u] \in {"disable", "append", "destroy"} => Of(u)' \in exposed'
      BY <1>0, <1>2, <2>3 DEF RowOf
    <2>5. ASSUME NEW u \in Workers, pc'[u] \in Enabling \cup {"del_read", "del_write"}, NEW e \in exposed'
          PROVE  job'[u] # <<e[1], e[2]>>
      <3>1. u # w /\ pc'[u] = pc[u] /\ job'[u] = job[u] /\ job[u] # job[w]
        BY <2>3, <2>5 DEF Enabling
      <3> QED BY <1>0, <1>1, <1>2, <2>5, <3>1 DEF RowOf
    <2> QED BY <2>2, <2>4, <2>5 DEF RowOf, Enabling
  <1>7. Claimed'
    <2> SUFFICES ASSUME NEW p \in Ports \ reused PROVE Claims(p)'
      BY DEF Claimed
    <2>1. Claims(p)
      BY DEF IInv, Claimed
    <2>2. \A e : Leaving(e)' <=> Leaving(e)
      BY <1>0, <1>3, LeavingKept
    <2>3. \A u \in Workers : pc'[u] \in Holding => u # w /\ pc[u] \in Holding /\ port'[u] = port[u]
      BY <1>3 DEF Holding
    <2>4. free' = free /\ pc[w] \in Holding
      BY <1>0 DEF Holding
    <2> HIDE DEF Record, Leaving, new
    <2>5. p = new[3] => free[p] = 0 /\ (\A e \in exposed : e[3] = p => Leaving(e))
                        /\ \A u \in Workers : pc'[u] \in Holding => port'[u] # p
      BY <1>2, <2>1, <2>3, <2>4 DEF Claims
    <2>a. \A e \in exposed' : e[3] = p => free'[p] = 0 \/ Leaving(e)
      BY <1>2, <2>1, <2>4, <2>5 DEF Claims
    <2>b. \A e, f \in exposed' : e[3] = p /\ f[3] = p => e = f \/ Leaving(e) \/ Leaving(f)
      BY <1>2, <2>1, <2>5 DEF Claims
    <2>c. \A e \in exposed', u \in Workers : pc'[u] \in Holding /\ port'[u] = p /\ e[3] = p => Leaving(e)
      BY <1>2, <2>1, <2>3, <2>5 DEF Claims
    <2> QED BY <2>1, <2>2, <2>3, <2>4, <2>a, <2>b, <2>c DEF Claims
  <1>8. Node(w) = <<new[1], new[3]>> /\ new \in exposed' /\ \A u \in Workers \ {w} : Node(u)' = Node(u) /\ pc'[u] = pc[u]
    BY <1>2, <1>3 DEF Node
  <1>9. Reasons'
    <2>1. Reasons /\ allow' = allow /\ leftover' = leftover /\ clobbered' = clobbered
      BY DEF IInv
    <2> QED BY <1>2, <1>8, <2>1 DEF Reasons
  <1>10. UsedOnce'
    <2> SUFFICES ASSUME NEW n \in Nodes \ retaken PROVE Uses(n)'
      BY DEF UsedOnce, Nodes
    <2>1. Uses(n) /\ pc[w] \in Using
      BY <1>0 DEF IInv, UsedOnce, Using, Holding
    <2>2. \A u \in Workers : pc'[u] \in Using => u # w /\ pc[u] \in Using /\ Node(u)' = Node(u)
      BY <1>3, <1>8 DEF Using, Holding
    <2> HIDE DEF Record, new
    <2> QED BY <1>2, <1>8, <2>1, <2>2 DEF Uses
  <1>11. Allowed'
    <2>1. Allowed /\ allow' = allow /\ clobbered' = clobbered /\ retaken' = retaken
          /\ Node(w) \in allow \cup clobbered \cup retaken
      BY <1>0 DEF IInv, Allowed
    <2>2. \A u \in Workers : pc'[u] \in {"enable", "record"} => pc[u] = pc'[u] /\ Node(u)' = Node(u)
      BY <1>3, <1>8
    <2> QED BY <1>2, <1>8, <2>1, <2>2 DEF Allowed
  <1> QED BY <1>4, <1>5, <1>6, <1>7, <1>9, <1>10, <1>11 DEF IInv

(* The claim of a row becomes a place in the list; the row is Leaving.      *)
LEMMA AppendInv ==
  ASSUME IInv, NEW w \in Workers, Append(w)
  PROVE  IInv'
  <1> USE DEF Append, locals, ghosts
  <1> DEFINE p == port[w]
             e == Of(w)
  <1>0. TypeOK /\ Place /\ RowOf /\ pc[w] = "append"
    BY DEF IInv
  <1>1. p \in Ports /\ e \in exposed /\ e[3] = p
    BY <1>0, Keys DEF NeedsPort, Disabling, RowOf, Of
  <1>2. /\ pc'[w] = "destroy" /\ \A u \in Workers \ {w} : pc'[u] = pc[u]
        /\ pc' \in [Workers -> Enabling \cup Disabling \cup {"idle"}]
    BY <1>0, GotoEffect DEF Disabling
  <1>3. free'[p] = free[p] + 1 /\ free[p] \in Nat /\ \A q \in Ports \ {p} : free'[q] = free[q]
    BY <1>0, <1>1 DEF TypeOK
  <1>4. TypeOK'
    <2>1. free' \in [Ports -> Nat]
      BY <1>0, <1>1, <1>3 DEF TypeOK
    <2> QED BY <1>0, <1>2, <2>1 DEF TypeOK
  <1>5. OwnStep(w)
    BY <1>0, <1>1, <1>2 DEF OwnStep
  <1>6. Place'
    BY <1>0, <1>5, PlaceKept
  <1>7. RowOf'
    BY <1>0, <1>2, <1>5, RowOfKept DEF Enabling
  <1>8. Claimed'
    <2> SUFFICES ASSUME NEW q \in Ports \ reused PROVE Claims(q)'
      BY DEF Claimed
    <2>1. Claims(q)
      BY DEF IInv, Claimed
    <2>2. \A u \in Workers : Of(u)' = Of(u) /\ (pc'[u] = "destroy" <=> pc[u] = "destroy" \/ u = w)
      BY <1>2 DEF Of
    <2>3. \A f : Leaving(f)' <=> Leaving(f) \/ f = e
      BY <2>2 DEF Leaving
    <2>4. ~Leaving(e)
      <3> SUFFICES ASSUME NEW u \in Workers, pc[u] = "destroy", Of(u) = e PROVE FALSE
        BY DEF Leaving
      <3>1. job[u] = job[w]
        BY <1>0, Keys DEF Of
      <3> QED BY <1>0, <3>1 DEF Place
    <2>5. \A u \in Workers : pc'[u] \in Holding <=> pc[u] \in Holding
      BY <1>0, <1>2 DEF Holding
    <2>6. exposed' = exposed /\ port' = port
      OBVIOUS
    <2> HIDE DEF Append, Leaving, e
    <2>7. CASE q # p
      BY <1>3, <2>1, <2>3, <2>5, <2>6, <2>7 DEF Claims
    <2>8. CASE q = p
      <3>1. free[p] = 0 /\ (\A f \in exposed : f[3] = p => f = e \/ Leaving(f))
            /\ \A u \in Workers : pc[u] \in Holding => port[u] # p
        BY <1>1, <2>1, <2>4, <2>8 DEF Claims
      <3>2. free'[p] = 1
        BY <1>3, <3>1
      <3> QED BY <2>3, <2>5, <2>6, <2>8, <3>1, <3>2 DEF Claims
    <2> QED BY <2>7, <2>8
  <1>9. Reasons'
    BY <1>0, <1>5, ReasonsKept DEF IInv, Keeping
  <1>10. UsedOnce'
    BY <1>2, <1>5, UsesKept DEF IInv, Using, Holding
  <1>11. Allowed'
    BY <1>2, <1>5, AllowedKept DEF IInv
  <1> QED BY <1>4, <1>6, <1>7, <1>8, <1>9, <1>10, <1>11 DEF IInv

(* The row that was Leaving is gone; its entry is left to the same thread.  *)
LEMMA DestroyInv ==
  ASSUME IInv, NEW w \in Workers, Destroy(w)
  PROVE  IInv'
  <1> USE DEF Destroy, locals, ghosts
  <1> DEFINE e == Of(w)
  <1>0. TypeOK /\ Place /\ RowOf /\ pc[w] = "destroy"
    BY DEF IInv
  <1>1. /\ pc'[w] = "del_read" /\ \A u \in Workers \ {w} : pc'[u] = pc[u]
        /\ pc' \in [Workers -> Enabling \cup Disabling \cup {"idle"}]
    BY <1>0, GotoEffect DEF Disabling
  <1>2. exposed' = exposed \ {e} /\ e \in exposed /\ job[w] = <<e[1], e[2]>> /\ e[3] = port[w]
    BY <1>0, Keys DEF Of, RowOf
  <1>3. TypeOK'
    BY <1>0, <1>1, <1>2 DEF TypeOK
  <1>4. OwnStep(w)
    BY <1>0, <1>1, Keys DEF OwnStep, NeedsPort, Disabling
  <1>5. Place'
    BY <1>0, <1>4, PlaceKept
  <1>6. RowOf'
    <2>1. \A u \in Workers : Of(u)' = Of(u) /\ job'[u] = job[u]
      BY DEF Of
    <2>2. \A u \in Workers \ {w} : pc[u] \in {"disable", "append", "destroy"} => Of(u) # e
      <3> SUFFICES ASSUME NEW u \in Workers \ {w}, pc[u] \in {"disable", "append", "destroy"}, Of(u) = e
                   PROVE  FALSE
        OBVIOUS
      <3>1. job[u] = job[w]
        BY <1>0, Keys DEF Of
      <3> QED BY <1>0, <3>1 DEF Place
    <2>3. \A f \in exposed' : job[w] # <<f[1], f[2]>>
      BY <1>0, <1>2 DEF RowOf
    <2>4. ASSUME NEW u \in Workers, pc'[u] \in {"disable", "append", "destroy"} PROVE Of(u)' \in exposed'
      <3>1. u # w /\ pc[u] = pc'[u]
        BY <1>1, <2>4
      <3> QED BY <1>0, <1>2, <2>1, <2>2, <2>4, <3>1 DEF RowOf
    <2>5. \A u \in Workers : pc'[u] \in Enabling \cup {"del_read", "del_write"} =>
            \A f \in exposed' : job'[u] # <<f[1], f[2]>>
      BY <1>0, <1>1, <1>2, <2>1, <2>3 DEF RowOf
    <2> QED BY <1>0, <1>2, <2>4, <2>5 DEF RowOf, Enabling
  <1>7. Claimed'
    <2> SUFFICES ASSUME NEW p \in Ports \ reused PROVE Claims(p)'
      BY DEF Claimed
    <2>1. Claims(p)
      BY DEF IInv, Claimed
    <2>2. \A f \in exposed' : Leaving(f) => Leaving(f)'
      <3> SUFFICES ASSUME NEW f \in exposed', NEW u \in Workers, pc[u] = "destroy", Of(u) = f
                   PROVE  Leaving(f)'
        BY DEF Leaving
      <3>1. u # w
        BY <1>2
      <3> QED BY <1>1, <3>1 DEF Leaving, Of
    <2>3. \A u \in Workers : pc'[u] \in Holding <=> pc[u] \in Holding
      BY <1>0, <1>1 DEF Holding
    <2> HIDE DEF Leaving, e
    <2> QED BY <1>2, <2>1, <2>2, <2>3 DEF Claims
  <1>8. Node(w)' = <<e[1], e[3]>> /\ (\A u \in Workers : Node(u)' = Node(u))
        /\ \A f \in exposed' : f \in exposed /\ f # e
    BY <1>2 DEF Node
  <1>9. Reasons'
    <2>1. Reasons /\ allow' = allow /\ leftover' = leftover /\ clobbered' = clobbered
      BY DEF IInv
    <2>2. pc'[w] \in Keeping /\ \A u \in Workers : pc[u] \in Keeping => pc'[u] \in Keeping
      BY <1>0, <1>1 DEF Keeping
    <2> QED BY <1>2, <1>8, <2>1, <2>2 DEF Reasons
  <1>10. UsedOnce'
    <2> SUFFICES ASSUME NEW n \in Nodes \ retaken PROVE Uses(n)'
      BY DEF UsedOnce, Nodes
    <2>1. Uses(n)
      BY DEF IInv, UsedOnce
    <2>2. \A u \in Workers : pc'[u] \in Using <=> pc[u] \in Using \/ u = w
      BY <1>0, <1>1 DEF Using, Holding
    <2> HIDE DEF Destroy, e
    <2> QED BY <1>2, <1>8, <2>1, <2>2 DEF Uses
  <1>11. Allowed'
    <2>1. Allowed /\ allow' = allow /\ clobbered' = clobbered /\ retaken' = retaken
      BY DEF IInv
    <2>2. \A u \in Workers : pc'[u] \in {"enable", "record"} => pc[u] = pc'[u]
      BY <1>0, <1>1
    <2> QED BY <1>8, <2>1, <2>2 DEF Allowed
  <1> QED BY <1>3, <1>5, <1>6, <1>7, <1>9, <1>10, <1>11 DEF IInv

-----------------------------------------------------------------------------
(* The steps that write the allow list. *)
LEMMA AddWriteInv ==
  ASSUME IInv, NEW w \in Workers, AddWrite(w)
  PROVE  IInv'
  <1> USE DEF AddWrite
  <1>0. TypeOK /\ Place /\ pc[w] = "add_write"
    BY DEF IInv
  <1>1. /\ pc'[w] = "enable" /\ \A u \in Workers \ {w} : pc'[u] = pc[u]
        /\ pc' \in [Workers -> Enabling \cup Disabling \cup {"idle"}]
    BY <1>0, GotoEffect DEF Enabling
  <1>2. Node(w) \in Nodes /\ port[w] \in Ports
    BY <1>0, Keys DEF NeedsPort, Holding
  <1>3. TypeOK'
    BY <1>0, <1>1, <1>2 DEF TypeOK, Overwritten
  <1>4. OwnStep(w)
    BY <1>0, <1>1, <1>2 DEF OwnStep
  <1>5. Place'
    BY <1>0, <1>4, PlaceKept
  <1>6. RowOf'
    BY <1>0, <1>1, <1>4, RowOfKept DEF IInv, Enabling
  <1>7. Claimed'
    BY <1>0, <1>1, <1>4, ClaimsKept DEF IInv, Holding
  <1>8. exposed' = exposed /\ retaken' = retaken /\ \A u \in Workers : Node(u)' = Node(u)
    BY DEF Node
  <1>9. \A n : n \notin clobbered' => n \notin clobbered /\ (n \in allow' <=> n \in allow \/ n = Node(w))
    BY DEF Overwritten
  <1>10. Reasons'
    <2>1. Reasons /\ leftover' = leftover \cap allow'
      BY DEF IInv
    <2>2. \A u \in Workers : pc[u] \in Keeping \/ u = w => pc'[u] \in Keeping
      BY <1>0, <1>1 DEF Keeping
    <2> HIDE DEF AddWrite
    <2> QED BY <1>8, <1>9, <2>1, <2>2 DEF Reasons
  <1>11. UsedOnce'
    BY <1>0, <1>1, <1>4, UsesKept DEF IInv, Using, Holding
  <1>12. Allowed'
    <2>1. Allowed
      BY DEF IInv
    <2>2. \A u \in Workers : pc'[u] \in {"enable", "record"} => pc[u] = pc'[u] \/ u = w
      BY <1>1
    <2>3. \A n \in allow \cup clobbered \cup retaken : n \in allow' \cup clobbered' \cup retaken'
      BY <1>8, <1>9
    <2>4. Node(w) \in allow'
      OBVIOUS
    <2> HIDE DEF AddWrite
    <2> QED BY <1>8, <2>1, <2>2, <2>3, <2>4 DEF Allowed
  <1> QED BY <1>3, <1>5, <1>6, <1>7, <1>10, <1>11, <1>12 DEF IInv

(* Nothing needs the entry that goes, or its board had retaken the port.    *)
LEMMA RemoveWriteInv ==
  ASSUME IInv, NEW w \in Workers, RemoveWrite(w)
  PROVE  IInv'
  <1> USE DEF RemoveWrite, Without
  <1>0. TypeOK /\ Place /\ RowOf /\ pc[w] = "del_write"
    BY DEF IInv
  <1>1. OwnStep(w) /\ pc'[w] = "idle" /\ \A u \in Workers \ {w} : pc'[u] = pc[u] /\ Node(u)' = Node(u)
    BY <1>0, FinishEffect DEF OwnStep, Node
  <1>2. TypeOK'
    BY <1>0, FinishEffect DEF TypeOK, Overwritten
  <1>3. Place'
    BY <1>0, <1>1, PlaceKept
  <1>4. RowOf'
    BY <1>0, <1>1, RowOfKept DEF Enabling
  <1>5. Claimed'
    BY <1>0, <1>1, ClaimsKept DEF IInv, Holding
  <1>6. \A n : n \notin clobbered' => n \notin clobbered /\ (n \in allow' <=> n \in allow /\ n # Node(w))
    BY DEF Overwritten
  <1>7. exposed' = exposed /\ retaken' = retaken /\ leftover' = leftover \cap allow'
    OBVIOUS
  <1>8. Reasons'
    <2>1. Reasons
      BY DEF IInv
    <2> HIDE DEF RemoveWrite
    <2> QED BY <1>1, <1>6, <1>7, <2>1 DEF Reasons
  <1>9. UsedOnce'
    BY <1>0, <1>1, UsesKept DEF IInv, Using, Holding
  <1>10. Allowed'
    <2>1. Allowed /\ UsedOnce /\ pc[w] \in Using
      BY <1>0 DEF IInv, Using
    <2>2. Node(w) \in Nodes
      BY <1>0, Keys DEF NeedsPort, Disabling
    <2>3. Node(w) \notin retaken =>
            /\ \A e \in exposed : <<e[1], e[3]>> # Node(w)
            /\ \A u \in Workers \ {w} : pc[u] \in Using => Node(u) # Node(w)
      BY <2>1, <2>2 DEF UsedOnce, Uses
    <2>4. \A u \in Workers : pc'[u] \in {"enable", "record"} =>
            u # w /\ pc[u] = pc'[u] /\ pc[u] \in Using /\ Node(u)' = Node(u)
      BY <1>1 DEF Using, Holding
    <2>5. \A n \in allow \cup clobbered \cup retaken :
            n # Node(w) \/ n \in retaken => n \in allow' \cup clobbered' \cup retaken'
      BY <1>6, <1>7
    <2> HIDE DEF RemoveWrite
    <2> QED BY <1>7, <2>1, <2>3, <2>4, <2>5 DEF Allowed
  <1> QED BY <1>2, <1>3, <1>4, <1>5, <1>8, <1>9, <1>10 DEF IInv

-----------------------------------------------------------------------------
(* An operation begins on a service that no other thread works on.          *)
LEMMA StartInv ==
  ASSUME IInv, TypeOK', NEW w \in Workers, NEW b \in Boards, NEW s \in Services,
         pc[w] = "idle", Unattended(b, s), job'[w] = <<b, s>>,
         \A u \in Workers \ {w} : pc'[u] = pc[u] /\ job'[u] = job[u] /\ port'[u] = port[u],
         UNCHANGED <<tables, ghosts>>,
         \/ pc'[w] = "check" /\ Rows(b, s) = {}
         \/ pc'[w] = "disable" /\ port'[w] \in Ports /\ <<b, s, port'[w]>> \in exposed
  PROVE  IInv'
  <1> USE DEF tables, ghosts
  <1>0. TypeOK /\ Place /\ RowOf
    BY DEF IInv
  <1>1. \A u \in Workers \ {w} : Of(u)' = Of(u) /\ Node(u)' = Node(u) /\ job[u] # <<b, s>>
    BY DEF Of, Node, Unattended
  <1>2. pc'[w] \notin Holding /\ pc'[w] \notin Keeping /\ pc[w] \notin Holding /\ pc[w] \notin Keeping
    BY DEF Holding, Keeping
  <1>3. Place'
    <2>1. <<b, s>> \in Jobs
      BY DEF Jobs
    <2>2. \A u \in Workers : pc'[u] \in Holding \cup Disabling \cup {"take"} => port'[u] \in Ports
      <3>1. pc'[w] \in Holding \cup Disabling \cup {"take"} => port'[w] \in Ports
        BY <1>2 DEF Disabling
      <3> QED BY <1>0, <3>1 DEF Place
    <2>3. \A u \in Workers : pc'[u] # "idle" => job'[u] \in Jobs
      BY <1>0, <2>1 DEF Place
    <2>4. \A u, v \in Workers : pc'[u] # "idle" /\ pc'[v] # "idle" /\ job'[u] = job'[v] => u = v
      BY <1>0, <1>1 DEF Place
    <2> QED BY <2>2, <2>3, <2>4 DEF Place
  <1>4. RowOf'
    <2>1. pc'[w] = "disable" => Of(w)' \in exposed
      BY DEF Of
    <2>2. pc'[w] = "check" => \A e \in exposed : <<b, s>> # <<e[1], e[2]>>
      BY DEF Rows
    <2>3. \A u \in Workers : pc'[u] \in {"disable", "append", "destroy"} => Of(u)' \in exposed'
      BY <1>0, <1>1, <2>1 DEF RowOf
    <2>4. \A u \in Workers : pc'[u] \in Enabling \cup {"del_read", "del_write"} =>
            \A e \in exposed' : job'[u] # <<e[1], e[2]>>
      <3>1. pc'[w] = "disable" => pc'[w] \notin Enabling \cup {"del_read", "del_write"}
        BY DEF Enabling
      <3> QED BY <1>0, <2>2, <3>1 DEF RowOf
    <2> QED BY <1>0, <2>3, <2>4 DEF RowOf, Enabling
  <1>5. Claimed'
    <2>1. \A u \in Workers : pc[u] = "destroy" => Of(u)' = Of(u)
      BY <1>1
    <2>2. \A e : Leaving(e)' <=> Leaving(e)
      BY <2>1 DEF Leaving
    <2>3. \A u \in Workers : pc'[u] \in Holding => pc[u] \in Holding /\ port'[u] = port[u]
      BY <1>2
    <2> HIDE DEF Leaving
    <2> QED BY <2>2, <2>3 DEF IInv, Claimed, Claims
  <1>6. Reasons'
    <2>1. \A u \in Workers : pc[u] \in Keeping => pc'[u] \in Keeping /\ Node(u)' = Node(u)
      BY <1>1, <1>2
    <2> QED BY <2>1 DEF IInv, Reasons
  <1>7. UsedOnce'
    <2>1. \A u \in Workers : pc'[u] \in Using => pc[u] \in Using /\ Node(u)' = Node(u)
      BY <1>1 DEF Using, Holding
    <2> QED BY <2>1 DEF IInv, UsedOnce, Uses, Nodes
  <1>8. Allowed'
    <2>1. \A u \in Workers : pc'[u] \in {"enable", "record"} => pc[u] = pc'[u] /\ Node(u)' = Node(u)
      BY <1>1
    <2> QED BY <2>1 DEF IInv, Allowed
  <1> QED BY <1>3, <1>4, <1>5, <1>6, <1>7, <1>8 DEF IInv

(* An operation begins for a service that its board does not expose.        *)
LEMMA ServiceEnableInv ==
  ASSUME IInv, NEW w \in Workers, NEW b \in Boards, NEW s \in Services, ServiceEnable(w, b, s)
  PROVE  IInv'
  <1> USE DEF ServiceEnable
  <1>0. TypeOK /\ RowOf
    BY DEF IInv
  <1>1. /\ pc'[w] = "check" /\ \A u \in Workers \ {w} : pc'[u] = pc[u]
        /\ pc' \in [Workers -> Enabling \cup Disabling \cup {"idle"}]
    BY <1>0, GotoEffect DEF Enabling
  <1>2. job' \in [Workers -> Jobs \cup {NULL}] /\ job'[w] = <<b, s>> /\ \A u \in Workers \ {w} : job'[u] = job[u]
    BY <1>0 DEF TypeOK, Jobs
  <1>3. TypeOK'
    BY <1>0, <1>1, <1>2 DEF TypeOK, tables, ghosts
  <1>4. Rows(b, s) = {}
    <2> SUFFICES ASSUME NEW e \in Rows(b, s) PROVE FALSE
      OBVIOUS
    <2>1. Rows(b, s) = {e}
      BY <1>0 DEF Rows, RowOf
    <2> QED BY <2>1, FS_Singleton
  <1> QED BY <1>1, <1>2, <1>3, <1>4, StartInv

(* An operation begins for one that it exposes.                             *)
LEMMA ServiceDisableInv ==
  ASSUME IInv, NEW w \in Workers, NEW b \in Boards, NEW s \in Services, NEW p \in Ports,
         ServiceDisable(w, b, s, p)
  PROVE  IInv'
  <1> USE DEF ServiceDisable
  <1>0. TypeOK
    BY DEF IInv
  <1>1. /\ pc'[w] = "disable" /\ \A u \in Workers \ {w} : pc'[u] = pc[u]
        /\ pc' \in [Workers -> Enabling \cup Disabling \cup {"idle"}]
    BY <1>0, GotoEffect DEF Disabling
  <1>2. job' \in [Workers -> Jobs \cup {NULL}] /\ job'[w] = <<b, s>> /\ \A u \in Workers \ {w} : job'[u] = job[u]
    BY <1>0 DEF TypeOK, Jobs
  <1>3. port' \in [Workers -> Ports \cup {NULL}] /\ port'[w] = p /\ \A u \in Workers \ {w} : port'[u] = port[u]
    BY <1>0 DEF TypeOK
  <1>4. TypeOK'
    BY <1>0, <1>1, <1>2, <1>3 DEF TypeOK, tables, ghosts
  <1>5. <<b, s, p>> \in exposed
    BY DEF Rows
  <1> QED BY <1>1, <1>2, <1>3, <1>4, <1>5, StartInv

(* All threads are gone, and the list with them. *)
LEMMA RestartInv == IInv /\ Restart => IInv'
  <1> SUFFICES ASSUME IInv, Restart PROVE IInv'
    OBVIOUS
  <1> USE DEF Restart
  <1>0. TypeOK /\ Place /\ RowOf
    BY DEF IInv
  <1>1. \A w \in Workers : pc'[w] = "idle"
    OBVIOUS
  <1>2. TypeOK'
    <2>1. \A w \in Workers : pc[w] \in {"enable", "record", "del_read"} => Node(w) \in Nodes
      BY <1>0, Keys DEF NeedsPort, Holding, Disabling
    <2>2. leftover' \subseteq Nodes
      BY <1>0, <2>1 DEF TypeOK
    <2>3. free' \in [Ports -> Nat] /\ pc' \in [Workers -> Enabling \cup Disabling \cup {"idle"}]
          /\ job' \in [Workers -> Jobs \cup {NULL}] /\ port' \in [Workers -> Ports \cup {NULL}]
      OBVIOUS
    <2>4. view' \in [Workers -> SUBSET Ports] /\ file' \in [Workers -> SUBSET Nodes]
      OBVIOUS
    <2>5. restarts' \in 0 .. MaxRestarts
      BY <1>0, PortsAssumption DEF TypeOK
    <2>6. reused' \subseteq Ports
      BY <1>0 DEF TypeOK, Place, Disabling
    <2> QED BY <1>0, <2>2, <2>3, <2>4, <2>5, <2>6 DEF TypeOK
  <1>3. Place'
    BY <1>1 DEF Place, Holding, Disabling
  <1>4. RowOf'
    BY <1>0, <1>1 DEF RowOf, Enabling
  <1>5. Claimed'
    <2> SUFFICES ASSUME NEW p \in Ports \ reused' PROVE Claims(p)'
      BY DEF Claimed
    <2>1. Claims(p) /\ \A w \in Workers : pc[w] = "destroy" => port[w] # p
      BY DEF IInv, Claimed
    <2>2. \A e \in exposed : e[3] = p => ~Leaving(e)
      BY <2>1 DEF Leaving, Of
    <2>3. exposed' = exposed /\ free'[p] = 0 /\ \A w \in Workers : pc'[w] \notin Holding
      BY <1>1 DEF Holding
    <2> HIDE DEF Restart, Leaving
    <2> QED BY <2>1, <2>2, <2>3 DEF Claims
  <1>6. Reasons'
    <2>1. \A w \in Workers : pc[w] \in Keeping => Node(w) \in leftover' \/ Node(w) \notin allow
      BY DEF Keeping
    <2> QED BY <2>1 DEF IInv, Reasons
  <1>7. UsedOnce'
    <2>1. \A w \in Workers : pc'[w] \notin Using
      BY <1>1 DEF Using, Holding
    <2>2. exposed' = exposed /\ retaken' = retaken /\ UsedOnce
      BY DEF IInv
    <2> HIDE DEF Restart
    <2> QED BY <2>1, <2>2 DEF UsedOnce, Uses, Nodes
  <1>8. Allowed'
    BY <1>1 DEF IInv, Allowed
  <1> QED BY <1>2, <1>3, <1>4, <1>5, <1>6, <1>7, <1>8 DEF IInv

(* The invariant is about the variables alone.                              *)
LEMMA StutterInv == IInv /\ UNCHANGED vars => IInv'
  <1> SUFFICES ASSUME IInv, UNCHANGED vars PROVE IInv'
    OBVIOUS
  <1> USE DEF vars, tables, locals, ghosts
  <1>1. TypeOK' /\ Place' /\ RowOf'
    BY DEF IInv, TypeOK, Place, RowOf, Of
  <1>2. \A e : Leaving(e)' <=> Leaving(e)
    BY DEF Leaving, Of
  <1>3. Claimed'
    BY <1>2 DEF IInv, Claimed, Claims
  <1>4. Reasons' /\ Allowed'
    BY DEF IInv, Reasons, Allowed, Node
  <1>5. UsedOnce'
    BY DEF IInv, UsedOnce, Uses, Node, Nodes
  <1> QED BY <1>1, <1>3, <1>4, <1>5 DEF IInv

(* Every step of ServicePorts keeps the invariant. *)
LEMMA NextInv == IInv /\ [Next]_vars => IInv'
  <1> SUFFICES ASSUME IInv, [Next]_vars PROVE IInv'
    OBVIOUS
  <1>1. ASSUME NEW w \in Workers, Step(w) PROVE IInv'
    BY <1>1, CheckListInv, ReadUsedInv, RefillInv, ChooseInv, NotEnoughPortInv, TakeInv,
       AddReadInv, AddWriteInv, EnabledOnBoardInv, EnableFailsInv, RecordInv,
       DisabledOnBoardInv, DisableFailsInv, AppendInv, DestroyInv, RemoveReadInv,
       RemoveWriteInv, AgentUnreachableInv DEF Step
  <1> QED BY <1>1, ServiceEnableInv, ServiceDisableInv, RestartInv, StutterInv DEF Next

(* The invariant holds in every reachable state, whatever the threads'      *)
(* interleaving.                                                            *)
THEOREM Inductive == Spec => []IInv
  BY InitInv, NextInv, PTL DEF Spec

(* The tables hold services, ports and entries, and a thread is somewhere   *)
(* in its operation.                                                        *)
THEOREM TypeCorrect == Spec => []TypeOK
  <1>1. IInv => TypeOK
    BY DEF IInv
  <1> QED BY Inductive, <1>1, PTL

(* Two services never share a public port, unless one of them is being      *)
(* disabled or the port was in use when the list was rebuilt with it.       *)
THEOREM PortsAreNotShared == Spec => []NoSharedPort
  <1>1. IInv => NoSharedPort
    <2> SUFFICES ASSUME IInv, NEW e \in exposed, NEW f \in exposed, e # f, e[3] = f[3], e[3] \notin reused
                 PROVE  \E w \in Workers : pc[w] = "destroy" /\ job[w] \in {<<e[1], e[2]>>, <<f[1], f[2]>>}
      BY DEF NoSharedPort
    <2>1. Leaving(e) \/ Leaving(f)
      BY DEF IInv, TypeOK, Claimed, Claims
    <2>2. PICK w \in Workers : pc[w] = "destroy" /\ (Of(w) = e \/ Of(w) = f)
      BY <2>1 DEF Leaving
    <2>3. job[w] = <<job[w][1], job[w][2]>>
      BY <2>2, Keys DEF IInv
    <2> QED BY <2>2, <2>3 DEF Of
  <1> QED BY Inductive, <1>1, PTL

(* The list holds a port once at most, and not one that is in use.          *)
THEOREM ListedIsUnused == Spec => []FreeIsUnused
  <1>1. IInv => FreeIsUnused
    <2> SUFFICES ASSUME IInv, NEW p \in Ports \ reused
                 PROVE  /\ free[p] <= 1
                        /\ free[p] = 1 => /\ p \notin Held
                                          /\ \A e \in exposed : e[3] = p =>
                                               \E w \in Workers : pc[w] = "destroy" /\ port[w] = p
      BY DEF FreeIsUnused
    <2>1. Claims(p)
      BY DEF IInv, Claimed
    <2>2. free[p] = 1 => p \notin Held
      BY <2>1 DEF Claims, Held, Holders, Holding
    <2>3. ASSUME free[p] = 1, NEW e \in exposed, e[3] = p
          PROVE  \E w \in Workers : pc[w] = "destroy" /\ port[w] = p
      <3>1. Leaving(e)
        BY <2>1, <2>3 DEF Claims
      <3> QED BY <2>3, <3>1 DEF Leaving, Of
    <2> QED BY <2>1, <2>2, <2>3 DEF Claims
  <1> QED BY Inductive, <1>1, PTL

(* An entry of the allow list has a service, a thread, or a failure that    *)
(* left it there, unless two threads of the agent brought it back.          *)
THEOREM EntriesHaveReasons == Spec => []AllowedIsExposed
  <1>1. IInv => AllowedIsExposed
    BY DEF IInv, Reasons, AllowedIsExposed, Keeping
  <1> QED BY Inductive, <1>1, PTL

(* Whatever is exposed is allowed, for boards with any number of services,  *)
(* unless the board took the port while it used it or two threads of the    *)
(* agent lost the entry.                                                    *)
THEOREM ExposedHasEntry == Spec => []ExposedKeepsEntry
  <1>1. IInv => ExposedKeepsEntry
    BY DEF IInv, Allowed, ExposedKeepsEntry
  <1> QED BY Inductive, <1>1, PTL
=============================================================================
