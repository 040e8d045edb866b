--------------------------- MODULE VifPorts_proofs --------------------------
(***************************************************************************)
(* Interfaces and their ports: IInv is an inductive invariant of VifPorts  *)
(* for any clients, boards, numbers, ports of Neutron and processes, and   *)
(* calls of any number.                                                    *)
(*                                                                         *)
(* First the processes and their table (RegistryInv), for any agents, any  *)
(* processes of a host and any number of starts, stops and kills: what it  *)
(* says, it says of one host at a time (TableAt), and a step of a host     *)
(* leaves the rows and the processes of the other hosts alone. Of the rest,*)
(* a port of Neutron has one holder (OwnUuid): the call that makes it, or  *)
(* its row, or the removals of it. Who has left the list holds its number  *)
(* no more, and a number that two hold is one the ghost knows of (OneClaim,*)
(* NoSharedNumber): when a number goes into the list, the walk that has    *)
(* come to its end over a list that did not change (Walked) has seen every *)
(* holder that is listed, and a holder is listed unless the ghost says why *)
(* not (ClaimsListed, RowIsListed).                                        *)
(*                                                                         *)
(* Most steps leave the rows, the boards and the lists alone: QuietStep    *)
(* says once what such a step has to do.                                   *)
(***************************************************************************)
EXTENDS VifPorts, WellFoundedInduction, TLAPS

-----------------------------------------------------------------------------
(* The agents, the conductor and their table *)

(* The ghost of a host that was killed, or that overlapped. *)
FateOK == fate \in [killed : SUBSET Hosts, overlap : SUBSET Hosts]

(* The row of a host and its processes: a process that is up is online or   *)
(* was overlapped, and a row online has a process or one that was killed. A *)
(* process past its first registration has a row, and a row advertises what *)
(* the agent is configured for, unless its process was killed or has not    *)
(* come to save that yet.                                                   *)
TableAt(h) ==
  /\ (\E p \in Procs : proc[h][p] \in Up) => IsOnline(h) \/ h \in fate.overlap
  /\ IsOnline(h) => (\E p \in Procs : proc[h][p] # "off") \/ h \in fate.killed
  /\ h \in Agents =>
       /\ \A p \in Procs : proc[h][p] \in {"again", "flag", "run", "stop"} => wampagents[h] # NULL
       /\ Advertises(h) => \/ conf[h].ragent \/ h \in fate.killed
                           \/ \E p \in Procs : proc[h][p] \in {"register", "again", "flag"}

RegistryInv == RegistryTypeOK /\ FateOK /\ \A h \in Hosts : TableAt(h)

(* A step of host h leaves the others as they are. *)
OthersStay(h) ==
  \A g \in Hosts \ {h} :
    /\ \A q \in Procs : proc'[g][q] = proc[g][q]
    /\ (g \in fate'.killed <=> g \in fate.killed)
    /\ (g \in fate'.overlap <=> g \in fate.overlap)
    /\ g = Conductor => conductors' = conductors
    /\ g \in Agents => wampagents'[g] = wampagents[g] /\ conf'[g] = conf[g]

(* What is shown of a step of host h. *)
HostStep(h) == RegistryTypeOK' /\ FateOK' /\ OthersStay(h) /\ TableAt(h)'

-----------------------------------------------------------------------------
(* Where Goto takes a process, and that it moves no other. *)
LEMMA GotoEffect ==
  ASSUME RegistryTypeOK, NEW h \in Hosts, NEW p \in Procs, NEW at \in Steps(h), Goto(h, p, at)
  PROVE  /\ proc' \in [Hosts -> [Procs -> UNION {Steps(g) : g \in Hosts}]]
         /\ \A g \in Hosts, q \in Procs : proc'[g][q] \in Steps(g)
         /\ \A g \in Hosts, q \in Procs :
              proc'[g][q] = IF g = h /\ q = p THEN at ELSE proc[g][q]
<1>1. \A g \in Hosts, q \in Procs : proc'[g][q] = IF g = h /\ q = p THEN at ELSE proc[g][q]
  BY DEF Goto, RegistryTypeOK
<1>2. \A g \in Hosts, q \in Procs : proc'[g][q] \in Steps(g)
  BY <1>1 DEF RegistryTypeOK
<1>3. proc' \in [Hosts -> [Procs -> UNION {Steps(g) : g \in Hosts}]]
  BY DEF Goto, RegistryTypeOK
<1>. QED BY <1>1, <1>2, <1>3

(* The conductor is a host and none of the agents.                          *)
LEMMA AgentIsHost == Conductor \in Hosts /\ Agents \subseteq Hosts /\ Conductor \notin Agents
BY RegistryAssumption DEF Hosts

(* So the others have their rows and processes in order if they had. *)
LEMMA StepOfHost ==
  ASSUME \A g \in Hosts : TableAt(g), NEW h \in Hosts, OthersStay(h), TableAt(h)'
  PROVE  \A g \in Hosts : TableAt(g)'
<1>. SUFFICES ASSUME NEW g \in Hosts, g # h PROVE TableAt(g)'
  OBVIOUS
<1>1. IsOnline(g)' <=> IsOnline(g)
  BY DEF OthersStay, IsOnline, Online, Hosts
<1>2. g \in Agents => (Advertises(g)' <=> Advertises(g))
  BY DEF OthersStay, Advertises, Online
<1>. QED BY <1>1, <1>2 DEF OthersStay, TableAt

-----------------------------------------------------------------------------
(* What becomes of the ghosts. *)
LEMMA RegisteredEffect ==
  ASSUME FateOK, NEW h \in Hosts, Registered(h)
  PROVE  /\ FateOK'
         /\ h \notin fate'.killed /\ h \notin fate'.overlap
         /\ \A g \in Hosts \ {h} : /\ g \in fate'.killed <=> g \in fate.killed
                                   /\ g \in fate'.overlap <=> g \in fate.overlap
BY DEF FateOK, Registered

(* Killing a process of a host is told of that host only.                   *)
LEMMA KilledEffect ==
  ASSUME FateOK, NEW h \in Hosts, fate' = [fate EXCEPT !.killed = @ \cup {h}]
  PROVE  /\ FateOK'
         /\ h \in fate'.killed /\ (h \in fate'.overlap <=> h \in fate.overlap)
         /\ \A g \in Hosts \ {h} : /\ g \in fate'.killed <=> g \in fate.killed
                                   /\ g \in fate'.overlap <=> g \in fate.overlap
BY DEF FateOK

(* A process that starts has registered nothing yet.                        *)
LEMMA StartStep ==
  ASSUME RegistryInv, NEW h \in Hosts, NEW p \in Procs, Start(h, p)
  PROVE  HostStep(h)
<1>1. /\ \A g \in Hosts, q \in Procs : proc'[g][q] \in Steps(g)
      /\ proc' \in [Hosts -> [Procs -> UNION {Steps(g) : g \in Hosts}]]
      /\ \A g \in Hosts, q \in Procs :
           proc'[g][q] = IF g = h /\ q = p THEN "register" ELSE proc[g][q]
  BY GotoEffect DEF RegistryInv, Start, Steps
<1>2. /\ proc[h][p] = "off" /\ \A q \in Procs : proc[h][q] \in {"off", "stop"}
      /\ UNCHANGED <<conductors, wampagents, found, conf, fate>>
  BY DEF Start
<1>3. RegistryTypeOK' /\ FateOK'
  BY <1>1, <1>2 DEF RegistryInv, RegistryTypeOK, FateOK
<1>4. OthersStay(h)
  BY <1>1, <1>2 DEF OthersStay
<1>5. TableAt(h)'
  <2>1. TableAt(h)
    BY DEF RegistryInv
  <2>. QED BY <1>1, <1>2, <2>1 DEF TableAt, IsOnline, Online, Advertises, Up
<1>. QED BY <1>3, <1>4, <1>5 DEF HostStep

(* The conductor inserts its row, finds one that is online, or updates it   *)
(* and goes on.                                                             *)
LEMMA RegisterConductorStep ==
  ASSUME RegistryInv, NEW p \in Procs, RegisterConductor(p) \/ UpdateConductor(p)
  PROVE  HostStep(Conductor)
<1>. DEFINE h == Conductor
<1>0. h \in Hosts /\ h \notin Agents
  BY AgentIsHost
<1>1. PICK at \in {"again", "look"} :
        /\ Goto(h, p, at)
        /\ at = "again" => conductors = TRUE /\ conductors' = TRUE /\ fate' = fate
        /\ at = "look" => conductors' = TRUE /\ Registered(h)
        /\ UNCHANGED <<wampagents, found, conf>>
  BY DEF RegisterConductor, UpdateConductor
<1>2. /\ \A g \in Hosts, q \in Procs : proc'[g][q] \in Steps(g)
      /\ proc' \in [Hosts -> [Procs -> UNION {Steps(g) : g \in Hosts}]]
      /\ \A g \in Hosts, q \in Procs :
           proc'[g][q] = IF g = h /\ q = p THEN at ELSE proc[g][q]
  BY <1>0, <1>1, GotoEffect DEF RegistryInv, Steps
<1>3. /\ FateOK'
      /\ \A g \in Hosts \ {h} : /\ g \in fate'.killed <=> g \in fate.killed
                                /\ g \in fate'.overlap <=> g \in fate.overlap
  <2>1. CASE at = "again"
    BY <1>1, <2>1 DEF RegistryInv, FateOK
  <2>2. CASE at = "look"
    BY <1>0, <1>1, <2>2, RegisteredEffect DEF RegistryInv
  <2>. QED BY <2>1, <2>2
<1>4. RegistryTypeOK'
  BY <1>1, <1>2 DEF RegistryInv, RegistryTypeOK
<1>5. OthersStay(h)
  BY <1>1, <1>2, <1>3 DEF OthersStay
<1>6. TableAt(h)'
  BY <1>0, <1>1, <1>2 DEF TableAt, IsOnline
<1>. QED BY <1>3, <1>4, <1>5, <1>6 DEF HostStep

(* The conductor picks a registration agent, or ends because there is none. *)
LEMMA FindStep ==
  ASSUME RegistryInv, NEW p \in Procs, FindRegistrationAgent(p)
  PROVE  HostStep(Conductor)
<1>. DEFINE h == Conductor
<1>0. h \in Hosts /\ h \notin Agents
  BY AgentIsHost
<1>1. PICK at \in {"serve", "off"} :
        /\ Goto(h, p, at)
        /\ at = "serve" => /\ fate' = fate
                           /\ \E a \in GetRegistrationAgent :
                                found' = [found EXCEPT ![p] = [host |-> a, wsurl |-> wampagents[a].wsurl]]
        /\ at = "off" => found' = found /\ fate' = [fate EXCEPT !.killed = @ \cup {h}]
        /\ proc[h][p] = "look"
        /\ UNCHANGED <<conductors, wampagents, conf>>
  BY DEF FindRegistrationAgent
<1>2. /\ \A g \in Hosts, q \in Procs : proc'[g][q] \in Steps(g)
      /\ proc' \in [Hosts -> [Procs -> UNION {Steps(g) : g \in Hosts}]]
      /\ \A g \in Hosts, q \in Procs :
           proc'[g][q] = IF g = h /\ q = p THEN at ELSE proc[g][q]
  BY <1>0, <1>1, GotoEffect DEF RegistryInv, Steps
<1>3. /\ FateOK'
      /\ at = "off" => h \in fate'.killed
      /\ h \in fate'.overlap <=> h \in fate.overlap
      /\ \A g \in Hosts \ {h} : /\ g \in fate'.killed <=> g \in fate.killed
                                /\ g \in fate'.overlap <=> g \in fate.overlap
  <2>1. CASE at = "serve"
    BY <1>1, <2>1 DEF RegistryInv, FateOK
  <2>2. CASE at = "off"
    BY <1>0, <1>1, <2>2, KilledEffect DEF RegistryInv
  <2>. QED BY <2>1, <2>2
<1>4. RegistryTypeOK'
  <2>1. found' \in [Procs -> [host : Agents, wsurl : Urls] \cup {NULL}]
    <3>1. \A a \in GetRegistrationAgent : a \in Agents /\ wampagents[a].wsurl \in Urls
      BY DEF GetRegistrationAgent, Advertises, Online, RegistryInv, RegistryTypeOK, AgentRows
    <3>2. found \in [Procs -> [host : Agents, wsurl : Urls] \cup {NULL}]
      BY DEF RegistryInv, RegistryTypeOK
    <3>3. CASE at = "serve"
      <4>1. PICK a \in GetRegistrationAgent :
              found' = [found EXCEPT ![p] = [host |-> a, wsurl |-> wampagents[a].wsurl]]
        BY <1>1, <3>3
      <4>2. [host |-> a, wsurl |-> wampagents[a].wsurl] \in [host : Agents, wsurl : Urls]
        BY <3>1, <4>1
      <4>. QED BY <3>2, <4>1, <4>2
    <3>. QED BY <1>1, <3>2, <3>3
  <2>. QED BY <1>1, <1>2, <2>1 DEF RegistryInv, RegistryTypeOK
<1>5. OthersStay(h)
  BY <1>1, <1>2, <1>3 DEF OthersStay
<1>6. TableAt(h)'
  <2>1. TableAt(h)
    BY <1>0 DEF RegistryInv
  <2>. QED BY <1>0, <1>1, <1>2, <1>3, <2>1 DEF TableAt, IsOnline, Up
<1>. QED BY <1>3, <1>4, <1>5, <1>6 DEF HostStep

(* A Lightning-rod agent registers, sets its flags and runs.                *)
LEMMA AgentStepStep ==
  ASSUME RegistryInv, NEW h \in Agents, NEW p \in Procs, AgentStep(h, p)
  PROVE  HostStep(h)
<1>0. h \in Hosts /\ h # Conductor
  BY AgentIsHost
<1>1. PICK at \in {"again", "flag", "run"} :
        /\ Goto(h, p, at)
        /\ at = "again" => RegisterAgent(h, p)
        /\ at = "flag" => UpdateAgent(h, p)
        /\ at = "run" => SaveRagent(h, p)
        /\ UNCHANGED <<conductors, found, conf>>
  BY DEF AgentStep, RegisterAgent, UpdateAgent, SaveRagent
<1>2. /\ \A g \in Hosts, q \in Procs : proc'[g][q] \in Steps(g)
      /\ proc' \in [Hosts -> [Procs -> UNION {Steps(g) : g \in Hosts}]]
      /\ \A g \in Hosts, q \in Procs :
           proc'[g][q] = IF g = h /\ q = p THEN at ELSE proc[g][q]
  BY <1>0, <1>1, GotoEffect DEF RegistryInv, Steps
<1>3. /\ FateOK'
      /\ at = "flag" => h \notin fate'.killed
      /\ at # "flag" => (h \in fate'.killed <=> h \in fate.killed)
      /\ at # "flag" => (h \in fate'.overlap <=> h \in fate.overlap)
      /\ \A g \in Hosts \ {h} : /\ g \in fate'.killed <=> g \in fate.killed
                                /\ g \in fate'.overlap <=> g \in fate.overlap
  <2>1. CASE at = "flag"
    BY <1>0, <1>1, <2>1, RegisteredEffect DEF RegistryInv, UpdateAgent
  <2>2. CASE at # "flag"
    BY <1>1, <2>2 DEF RegistryInv, FateOK, RegisterAgent, SaveRagent
  <2>. QED BY <2>1, <2>2
<1>4. /\ wampagents' \in [Agents -> AgentRows \cup {NULL}]
      /\ \A g \in Agents \ {h} : wampagents'[g] = wampagents[g]
      /\ wampagents'[h] \in AgentRows
      /\ at \in {"again", "flag"} => wampagents'[h].online = TRUE
      /\ at = "run" => wampagents'[h].ragent = conf[h].ragent /\ wampagents'[h].online = wampagents[h].online
  <2>0. /\ wampagents \in [Agents -> AgentRows \cup {NULL}]
        /\ conf \in [Agents -> [ragent : BOOLEAN, wsurl : Urls]]
        /\ proc[h][p] \in {"again", "flag", "run", "stop"} => wampagents[h] # NULL
    BY <1>0 DEF RegistryInv, RegistryTypeOK, TableAt
  <2>1. CASE at = "again"
    <3>1. CASE Online(h)
      BY <1>1, <2>0, <2>1, <3>1 DEF RegisterAgent, Online
    <3>2. CASE ~Online(h)
      <4>. DEFINE row == [online |-> TRUE, wsurl |-> conf[h].wsurl,
                          ragent |-> IF wampagents[h] = NULL THEN FALSE ELSE wampagents[h].ragent]
      <4>1. row \in AgentRows /\ row.online = TRUE
        BY <2>0 DEF AgentRows
      <4>2. wampagents' = [wampagents EXCEPT ![h] = row]
        BY <1>1, <2>1, <3>2 DEF RegisterAgent
      <4>. HIDE DEF row
      <4>. QED BY <2>0, <2>1, <4>1, <4>2
    <3>. QED BY <3>1, <3>2
  <2>2. CASE at = "flag"
    <3>1. wampagents[h] \in AgentRows
      BY <1>1, <2>0, <2>2 DEF UpdateAgent
    <3>2. wampagents' = [wampagents EXCEPT ![h] = [wampagents[h] EXCEPT !.online = TRUE, !.wsurl = conf[h].wsurl]]
      BY <1>1, <2>0, <2>2, <3>1 DEF UpdateAgent, AgentRows
    <3>3. [wampagents[h] EXCEPT !.online = TRUE, !.wsurl = conf[h].wsurl] \in AgentRows
      BY <2>0, <3>1 DEF AgentRows
    <3>4. [wampagents[h] EXCEPT !.online = TRUE, !.wsurl = conf[h].wsurl].online = TRUE
      BY <3>1 DEF AgentRows
    <3>. QED BY <2>0, <2>2, <3>2, <3>3, <3>4
  <2>3. CASE at = "run"
    <3>1. wampagents[h] \in AgentRows
      BY <1>1, <2>0, <2>3 DEF SaveRagent
    <3>2. wampagents' = [wampagents EXCEPT ![h] = [wampagents[h] EXCEPT !.ragent = conf[h].ragent]]
      BY <1>1, <2>0, <2>3 DEF SaveRagent
    <3>3. [wampagents[h] EXCEPT !.ragent = conf[h].ragent] \in AgentRows
      BY <2>0, <3>1 DEF AgentRows
    <3>. QED BY <2>0, <2>3, <3>1, <3>2, <3>3 DEF AgentRows
  <2>. QED BY <2>1, <2>2, <2>3
<1>5. RegistryTypeOK'
  BY <1>1, <1>2, <1>4 DEF RegistryInv, RegistryTypeOK
<1>6. OthersStay(h)
  BY <1>1, <1>2, <1>3, <1>4, AgentIsHost DEF OthersStay
<1>7. TableAt(h)'
  <2>1. TableAt(h)
    BY <1>0 DEF RegistryInv
  <2>2. wampagents'[h] # NULL
    BY <1>4, RegistryAssumption
  <2>3. (\E q \in Procs : proc[h][q] \in Up)' => IsOnline(h)' \/ h \in fate'.overlap
    <3>1. CASE at \in {"again", "flag"}
      BY <1>0, <1>4, <2>2, <3>1 DEF IsOnline, Online
    <3>2. CASE at = "run"
      <4>1. proc[h][p] = "flag"
        BY <1>1, <3>2 DEF SaveRagent
      <4>2. wampagents[h] # NULL
        BY <4>1, <2>1 DEF TableAt
      <4>3. Online(h)' <=> Online(h)
        BY <1>4, <2>2, <3>2, <4>2 DEF Online
      <4>. QED BY <1>0, <1>3, <2>1, <3>2, <4>1, <4>3 DEF TableAt, Up, IsOnline
    <3>. QED BY <3>1, <3>2
  <2>4. \E q \in Procs : proc'[h][q] # "off"
    BY <1>0, <1>2
  <2>5. Advertises(h)' => \/ conf'[h].ragent \/ h \in fate'.killed
                          \/ \E q \in Procs : proc'[h][q] \in {"register", "again", "flag"}
    BY <1>0, <1>1, <1>2, <1>4 DEF Advertises
  <2>. QED BY <2>2, <2>3, <2>4, <2>5 DEF TableAt
<1>. QED BY <1>3, <1>5, <1>6, <1>7 DEF HostStep

(* A process is told to stop, or killed without a word.                     *)
LEMMA EndStep ==
  ASSUME RegistryInv, NEW h \in Hosts, NEW p \in Procs, Interrupt(h, p) \/ Kill(h, p)
  PROVE  HostStep(h)
<1>1. PICK at \in {"stop", "off"} :
        /\ Goto(h, p, at)
        /\ at = "stop" => fate' = fate /\ proc[h][p] \in {"serve", "run"}
        /\ at = "off" => fate' = [fate EXCEPT !.killed = @ \cup {h}]
        /\ UNCHANGED <<conductors, wampagents, found, conf>>
  BY DEF Interrupt, Kill
<1>2. /\ \A g \in Hosts, q \in Procs : proc'[g][q] \in Steps(g)
      /\ proc' \in [Hosts -> [Procs -> UNION {Steps(g) : g \in Hosts}]]
      /\ \A g \in Hosts, q \in Procs :
           proc'[g][q] = IF g = h /\ q = p THEN at ELSE proc[g][q]
  BY <1>1, GotoEffect DEF RegistryInv, Steps
<1>3. /\ FateOK'
      /\ at = "off" => h \in fate'.killed
      /\ at = "stop" => (h \in fate'.killed <=> h \in fate.killed)
      /\ h \in fate'.overlap <=> h \in fate.overlap
      /\ \A g \in Hosts \ {h} : /\ g \in fate'.killed <=> g \in fate.killed
                                /\ g \in fate'.overlap <=> g \in fate.overlap
  <2>1. CASE at = "stop"
    BY <1>1, <2>1 DEF RegistryInv, FateOK
  <2>2. CASE at = "off"
    BY <1>1, <2>2, KilledEffect DEF RegistryInv
  <2>. QED BY <2>1, <2>2
<1>4. RegistryTypeOK'
  BY <1>1, <1>2 DEF RegistryInv, RegistryTypeOK
<1>5. OthersStay(h)
  BY <1>1, <1>2, <1>3 DEF OthersStay
<1>6. TableAt(h)'
  <2>1. TableAt(h)
    BY DEF RegistryInv
  <2>2. IsOnline(h)' = IsOnline(h) /\ Advertises(h)' = Advertises(h)
    BY <1>1 DEF IsOnline, Online, Advertises
  <2>3. (\E q \in Procs : proc'[h][q] \in Up) => \E q \in Procs : proc[h][q] \in Up
    BY <1>2 DEF Up
  <2>4. (\E q \in Procs : proc[h][q] # "off") =>
          (\E q \in Procs : proc'[h][q] # "off") \/ h \in fate'.killed
    BY <1>2, <1>3
  <2>5. ASSUME h \in Agents
        PROVE  /\ \A q \in Procs : proc'[h][q] \in {"again", "flag", "run", "stop"} => wampagents'[h] # NULL
               /\ (\E q \in Procs : proc[h][q] \in {"register", "again", "flag"}) =>
                    (\E q \in Procs : proc'[h][q] \in {"register", "again", "flag"}) \/ h \in fate'.killed
    <3>1. h # Conductor
      BY <2>5, AgentIsHost
    <3>2. at = "stop" => proc[h][p] = "run"
      BY <1>1, <2>5, <3>1 DEF RegistryInv, RegistryTypeOK, Steps
    <3>. QED BY <1>1, <1>2, <1>3, <2>1, <2>5, <3>2 DEF TableAt
  <2>6. h \in fate.killed => h \in fate'.killed
    BY <1>3
  <2>. QED BY <1>1, <1>3, <2>1, <2>2, <2>3, <2>4, <2>5, <2>6 DEF TableAt
<1>. QED BY <1>3, <1>4, <1>5, <1>6 DEF HostStep

(* A process that stops leaves its row offline.                             *)
LEMMA UnregisterStep ==
  ASSUME RegistryInv, NEW h \in Hosts, NEW p \in Procs, Unregister(h, p)
  PROVE  HostStep(h)
<1>1. Goto(h, p, "off") /\ proc[h][p] = "stop" /\ UNCHANGED <<found, conf>>
  BY DEF Unregister
<1>2. /\ \A g \in Hosts, q \in Procs : proc'[g][q] \in Steps(g)
      /\ proc' \in [Hosts -> [Procs -> UNION {Steps(g) : g \in Hosts}]]
      /\ \A g \in Hosts, q \in Procs :
           proc'[g][q] = IF g = h /\ q = p THEN "off" ELSE proc[g][q]
  BY <1>1, GotoEffect DEF RegistryInv, Steps
<1>3. /\ FateOK'
      /\ Overlaps(h, p) => h \in fate'.overlap
      /\ \A g \in Hosts \ {h} : /\ g \in fate'.killed <=> g \in fate.killed
                                /\ g \in fate'.overlap <=> g \in fate.overlap
  BY DEF Unregister, RegistryInv, FateOK
<1>4. /\ conductors' \in BOOLEAN \cup {NULL}
      /\ wampagents' \in [Agents -> AgentRows \cup {NULL}]
      /\ \A g \in Agents \ {h} : wampagents'[g] = wampagents[g]
      /\ h # Conductor => conductors' = conductors /\ wampagents'[h] \in AgentRows
                          /\ ~wampagents'[h].online
      /\ h = Conductor => ~conductors' /\ wampagents' = wampagents
  <2>1. /\ wampagents \in [Agents -> AgentRows \cup {NULL}] /\ conductors \in BOOLEAN \cup {NULL}
    BY DEF RegistryInv, RegistryTypeOK
  <2>2. CASE h = Conductor
    BY <2>1, <2>2 DEF Unregister, SetNotOnline, UnregisterConductor
  <2>3. CASE h # Conductor
    <3>0. h \in Agents
      BY <2>3 DEF Hosts
    <3>1. wampagents[h] \in AgentRows
      BY <1>1, <2>1, <3>0 DEF RegistryInv, TableAt
    <3>2. /\ wampagents' = [wampagents EXCEPT ![h] = [wampagents[h] EXCEPT !.online = FALSE]]
          /\ conductors' = conductors
      BY <2>1, <2>3, <3>0 DEF Unregister, SetNotOnline, UnregisterWampagent
    <3>3. [wampagents[h] EXCEPT !.online = FALSE] \in AgentRows
      BY <3>1 DEF AgentRows
    <3>4. [wampagents[h] EXCEPT !.online = FALSE].online = FALSE
      BY <3>1 DEF AgentRows
    <3>. QED BY <2>1, <2>3, <3>0, <3>2, <3>3, <3>4
  <2>. QED BY <2>2, <2>3
<1>5. RegistryTypeOK'
  BY <1>1, <1>2, <1>4 DEF RegistryInv, RegistryTypeOK
<1>6. OthersStay(h)
  BY <1>1, <1>2, <1>3, <1>4 DEF OthersStay, Hosts
<1>7. TableAt(h)'
  <2>1. TableAt(h)
    BY DEF RegistryInv
  <2>2. ~IsOnline(h)' /\ (h \in Agents => ~Advertises(h)')
    BY <1>4, AgentIsHost DEF IsOnline, Online, Advertises, Hosts
  <2>3. (\E q \in Procs : proc'[h][q] \in Up) => h \in fate'.overlap
    BY <1>2, <1>3 DEF Overlaps, Up
  <2>4. h \in Agents => wampagents'[h] # NULL
    BY <1>4, AgentIsHost, RegistryAssumption
  <2>. QED BY <2>2, <2>3, <2>4 DEF TableAt
<1>. QED BY <1>3, <1>5, <1>6, <1>7 DEF HostStep

(* A host whose processes are all off gets another configuration.           *)
LEMMA ReconfigureStep ==
  ASSUME RegistryInv, NEW h \in Agents, Reconfigure(h)
  PROVE  HostStep(h)
<1>0. h \in Hosts
  BY AgentIsHost
<1>1. /\ \A p \in Procs : proc[h][p] = "off"
      /\ UNCHANGED <<conductors, wampagents, proc, found, fate>>
  BY DEF Reconfigure
<1>2. conf' \in [Agents -> [ragent : BOOLEAN, wsurl : Urls]] /\ \A g \in Agents \ {h} : conf'[g] = conf[g]
  BY DEF Reconfigure, RegistryInv, RegistryTypeOK
<1>3. RegistryTypeOK' /\ FateOK'
  BY <1>1, <1>2 DEF RegistryInv, RegistryTypeOK, FateOK
<1>4. OthersStay(h)
  BY <1>1, <1>2 DEF OthersStay
<1>5. TableAt(h)'
  <2>1. TableAt(h)
    BY <1>0 DEF RegistryInv
  <2>2. IsOnline(h)' = IsOnline(h) /\ Advertises(h)' = Advertises(h)
    BY <1>1 DEF IsOnline, Online, Advertises
  <2>3. Advertises(h) => h \in fate.killed
    BY <1>0, <1>1, <2>1, AgentIsHost DEF TableAt, Advertises, IsOnline
  <2>. QED BY <1>1, <2>1, <2>2, <2>3 DEF TableAt
<1>. QED BY <1>3, <1>4, <1>5 DEF HostStep

-----------------------------------------------------------------------------
(* Every step of a process keeps the table in order. *)
LEMMA RegistryStep ==
  ASSUME RegistryInv, NextRegistry
  PROVE  RegistryInv'
<1>1. \E h \in Hosts : HostStep(h)
  <2>1. CASE \E p \in Procs : ConductorStep(p)
    BY <2>1, AgentIsHost, RegisterConductorStep, FindStep DEF ConductorStep
  <2>2. CASE \E a \in Agents, p \in Procs : AgentStep(a, p)
    BY <2>2, AgentIsHost, AgentStepStep
  <2>3. CASE \E h \in Hosts, p \in Procs : Start(h, p) \/ Interrupt(h, p) \/ Unregister(h, p) \/ Kill(h, p)
    BY <2>3, StartStep, EndStep, UnregisterStep
  <2>4. CASE \E a \in Agents : Reconfigure(a)
    BY <2>4, AgentIsHost, ReconfigureStep
  <2>. QED BY <2>1, <2>2, <2>3, <2>4 DEF NextRegistry
<1>. QED BY <1>1, StepOfHost DEF HostStep, RegistryInv

(* What the registry promises depends on the tables, the processes and      *)
(* their fates alone.                                                       *)
LEMMA RegistryStays ==
  ASSUME RegistryInv, UNCHANGED <<registry, fate>>
  PROVE  RegistryInv'
BY DEF RegistryInv, registry, RegistryTypeOK, FateOK, TableAt, IsOnline, Online, Advertises

(* The tables are empty and no process runs.                                *)
LEMMA InitRegistryInv ==
  ASSUME InitRegistry
  PROVE  RegistryInv
<1>1. RegistryTypeOK /\ FateOK
  BY DEF InitRegistry, RegistryTypeOK, FateOK, Steps
<1>2. ASSUME NEW h \in Hosts PROVE TableAt(h)
  BY RegistryAssumption DEF InitRegistry, TableAt, IsOnline, Online, Advertises, Up, Hosts
<1>. QED BY <1>1, <1>2 DEF RegistryInv

(* The invariant has the property that the run checks.                      *)
LEMMA TableFollows ==
  ASSUME RegistryInv
  PROVE  TableIsTrue
<1>1. RunningIsOnline /\ OnlineIsRunning
  BY DEF RegistryInv, TableAt, RunningIsOnline, OnlineIsRunning
<1>2. \A a \in Agents :
        Advertises(a) => \/ conf[a].ragent \/ a \in fate.killed
                         \/ \E p \in Procs : proc[a][p] \in {"register", "again", "flag"}
  BY AgentIsHost DEF RegistryInv, TableAt
<1>3. OneRegistrationAgent
  BY <1>2 DEF OneRegistrationAgent
<1>. QED BY <1>1, <1>3 DEF TableIsTrue

-----------------------------------------------------------------------------
(* The interfaces and their ports *)

(* The types of what is not the registry's. *)
VifTypes ==
  /\ list \in [Procs -> Seq(Numbers)]
  /\ rows \subseteq Rows
  /\ neutron \subseteq Uuids
  /\ boards \in [Boards -> BOOLEAN \cup {NULL}]
  /\ vifs \in [Boards -> SUBSET Numbers]
  /\ taps \subseteq Uuids \X Numbers
  /\ op \in [Clients -> Calls \cup {NULL}]
  /\ story \in Stories

Creates(c) == op[c] # NULL /\ op[c].kind = "create"
Removes(c) == op[c] # NULL /\ op[c].kind = "remove"

(* A create call that has its Neutron port and no row yet. *)
Making(c) == Creates(c) /\ op[c].at \in {"draw", "test", "compare", "insert", "vif", "tap", "row"}

(* One that walks through the list, or is about to insert its number. *)
Walks(c) == Creates(c) /\ op[c].at \in {"test", "compare", "insert"}

(* One whose number is in the list. *)
Claiming(c) == Creates(c) /\ op[c].at \in {"vif", "tap", "row"}

(* A removal that has taken the number off the list. *)
Forgot(c) == Removes(c) /\ op[c].at \in {"delete", "destroy"}

HasRow(u)  == \E r \in rows : r.uuid = u
InAList(n) == \E p \in Procs : Contains(list[p], n)

(* A call has a port and a number from the step on that gives it one. *)
Filled ==
  \A c \in Clients :
    /\ Making(c) \/ Busy(c, "create", "configure") => op[c].uuid \in Uuids
    /\ Claiming(c) \/ Walks(c) => op[c].num \in Numbers
    /\ Busy(c, "create", "read") \/ Busy(c, "create", "neutron") => op[c].uuid = NULL

(* The port that a create call has made is nobody else's. *)
OwnUuid ==
  \A c \in Clients : Making(c) =>
    /\ op[c].uuid \in neutron
    /\ ~HasRow(op[c].uuid)
    /\ \A d \in Clients \ {c} : op[d] # NULL => op[d].uuid # op[c].uuid

(* The ports of the rows, and of the calls behind their taps, have taps: no *)
(* later port has one of their names.                                       *)
Tapped ==
  /\ \A r \in rows : <<r.uuid, r.num>> \in taps
  /\ \A c \in Clients : Busy(c, "create", "row") => <<op[c].uuid, op[c].num>> \in taps
  /\ \A c \in Clients : Busy(c, "create", "configure") \/ Removes(c) =>
       \E t \in taps : t[1] = op[c].uuid

(* A port has one row at most, and a removal knows the number in it. *)
OneRow ==
  /\ \A r, s \in rows : r.uuid = s.uuid => r = s
  /\ \A c \in Clients, r \in rows : Removes(c) /\ r.uuid = op[c].uuid => r.num = op[c].num

(* What PortIsOwned says of the calls that are about to end. *)
Accounted ==
  \A c \in Clients :
    /\ Busy(c, "create", "configure") =>
         HasRow(op[c].uuid) \/ op[c].uuid \notin neutron \/ op[c].uuid \in story.leaked
    /\ Busy(c, "remove", "destroy") => op[c].uuid \notin neutron \/ op[c].uuid \in story.leaked

(* Rows are of boards that are there, and what is behind CreateVif is on    *)
(* the board, unless the board is gone.                                     *)
Plugged ==
  /\ \A r \in rows : boards[r.board] # NULL
  /\ \A c \in Clients :
       Creates(c) /\ op[c].at \in {"tap", "row"} /\ boards[op[c].board] # NULL =>
         op[c].num \in vifs[op[c].board] \/ <<op[c].board, op[c].num>> \in story.unplugged

(* The number of a call behind the list is no row's and no other call's. *)
OneClaim ==
  \A c \in Clients : Claiming(c) =>
    /\ \A r \in rows : r.num = op[c].num => op[c].num \in story.twice
    /\ \A d \in Clients \ {c} : Claiming(d) /\ op[d].num = op[c].num => op[c].num \in story.twice

(* The number of a call behind the list is in a list. *)
ClaimsListed ==
  \A c \in Clients : Claiming(c) => InAList(op[c].num) \/ op[c].num \in story.lost \cup story.twice

(* A walk over a list that has not changed since it began has not met its   *)
(* number so far, and has come to the end of the list if it inserts.        *)
Seen(call) ==
  call.fresh =>
    /\ \A j \in 1..Len(list[call.proc]) :
         call.from =< j /\ j < call.i => list[call.proc][j] # call.num
    /\ call.at = "insert" => call.i > Len(list[call.proc])
Walked == \A c \in Clients : Walks(c) => Seen(op[c])

VifInv ==
  /\ VifTypes /\ Filled
  /\ OwnUuid /\ Tapped /\ OneRow /\ Accounted /\ PortIsOwned
  /\ Plugged /\ RowIsPlugged
  /\ OneClaim /\ NoSharedNumber /\ ClaimsListed /\ RowIsListed
  /\ Walked

-----------------------------------------------------------------------------
(* A call is one of the two kinds, and not NULL. *)
LEMMA CallFields ==
  ASSUME NEW x \in Calls
  PROVE  /\ x # NULL
         /\ x.kind = "create" => x \in CreateCalls
         /\ x.kind = "remove" => x \in RemoveCalls
         /\ x.kind \in {"create", "remove"}
         /\ x.proc \in Procs /\ x.board \in Boards
BY VifAssumption DEF Calls, CreateCalls, RemoveCalls

(* A call that goes on stays the same but for its place. *)
LEMMA MoveEffect ==
  ASSUME VifTypes, NEW c \in Clients, op[c] # NULL, NEW at, Move(c, at),
         op[c].kind = "create" => at \in CreateSteps,
         op[c].kind = "remove" => at \in RemoveSteps
  PROVE  /\ op' \in [Clients -> Calls \cup {NULL}]
         /\ \A d \in Clients \ {c} : op'[d] = op[d]
         /\ op'[c] # NULL /\ op'[c].at = at
         /\ op'[c].kind = op[c].kind /\ op'[c].proc = op[c].proc /\ op'[c].board = op[c].board
         /\ op'[c].uuid = op[c].uuid /\ op'[c].num = op[c].num
<1>1. op[c] \in Calls
  BY DEF VifTypes
<1>2. /\ op' = [op EXCEPT ![c] = [op[c] EXCEPT !.at = at]]
      /\ op'[c] = [op[c] EXCEPT !.at = at]
      /\ \A d \in Clients \ {c} : op'[d] = op[d]
  BY DEF Move, VifTypes
<1>3. CASE op[c].kind = "create"
  <2>1. op[c] \in CreateCalls
    BY <1>1, <1>3, CallFields
  <2>2. [op[c] EXCEPT !.at = at] \in CreateCalls
    BY <1>3, <2>1 DEF CreateCalls
  <2>3. op'[c] \in Calls
    BY <1>2, <2>2 DEF Calls
  <2>. QED BY <1>2, <2>1, <2>3, CallFields DEF CreateCalls, VifTypes
<1>4. CASE op[c].kind = "remove"
  <2>1. op[c] \in RemoveCalls
    BY <1>1, <1>4, CallFields
  <2>2. [op[c] EXCEPT !.at = at] \in RemoveCalls
    BY <1>4, <2>1 DEF RemoveCalls
  <2>3. op'[c] \in Calls
    BY <1>2, <2>2 DEF Calls
  <2>. QED BY <1>2, <2>1, <2>3, CallFields DEF RemoveCalls, VifTypes
<1>. QED BY <1>1, <1>3, <1>4, CallFields

(* A call that ends leaves behind what it holds. *)
LEMMA RaiseEffect ==
  ASSUME VifTypes, Filled, NEW c \in Clients, op[c] # NULL, Raise(c)
  PROVE  /\ op' \in [Clients -> Calls \cup {NULL}]
         /\ op'[c] = NULL /\ \A d \in Clients \ {c} : op'[d] = op[d]
         /\ story' \in Stories
         /\ story'.twice = story.twice /\ story'.unplugged = story.unplugged
         /\ story.lost \subseteq story'.lost /\ story.leaked \subseteq story'.leaked
         /\ Making(c) \/ Forgot(c) => op[c].uuid \in story'.leaked
         /\ Forgot(c) => op[c].num \in story'.lost
<1>. DEFINE holds == {d \in {c} : op[d] # NULL /\ op[d].uuid # NULL}
            made  == {d \in holds : op[d].kind = "create" /\ op[d].at # "configure"}
            gone  == {d \in holds : op[d].kind = "remove" /\ op[d].at \in {"delete", "destroy"}}
<1>1. /\ op' \in [Clients -> Calls \cup {NULL}] /\ op'[c] = NULL
      /\ \A d \in Clients \ {c} : op'[d] = op[d]
  BY DEF Raise, VifTypes
<1>2. story' = [story EXCEPT !.leaked = @ \cup {op[d].uuid : d \in made \cup gone},
                             !.lost   = @ \cup {op[d].num : d \in gone}]
  BY DEF Raise, Left
<1>3. /\ \A d \in made \cup gone : d = c /\ op[d].uuid \in Uuids
      /\ \A d \in gone : d = c /\ op[d].num \in Numbers
  <2>1. op[c] \in Calls
    BY DEF VifTypes
  <2>. QED BY <2>1 DEF Calls, CreateCalls, RemoveCalls
<1>4. /\ Making(c) => c \in made
      /\ Forgot(c) => c \in gone
  <2>1. Making(c) => op[c].uuid \in Uuids
    BY DEF Filled
  <2>2. Forgot(c) => op[c].uuid \in Uuids
    BY DEF VifTypes, Forgot, Removes, Calls, CreateCalls, RemoveCalls
  <2>. QED BY <2>1, <2>2, VifAssumption DEF Making, Creates, Forgot, Removes
<1>. HIDE DEF made, gone
<1>5. {op[d].uuid : d \in made \cup gone} \subseteq Uuids /\ {op[d].num : d \in gone} \subseteq Numbers
  BY <1>3
<1>. QED BY <1>1, <1>2, <1>4, <1>5 DEF VifTypes, Stories

(* A step of a call that leaves the rows, the boards and the lists alone,   *)
(* and what it does to the rest.                                            *)
QuietTables(c) ==
  /\ rows' = rows /\ boards' = boards /\ list' = list
  /\ taps \subseteq taps' /\ neutron' \subseteq neutron
  /\ story.twice \subseteq story'.twice /\ story.lost \subseteq story'.lost
  /\ story.leaked \subseteq story'.leaked /\ story.unplugged \subseteq story'.unplugged
  /\ \A u \in neutron \ neutron' :
       Removes(c) /\ op[c].uuid = u /\ Busy(c, "remove", "destroy")' /\ op'[c].uuid = u
  /\ \A b \in Boards : \A n \in vifs[b] : n \in vifs'[b] \/ <<b, n>> \in story'.unplugged

QuietCall(c) ==
  /\ \A d \in Clients \ {c} : op'[d] = op[d]
  /\ op'[c] # NULL => \/ op[c] # NULL /\ op'[c].uuid = op[c].uuid
                      \/ op'[c].uuid = NULL
                      \/ HasRow(op'[c].uuid)
  /\ Making(c)' => Making(c) /\ op'[c].uuid = op[c].uuid
  /\ Making(c) => \/ Making(c)' /\ op'[c].uuid = op[c].uuid
                  \/ op[c].uuid \in story'.leaked
  /\ Claiming(c)' => Claiming(c) /\ op'[c].num = op[c].num
  /\ ~Busy(c, "create", "configure")'
  /\ Busy(c, "create", "row")' => <<op'[c].uuid, op'[c].num>> \in taps'
  /\ Creates(c)' /\ op'[c].at \in {"tap", "row"} /\ boards[op'[c].board] # NULL =>
       op'[c].num \in vifs'[op'[c].board] \/ <<op'[c].board, op'[c].num>> \in story'.unplugged
  /\ Removes(c)' => \/ Removes(c) /\ op'[c].uuid = op[c].uuid /\ op'[c].num = op[c].num
                    \/ \E r \in rows : r.uuid = op'[c].uuid /\ r.num = op'[c].num
  /\ Forgot(c) => \/ Forgot(c)' /\ op'[c].uuid = op[c].uuid
                  \/ op[c].uuid \in story'.leaked /\ op[c].num \in story'.lost
  /\ Busy(c, "remove", "destroy") => \/ Busy(c, "remove", "destroy")' /\ op'[c].uuid = op[c].uuid
                                     \/ op[c].uuid \in story'.leaked
  /\ Busy(c, "remove", "destroy")' => op'[c].uuid \notin neutron' \/ op'[c].uuid \in story'.leaked
  /\ Walks(c)' => Seen(op[c])'

(* The conjuncts that such a step keeps. *)
Kept ==
  /\ OwnUuid /\ Tapped /\ OneRow /\ Accounted /\ PortIsOwned
  /\ Plugged /\ RowIsPlugged
  /\ OneClaim /\ NoSharedNumber /\ ClaimsListed /\ RowIsListed
  /\ Walked

(* They hold after a quiet step. *)
LEMMA QuietStep ==
  ASSUME VifInv, NEW c \in Clients, VifTypes', Filled', QuietTables(c), QuietCall(c)
  PROVE  Kept'
<1>. USE DEF Busy
<1>0. /\ \A d \in Clients \ {c} : op'[d] = op[d]
      /\ rows' = rows /\ boards' = boards /\ list' = list
      /\ \A u : HasRow(u)' <=> HasRow(u)
      /\ \A n : InAList(n)' <=> InAList(n)
      /\ NULL \notin Uuids
  BY VifAssumption DEF QuietCall, QuietTables, HasRow, InAList
<1>1. OwnUuid'
  <2>. SUFFICES ASSUME NEW d \in Clients, Making(d)'
                PROVE  /\ op'[d].uuid \in neutron'
                       /\ ~HasRow(op'[d].uuid)
                       /\ \A e \in Clients \ {d} : op'[e] # NULL => op'[e].uuid # op'[d].uuid
    BY <1>0 DEF OwnUuid
  <2>1. Making(d) /\ op'[d].uuid = op[d].uuid
    BY <1>0 DEF QuietCall, Making, Creates
  <2>2. op[d].uuid \in neutron /\ ~HasRow(op[d].uuid) /\ op[d].uuid # NULL
        /\ \A e \in Clients \ {d} : op[e] # NULL => op[e].uuid # op[d].uuid
    BY <1>0, <2>1 DEF VifInv, OwnUuid, VifTypes
  <2>3. op[d].uuid \in neutron'
    <3>1. CASE d = c
      BY <2>1, <2>2, <3>1 DEF QuietTables, Making, Creates, Removes
    <3>2. CASE d # c
      BY <2>1, <2>2, <3>2 DEF QuietTables, Making, Creates, Removes
    <3>. QED BY <3>1, <3>2
  <2>4. ASSUME NEW e \in Clients \ {d}, op'[e] # NULL PROVE op'[e].uuid # op[d].uuid
    BY <1>0, <2>2, <2>4 DEF QuietCall
  <2>. QED BY <2>1, <2>2, <2>3, <2>4
<1>2. Tapped'
  <2>1. \A r \in rows' : <<r.uuid, r.num>> \in taps'
    BY <1>0 DEF VifInv, Tapped, QuietTables
  <2>2. ASSUME NEW d \in Clients, Busy(d, "create", "row")' PROVE <<op'[d].uuid, op'[d].num>> \in taps'
    BY <1>0, <2>2 DEF VifInv, Tapped, QuietTables, QuietCall
  <2>3. ASSUME NEW d \in Clients, Busy(d, "create", "configure")' \/ Removes(d)'
        PROVE  \E t \in taps' : t[1] = op'[d].uuid
    <3>1. CASE d # c
      BY <1>0, <2>3, <3>1 DEF VifInv, Tapped, QuietTables, Removes
    <3>2. CASE d = c
      <4>1. Removes(c)'
        BY <2>3, <3>2 DEF QuietCall
      <4>2. CASE Removes(c) /\ op'[c].uuid = op[c].uuid
        BY <3>2, <4>2 DEF VifInv, Tapped, QuietTables
      <4>3. ASSUME NEW r \in rows, r.uuid = op'[c].uuid PROVE \E t \in taps' : t[1] = op'[c].uuid
        <5>1. <<r.uuid, r.num>> \in taps'
          BY <2>1, <1>0
        <5>. QED BY <5>1, <4>3
      <4>. QED BY <3>2, <4>1, <4>2, <4>3 DEF QuietCall
    <3>. QED BY <3>1, <3>2
  <2>. QED BY <2>1, <2>2, <2>3 DEF Tapped
<1>3. OneRow'
  <2>1. \A r, s \in rows' : r.uuid = s.uuid => r = s
    BY <1>0 DEF VifInv, OneRow
  <2>2. ASSUME NEW d \in Clients, NEW r \in rows, Removes(d)', r.uuid = op'[d].uuid
        PROVE  r.num = op'[d].num
    <3>1. CASE d # c
      BY <1>0, <2>2, <3>1 DEF VifInv, OneRow, Removes
    <3>2. CASE d = c
      BY <2>2, <3>2 DEF VifInv, OneRow, QuietCall
    <3>. QED BY <3>1, <3>2
  <2>. QED BY <1>0, <2>1, <2>2 DEF OneRow
<1>4. Accounted'
  <2>. SUFFICES ASSUME NEW d \in Clients
                PROVE  /\ Busy(d, "create", "configure")' =>
                            HasRow(op'[d].uuid) \/ op'[d].uuid \notin neutron' \/ op'[d].uuid \in story'.leaked
                       /\ Busy(d, "remove", "destroy")' =>
                            op'[d].uuid \notin neutron' \/ op'[d].uuid \in story'.leaked
    BY <1>0 DEF Accounted
  <2>1. CASE d # c
    BY <1>0, <2>1 DEF VifInv, Accounted, QuietTables
  <2>2. CASE d = c
    BY <2>2 DEF QuietCall
  <2>. QED BY <2>1, <2>2
<1>5. PortIsOwned'
  <2>. SUFFICES ASSUME NEW u \in neutron'
                PROVE  \/ HasRow(u)
                       \/ \E d \in Clients : Creates(d)' /\ op'[d].uuid = u
                       \/ u \in story'.leaked
    BY <1>0 DEF PortIsOwned, HasRow, Creates
  <2>1. u \in neutron /\ u # NULL
    BY <1>0 DEF QuietTables, VifInv, VifTypes
  <2>2. CASE HasRow(u) \/ u \in story.leaked
    BY <2>2 DEF QuietTables
  <2>3. ASSUME NEW d \in Clients, Creates(d), op[d].uuid = u
        PROVE  HasRow(u) \/ u \in story'.leaked \/ (\E e \in Clients : Creates(e)' /\ op'[e].uuid = u)
    <3>1. CASE d # c
      BY <1>0, <2>3, <3>1 DEF Creates
    <3>2. CASE Making(c) /\ d = c
      BY <2>3, <3>2 DEF QuietCall, Making
    <3>3. CASE ~Making(c) /\ d = c
      <4>1. Busy(c, "create", "configure")
        <5>1. op[c] \in CreateCalls
          BY <2>3, <3>3, CallFields DEF VifInv, VifTypes, Creates
        <5>. QED BY <2>1, <2>3, <3>3, <5>1
           DEF Making, Creates, CreateCalls, CreateSteps, VifInv, Filled
      <4>. QED BY <2>1, <2>3, <3>3, <4>1 DEF VifInv, Accounted, QuietTables
    <3>. QED BY <3>1, <3>2, <3>3
  <2>. QED BY <2>1, <2>2, <2>3 DEF VifInv, PortIsOwned, HasRow, Creates
<1>6. Plugged'
  <2>1. \A r \in rows' : boards'[r.board] # NULL
    BY <1>0 DEF VifInv, Plugged
  <2>2. ASSUME NEW d \in Clients, Creates(d)', op'[d].at \in {"tap", "row"}, boards[op'[d].board] # NULL
        PROVE  op'[d].num \in vifs'[op'[d].board] \/ <<op'[d].board, op'[d].num>> \in story'.unplugged
    <3>1. CASE d # c
      <4>1. Creates(d) /\ op'[d] = op[d] /\ op[d].board \in Boards
        BY <1>0, <2>2, <3>1, CallFields DEF Creates, VifInv, VifTypes
      <4>2. op[d].num \in vifs[op[d].board] \/ <<op[d].board, op[d].num>> \in story.unplugged
        BY <2>2, <4>1 DEF VifInv, Plugged
      <4>. QED BY <4>1, <4>2 DEF QuietTables
    <3>2. CASE d = c
      BY <2>2, <3>2 DEF QuietCall
    <3>. QED BY <3>1, <3>2
  <2>. QED BY <1>0, <2>1, <2>2 DEF Plugged
<1>7. RowIsPlugged'
  <2>. SUFFICES ASSUME NEW r \in rows
                PROVE  /\ <<r.uuid, r.num>> \in taps'
                       /\ r.num \in vifs'[r.board] \/ <<r.board, r.num>> \in story'.unplugged
                       /\ \/ r.uuid \in neutron' \/ r.uuid \in story'.leaked
                          \/ \E d \in Clients : Busy(d, "remove", "destroy")' /\ op'[d].uuid = r.uuid
    BY <1>0 DEF RowIsPlugged, Removing
  <2>1. /\ <<r.uuid, r.num>> \in taps
        /\ r.num \in vifs[r.board] \/ <<r.board, r.num>> \in story.unplugged
        /\ \/ r.uuid \in neutron \/ r.uuid \in story.leaked
           \/ \E d \in Clients : Busy(d, "remove", "destroy") /\ op[d].uuid = r.uuid
        /\ r.board \in Boards
    BY DEF VifInv, RowIsPlugged, Removing, VifTypes, Rows
  <2>2. ASSUME NEW d \in Clients, Busy(d, "remove", "destroy"), op[d].uuid = r.uuid
        PROVE  \/ r.uuid \in story'.leaked
               \/ \E e \in Clients : Busy(e, "remove", "destroy")' /\ op'[e].uuid = r.uuid
    <3>1. CASE d # c
      BY <1>0, <2>2, <3>1
    <3>2. CASE d = c
      BY <2>2, <3>2 DEF QuietCall
    <3>. QED BY <3>1, <3>2
  <2>. QED BY <2>1, <2>2 DEF QuietTables
<1>8. \A d \in Clients : Claiming(d)' => Claiming(d) /\ op'[d].num = op[d].num
  BY <1>0 DEF QuietCall, Claiming, Creates
<1>9. OneClaim' /\ NoSharedNumber' /\ ClaimsListed'
  BY <1>0, <1>8 DEF VifInv, OneClaim, NoSharedNumber, ClaimsListed, QuietTables
<1>10. RowIsListed'
  <2>. SUFFICES ASSUME NEW r \in rows
                PROVE  \/ InAList(r.num) \/ r.num \in story'.lost \cup story'.twice
                       \/ \E d \in Clients : Forgot(d)' /\ op'[d].uuid = r.uuid
    BY <1>0 DEF RowIsListed, Removing, InAList, Forgot, Removes
  <2>1. ASSUME NEW d \in Clients, Forgot(d), op[d].uuid = r.uuid
        PROVE  \/ r.num \in story'.lost
               \/ \E e \in Clients : Forgot(e)' /\ op'[e].uuid = r.uuid
    <3>1. CASE d # c
      BY <1>0, <2>1, <3>1 DEF Forgot, Removes
    <3>2. CASE d = c
      <4>1. op[c].num = r.num
        BY <2>1, <3>2 DEF VifInv, OneRow, Forgot
      <4>. QED BY <2>1, <3>2, <4>1 DEF QuietCall
    <3>. QED BY <3>1, <3>2
  <2>2. \/ InAList(r.num) \/ r.num \in story.lost \cup story.twice
        \/ \E d \in Clients : Forgot(d) /\ op[d].uuid = r.uuid
    BY DEF VifInv, RowIsListed, Removing, InAList, Forgot, Removes
  <2>. QED BY <2>1, <2>2 DEF QuietTables
<1>11. Walked'
  <2>1. ASSUME NEW d \in Clients, Walks(d)', d # c PROVE Seen(op[d])'
    <3>1. Walks(d) /\ op'[d] = op[d]
      BY <1>0, <2>1 DEF Walks, Creates
    <3>. QED BY <1>0, <3>1 DEF VifInv, Walked, Seen
  <2>. QED BY <2>1 DEF Walked, QuietCall
<1>. QED BY <1>1, <1>2, <1>3, <1>4, <1>5, <1>6, <1>7, <1>9, <1>10, <1>11 DEF Kept

(* A call that goes on from one of its places to the next, when it claims   *)
(* nothing by it.                                                           *)
LEMMA QuietMove ==
  ASSUME VifInv, NEW c \in Clients, NEW at, op[c] # NULL, Move(c, at), QuietTables(c),
         \/ op[c].kind = "create" /\ <<op[c].at, at>> \in {<<"read", "neutron">>, <<"vif", "tap">>, <<"tap", "row">>}
         \/ op[c].kind = "remove" /\ <<op[c].at, at>> \in {<<"read", "vif">>, <<"vif", "forget">>, <<"delete", "destroy">>},
         at = "row" => <<op[c].uuid, op[c].num>> \in taps',
         op[c].kind = "create" /\ at \in {"tap", "row"} /\ boards[op[c].board] # NULL =>
           op[c].num \in vifs'[op[c].board] \/ <<op[c].board, op[c].num>> \in story'.unplugged,
         at = "destroy" => op[c].uuid \notin neutron' \/ op[c].uuid \in story'.leaked
  PROVE  op' \in [Clients -> Calls \cup {NULL}] /\ Filled' /\ QuietCall(c)
<1>1. /\ op[c].kind = "create" => at \in CreateSteps
      /\ op[c].kind = "remove" => at \in RemoveSteps
  BY DEF CreateSteps, RemoveSteps
<1>2. /\ op' \in [Clients -> Calls \cup {NULL}]
      /\ \A d \in Clients \ {c} : op'[d] = op[d]
      /\ op'[c] # NULL /\ op'[c].at = at
      /\ op'[c].kind = op[c].kind /\ op'[c].proc = op[c].proc /\ op'[c].board = op[c].board
      /\ op'[c].uuid = op[c].uuid /\ op'[c].num = op[c].num
  BY <1>1, MoveEffect DEF VifInv
<1>3. Filled'
  <2>1. ASSUME NEW d \in Clients \ {c}
        PROVE  /\ Making(d)' <=> Making(d)
               /\ Claiming(d)' <=> Claiming(d)
    BY <1>2 DEF Making, Walks, Claiming, Creates
  <2>2. /\ Making(c)' => Making(c)
        /\ Claiming(c)' => Claiming(c)
        /\ ~Busy(c, "create", "configure")' /\ ~Walks(c)' /\ ~Busy(c, "create", "read")'
        /\ Busy(c, "create", "neutron")' => Busy(c, "create", "read")
    BY <1>2 DEF Making, Walks, Claiming, Creates, Busy
  <2>3. ASSUME NEW d \in Clients \ {c}
        PROVE /\ Making(d)' \/ Busy(d, "create", "configure")' => op'[d].uuid \in Uuids
              /\ Claiming(d)' \/ Walks(d)' => op'[d].num \in Numbers
              /\ Busy(d, "create", "read")' \/ Busy(d, "create", "neutron")' => op'[d].uuid = NULL
    BY <1>2, <2>1 DEF VifInv, Filled, Busy, Walks, Creates
  <2>4. /\ Making(c)' \/ Busy(c, "create", "configure")' => op'[c].uuid \in Uuids
        /\ Claiming(c)' \/ Walks(c)' => op'[c].num \in Numbers
        /\ Busy(c, "create", "read")' \/ Busy(c, "create", "neutron")' => op'[c].uuid = NULL
    BY <1>2, <2>2 DEF VifInv, Filled
  <2>. QED BY <2>3, <2>4 DEF Filled
<1>4. /\ Making(c)' => Making(c)
      /\ Making(c) => Making(c)'
      /\ Claiming(c)' => Claiming(c)
      /\ ~Busy(c, "create", "configure")' /\ ~Walks(c)'
      /\ Busy(c, "create", "row")' => <<op'[c].uuid, op'[c].num>> \in taps'
      /\ Creates(c)' /\ op'[c].at \in {"tap", "row"} /\ boards[op'[c].board] # NULL =>
           op'[c].num \in vifs'[op'[c].board] \/ <<op'[c].board, op'[c].num>> \in story'.unplugged
      /\ Removes(c)' => Removes(c)
      /\ Forgot(c) => Forgot(c)'
      /\ ~Busy(c, "remove", "destroy")
      /\ Busy(c, "remove", "destroy")' => op'[c].uuid \notin neutron' \/ op'[c].uuid \in story'.leaked
  BY <1>2 DEF Making, Walks, Claiming, Creates, Removes, Forgot, Busy
<1>. QED BY <1>2, <1>3, <1>4 DEF QuietCall

(* A call that ends by an exception, before or behind what it has done.     *)
LEMMA QuietRaise ==
  ASSUME VifInv, NEW c \in Clients, op[c] # NULL, Raise(c)
  PROVE  /\ op' \in [Clients -> Calls \cup {NULL}] /\ Filled' /\ QuietCall(c)
         /\ story' \in Stories
         /\ story'.twice = story.twice /\ story'.unplugged = story.unplugged
         /\ story.lost \subseteq story'.lost /\ story.leaked \subseteq story'.leaked
<1>1. /\ op' \in [Clients -> Calls \cup {NULL}]
      /\ op'[c] = NULL /\ \A d \in Clients \ {c} : op'[d] = op[d]
      /\ story' \in Stories
      /\ story'.twice = story.twice /\ story'.unplugged = story.unplugged
      /\ story.lost \subseteq story'.lost /\ story.leaked \subseteq story'.leaked
      /\ Making(c) \/ Forgot(c) => op[c].uuid \in story'.leaked
      /\ Forgot(c) => op[c].num \in story'.lost
  BY RaiseEffect DEF VifInv
<1>2. Filled'
  BY <1>1 DEF VifInv, Filled, Making, Walks, Claiming, Creates, Busy
<1>3. QuietCall(c)
  BY <1>1 DEF QuietCall, Making, Walks, Claiming, Creates, Removes, Forgot, Busy
<1>. QED BY <1>1, <1>2, <1>3

(* A step that only moves one call keeps the whole invariant.               *)
LEMMA QuietInv ==
  ASSUME VifInv, NEW c \in Clients, VifTypes', Filled', QuietTables(c), QuietCall(c)
  PROVE  VifInv'
BY QuietStep DEF VifInv, Kept

-----------------------------------------------------------------------------
(* The steps that leave the rows, the boards and the lists alone. *)

(* create_port reads the board and finds it online, or raises.              *)
LEMMA ReadBoardStep ==
  ASSUME VifInv, NEW c \in Clients, ReadBoard(c)
  PROVE  VifInv'
<1>1. /\ op[c] # NULL /\ op[c].kind = "create" /\ op[c].at = "read"
      /\ UNCHANGED <<list, rows, neutron, boards, vifs, taps>>
  BY DEF ReadBoard, Busy, platform
<1>2. CASE Move(c, "neutron") /\ UNCHANGED story
  <2>1. QuietTables(c)
    BY <1>1, <1>2 DEF QuietTables
  <2>2. op' \in [Clients -> Calls \cup {NULL}] /\ Filled' /\ QuietCall(c)
    BY <1>1, <1>2, <2>1, QuietMove
  <2>. QED BY <1>1, <1>2, <2>1, <2>2, QuietInv DEF VifInv, VifTypes
<1>3. CASE Raise(c)
  <2>1. /\ op' \in [Clients -> Calls \cup {NULL}] /\ Filled' /\ QuietCall(c)
        /\ story' \in Stories
        /\ story'.twice = story.twice /\ story'.unplugged = story.unplugged
        /\ story.lost \subseteq story'.lost /\ story.leaked \subseteq story'.leaked
    BY <1>1, <1>3, QuietRaise
  <2>2. QuietTables(c)
    BY <1>1, <2>1 DEF QuietTables
  <2>. QED BY <1>1, <2>1, <2>2, QuietInv DEF VifInv, VifTypes
<1>. QED BY <1>2, <1>3 DEF ReadBoard

(* remove_VIF_from_board reads the board and the port, or raises.           *)
LEMMA ReadPortStep ==
  ASSUME VifInv, NEW c \in Clients, ReadPort(c)
  PROVE  VifInv'
<1>1. /\ op[c] # NULL /\ op[c].kind = "remove" /\ op[c].at = "read"
      /\ UNCHANGED <<list, rows, neutron, boards, vifs, taps>>
  BY DEF ReadPort, Busy, platform
<1>2. CASE Move(c, "vif") /\ UNCHANGED story
  <2>1. QuietTables(c)
    BY <1>1, <1>2 DEF QuietTables
  <2>2. op' \in [Clients -> Calls \cup {NULL}] /\ Filled' /\ QuietCall(c)
    BY <1>1, <1>2, <2>1, QuietMove
  <2>. QED BY <1>1, <1>2, <2>1, <2>2, QuietInv DEF VifInv, VifTypes
<1>3. CASE Raise(c)
  <2>1. /\ op' \in [Clients -> Calls \cup {NULL}] /\ Filled' /\ QuietCall(c)
        /\ story' \in Stories
        /\ story'.twice = story.twice /\ story'.unplugged = story.unplugged
        /\ story.lost \subseteq story'.lost /\ story.leaked \subseteq story'.leaked
    BY <1>1, <1>3, QuietRaise
  <2>2. QuietTables(c)
    BY <1>1, <2>1 DEF QuietTables
  <2>. QED BY <1>1, <2>1, <2>2, QuietInv DEF VifInv, VifTypes
<1>. QED BY <1>2, <1>3 DEF ReadPort

(* Any call may raise where it is.                                          *)
LEMMA FailsStep ==
  ASSUME VifInv, NEW c \in Clients, Fails(c)
  PROVE  VifInv'
<1>1. /\ op[c] # NULL /\ Raise(c)
      /\ UNCHANGED <<list, rows, neutron, boards, vifs, taps>>
  BY DEF Fails, platform
<1>2. /\ op' \in [Clients -> Calls \cup {NULL}] /\ Filled' /\ QuietCall(c)
      /\ story' \in Stories
      /\ story'.twice = story.twice /\ story'.unplugged = story.unplugged
      /\ story.lost \subseteq story'.lost /\ story.leaked \subseteq story'.leaked
  BY <1>1, QuietRaise
<1>3. QuietTables(c)
  BY <1>1, <1>2 DEF QuietTables
<1>. QED BY <1>1, <1>2, <1>3, QuietInv DEF VifInv, VifTypes

(* The interfaces of a board that gains or loses one. *)
LEMMA VifsEffect ==
  ASSUME VifTypes, NEW b \in Boards, NEW n \in Numbers,
         \/ vifs' = [vifs EXCEPT ![b] = @ \cup {n}]
         \/ vifs' = [vifs EXCEPT ![b] = @ \ {n}]
  PROVE  /\ vifs' \in [Boards -> SUBSET Numbers]
         /\ \A x \in Boards : \A m \in vifs[x] : <<x, m>> # <<b, n>> => m \in vifs'[x]
         /\ vifs' = [vifs EXCEPT ![b] = @ \cup {n}] =>
              n \in vifs'[b] /\ \A x \in Boards : vifs[x] \subseteq vifs'[x]
<1>1. vifs \in [Boards -> SUBSET Numbers]
  BY DEF VifTypes
<1>2. CASE vifs' = [vifs EXCEPT ![b] = @ \cup {n}]
  BY <1>1, <1>2
<1>3. CASE vifs' = [vifs EXCEPT ![b] = @ \ {n}]
  <2>1. vifs' \in [Boards -> SUBSET Numbers]
    BY <1>1, <1>3
  <2>2. \A x \in Boards : \A m \in vifs[x] : (x # b \/ m # n) => m \in vifs'[x]
    BY <1>1, <1>3
  <2>3. n \notin vifs'[b]
    BY <1>1, <1>3
  <2>4. vifs' = [vifs EXCEPT ![b] = @ \cup {n}] => n \in vifs'[b]
    BY <1>1
  <2>. QED BY <2>1, <2>2, <2>3, <2>4
<1>. QED BY <1>2, <1>3

(* An unplugged interface is added to the story, and nothing else is.       *)
LEMMA UnpluggedEffect ==
  ASSUME VifTypes, NEW b \in Boards, NEW n \in Numbers,
         story' = [story EXCEPT !.unplugged = @ \cup {<<b, n>>}]
  PROVE  /\ story' \in Stories
         /\ story'.twice = story.twice /\ story'.lost = story.lost /\ story'.leaked = story.leaked
         /\ story'.unplugged = story.unplugged \cup {<<b, n>>}
<1>1. story \in Stories
  BY DEF VifTypes
<1>2. story.unplugged \cup {<<b, n>>} \in SUBSET (Boards \X Numbers)
  BY <1>1 DEF Stories
<1>. DEFINE more == story.unplugged \cup {<<b, n>>}
<1>3. story' = [story EXCEPT !.unplugged = more]
  OBVIOUS
<1>. HIDE DEF more
<1>4. /\ story' \in Stories
      /\ story'.twice = story.twice /\ story'.lost = story.lost /\ story'.leaked = story.leaked
      /\ story'.unplugged = more
  BY <1>1, <1>2, <1>3 DEF more, Stories
<1>. QED BY <1>4 DEF more

(* The board plugs the interface of the port in.                            *)
LEMMA CreateVifStep ==
  ASSUME VifInv, NEW c \in Clients, CreateVif(c)
  PROVE  VifInv'
<1>. DEFINE b == op[c].board
            n == op[c].num
<1>1. /\ op[c] # NULL /\ op[c].kind = "create" /\ op[c].at = "vif"
      /\ UNCHANGED <<list, rows, neutron, boards, taps>>
      /\ b \in Boards /\ n \in Numbers
      /\ VifTypes
  BY CallFields DEF CreateVif, Busy, VifInv, VifTypes, Filled, Claiming, Creates
<1>2. CASE vifs' = [vifs EXCEPT ![b] = @ \cup {n}] /\ Move(c, "tap") /\ UNCHANGED story
  <2>1. /\ vifs' \in [Boards -> SUBSET Numbers] /\ n \in vifs'[b]
        /\ \A x \in Boards : vifs[x] \subseteq vifs'[x]
    BY <1>1, <1>2, VifsEffect
  <2>2. QuietTables(c)
    BY <1>1, <1>2, <2>1 DEF QuietTables
  <2>3. op' \in [Clients -> Calls \cup {NULL}] /\ Filled' /\ QuietCall(c)
    BY <1>1, <1>2, <2>1, <2>2, QuietMove
  <2>. QED BY <1>1, <1>2, <2>1, <2>2, <2>3, QuietInv DEF VifTypes
<1>3. CASE vifs' = [vifs EXCEPT ![b] = @ \cup {n}] /\ Raise(c)
  <2>1. /\ vifs' \in [Boards -> SUBSET Numbers]
        /\ \A x \in Boards : vifs[x] \subseteq vifs'[x]
    BY <1>1, <1>3, VifsEffect
  <2>2. /\ op' \in [Clients -> Calls \cup {NULL}] /\ Filled' /\ QuietCall(c)
        /\ story' \in Stories
        /\ story'.twice = story.twice /\ story'.unplugged = story.unplugged
        /\ story.lost \subseteq story'.lost /\ story.leaked \subseteq story'.leaked
    BY <1>1, <1>3, QuietRaise
  <2>3. QuietTables(c)
    BY <1>1, <2>1, <2>2 DEF QuietTables
  <2>. QED BY <1>1, <2>1, <2>2, <2>3, QuietInv DEF VifTypes
<1>4. CASE /\ Move(c, "tap") /\ UNCHANGED vifs
           /\ story' = [story EXCEPT !.unplugged = @ \cup {<<b, n>>}]
  <2>1. /\ story' \in Stories
        /\ story'.twice = story.twice /\ story'.lost = story.lost /\ story'.leaked = story.leaked
        /\ story'.unplugged = story.unplugged \cup {<<b, n>>}
    BY <1>1, <1>4, UnpluggedEffect
  <2>2. QuietTables(c)
    BY <1>1, <1>4, <2>1 DEF QuietTables
  <2>3. op' \in [Clients -> Calls \cup {NULL}] /\ Filled' /\ QuietCall(c)
    BY <1>1, <1>4, <2>1, <2>2, QuietMove
  <2>. QED BY <1>1, <1>4, <2>1, <2>2, <2>3, QuietInv DEF VifTypes
<1>. QED BY <1>2, <1>3, <1>4 DEF CreateVif

(* The agent plugs its end of it.                                           *)
LEMMA CreateTapStep ==
  ASSUME VifInv, NEW c \in Clients, CreateTap(c)
  PROVE  VifInv'
<1>1. /\ op[c] # NULL /\ op[c].kind = "create" /\ op[c].at = "tap"
      /\ UNCHANGED <<list, rows, neutron, boards, vifs>>
      /\ op[c].uuid \in Uuids /\ op[c].num \in Numbers
      /\ taps' = taps \cup {<<op[c].uuid, op[c].num>>}
      /\ VifTypes
  BY DEF CreateTap, Busy, VifInv, Filled, Claiming, Making, Creates
<1>2. CASE Move(c, "row") /\ UNCHANGED story
  <2>1. QuietTables(c)
    BY <1>1, <1>2 DEF QuietTables
  <2>2. boards[op[c].board] # NULL =>
          op[c].num \in vifs[op[c].board] \/ <<op[c].board, op[c].num>> \in story.unplugged
    BY <1>1 DEF VifInv, Plugged, Creates
  <2>3. op' \in [Clients -> Calls \cup {NULL}] /\ Filled' /\ QuietCall(c)
    BY <1>1, <1>2, <2>1, <2>2, QuietMove
  <2>. QED BY <1>1, <1>2, <2>1, <2>3, QuietInv DEF VifTypes
<1>3. CASE Raise(c)
  <2>1. /\ op' \in [Clients -> Calls \cup {NULL}] /\ Filled' /\ QuietCall(c)
        /\ story' \in Stories
        /\ story'.twice = story.twice /\ story'.unplugged = story.unplugged
        /\ story.lost \subseteq story'.lost /\ story.leaked \subseteq story'.leaked
    BY <1>1, <1>3, QuietRaise
  <2>2. QuietTables(c)
    BY <1>1, <2>1 DEF QuietTables
  <2>. QED BY <1>1, <2>1, <2>2, QuietInv DEF VifTypes
<1>. QED BY <1>2, <1>3 DEF CreateTap

(* The board unplugs it.                                                    *)
LEMMA RemoveVifStep ==
  ASSUME VifInv, NEW c \in Clients, RemoveVif(c)
  PROVE  VifInv'
<1>. DEFINE b == op[c].board
            n == op[c].num
<1>1. /\ op[c] # NULL /\ op[c].kind = "remove" /\ op[c].at = "vif"
      /\ UNCHANGED <<list, rows, neutron, boards, taps>>
      /\ VifTypes
  BY DEF RemoveVif, Busy, VifInv
<1>2. b \in Boards /\ n \in Numbers
  <2>1. op[c] \in RemoveCalls
    BY <1>1, CallFields DEF VifTypes
  <2>. QED BY <2>1 DEF RemoveCalls
<1>3. CASE Move(c, "forget") /\ UNCHANGED <<vifs, story>>
  <2>1. QuietTables(c)
    BY <1>1, <1>3 DEF QuietTables
  <2>2. op' \in [Clients -> Calls \cup {NULL}] /\ Filled' /\ QuietCall(c)
    BY <1>1, <1>3, <2>1, QuietMove
  <2>. QED BY <1>1, <1>3, <2>1, <2>2, QuietInv DEF VifTypes
<1>4. ASSUME vifs' = [vifs EXCEPT ![b] = @ \ {n}],
             story' = [story EXCEPT !.unplugged = @ \cup {<<b, n>>}],
             Move(c, "forget") \/ op' = [op EXCEPT ![c] = NULL]
      PROVE  VifInv'
  <2>1. /\ vifs' \in [Boards -> SUBSET Numbers]
        /\ \A x \in Boards : \A m \in vifs[x] : <<x, m>> # <<b, n>> => m \in vifs'[x]
    BY <1>1, <1>2, <1>4, VifsEffect
  <2>2. /\ story' \in Stories
        /\ story'.twice = story.twice /\ story'.lost = story.lost /\ story'.leaked = story.leaked
        /\ story'.unplugged = story.unplugged \cup {<<b, n>>}
    BY <1>1, <1>2, <1>4, UnpluggedEffect
  <2>3. QuietTables(c)
    <3>1. \A x \in Boards : \A m \in vifs[x] : m \in vifs'[x] \/ <<x, m>> \in story'.unplugged
      BY <2>1, <2>2
    <3>. QED BY <1>1, <2>2, <3>1 DEF QuietTables
  <2>4. op' \in [Clients -> Calls \cup {NULL}] /\ Filled' /\ QuietCall(c)
    <3>1. CASE Move(c, "forget")
      BY <1>1, <2>3, <3>1, QuietMove
    <3>2. CASE op' = [op EXCEPT ![c] = NULL]
      <4>1. /\ op' \in [Clients -> Calls \cup {NULL}]
            /\ op'[c] = NULL /\ \A d \in Clients \ {c} : op'[d] = op[d]
        BY <1>1, <3>2 DEF VifTypes
      <4>2. Filled'
        BY <4>1 DEF VifInv, Filled, Making, Walks, Claiming, Creates, Busy
      <4>3. QuietCall(c)
        BY <1>1, <4>1 DEF QuietCall, Making, Walks, Claiming, Creates, Removes, Forgot, Busy
      <4>. QED BY <4>1, <4>2, <4>3
    <3>. QED BY <1>4, <3>1, <3>2
  <2>. QED BY <1>1, <2>1, <2>2, <2>3, <2>4, QuietInv DEF VifTypes
<1>. QED BY <1>3, <1>4 DEF RemoveVif

(* The last call of create_port_on_board: it returns whatever is answered.  *)
LEMMA ConfigureVifStep ==
  ASSUME VifInv, NEW c \in Clients, ConfigureVif(c)
  PROVE  VifInv'
<1>1. /\ op[c] # NULL /\ op[c].kind = "create" /\ op[c].at = "configure"
      /\ op' = [op EXCEPT ![c] = NULL]
      /\ UNCHANGED <<list, rows, neutron, boards, vifs, taps, story>>
  BY DEF ConfigureVif, Answer, Busy, platform
<1>2. /\ op' \in [Clients -> Calls \cup {NULL}]
      /\ op'[c] = NULL /\ \A d \in Clients \ {c} : op'[d] = op[d]
  BY <1>1 DEF VifInv, VifTypes
<1>3. QuietTables(c)
  BY <1>1 DEF QuietTables
<1>4. Filled'
  BY <1>2 DEF VifInv, Filled, Making, Walks, Claiming, Creates, Busy
<1>5. QuietCall(c)
  BY <1>1, <1>2 DEF QuietCall, Making, Walks, Claiming, Creates, Removes, Forgot, Busy
<1>. QED BY <1>1, <1>2, <1>3, <1>4, <1>5, QuietInv DEF VifInv, VifTypes

(* Neutron deletes its port.                                                *)
LEMMA DeleteNeutronPortStep ==
  ASSUME VifInv, NEW c \in Clients, DeleteNeutronPort(c)
  PROVE  VifInv'
<1>1. /\ op[c] # NULL /\ op[c].kind = "remove" /\ op[c].at = "delete" /\ Move(c, "destroy")
      /\ UNCHANGED <<list, rows, boards, vifs, taps>>
      /\ VifTypes
  BY DEF DeleteNeutronPort, Busy, VifInv
<1>2. op[c].uuid \in Uuids
  <2>1. op[c] \in RemoveCalls
    BY <1>1, CallFields DEF VifTypes
  <2>. QED BY <2>1 DEF RemoveCalls
<1>3. /\ op'[c] # NULL /\ op'[c].kind = "remove" /\ op'[c].at = "destroy" /\ op'[c].uuid = op[c].uuid
  BY <1>1, MoveEffect DEF RemoveSteps
<1>4. /\ neutron' \subseteq Uuids /\ neutron' \subseteq neutron
      /\ \A u \in neutron \ neutron' : u = op[c].uuid
      /\ op[c].uuid \notin neutron' \/ op[c].uuid \in story'.leaked
      /\ story' \in Stories
      /\ story'.twice = story.twice /\ story'.lost = story.lost /\ story'.unplugged = story.unplugged
      /\ story.leaked \subseteq story'.leaked
  <2>1. CASE neutron' = neutron \ {op[c].uuid} /\ UNCHANGED story
    BY <1>1, <2>1 DEF VifTypes
  <2>2. CASE story' = [story EXCEPT !.leaked = @ \cup {op[c].uuid}] /\ UNCHANGED neutron
    BY <1>1, <1>2, <2>2 DEF VifTypes, Stories
  <2>. QED BY <2>1, <2>2 DEF DeleteNeutronPort
<1>5. QuietTables(c)
  BY <1>1, <1>3, <1>4 DEF QuietTables, Removes, Busy
<1>6. op' \in [Clients -> Calls \cup {NULL}] /\ Filled' /\ QuietCall(c)
  BY <1>1, <1>4, <1>5, QuietMove
<1>. QED BY <1>1, <1>4, <1>5, <1>6, QuietInv DEF VifTypes

-----------------------------------------------------------------------------
(* A call that begins. *)

(* A client asks for a port.                                                *)
LEMMA PutPortStep ==
  ASSUME VifInv, NEW c \in Clients, PutPort(c)
  PROVE  VifInv'
<1>1. op[c] = NULL /\ UNCHANGED <<list, rows, neutron, boards, vifs, taps, story>>
  BY DEF PutPort, platform
<1>2. PICK b \in Boards, p \in Served :
        op' = [op EXCEPT ![c] = [kind |-> "create", at |-> "read", proc |-> p, board |-> b,
                                 uuid |-> NULL, num |-> NULL, i |-> 0, from |-> 1, fresh |-> FALSE]]
  BY DEF PutPort
<1>. DEFINE call == [kind |-> "create", at |-> "read", proc |-> p, board |-> b,
                     uuid |-> NULL, num |-> NULL, i |-> 0, from |-> 1, fresh |-> FALSE]
<1>3. call \in Calls /\ call.kind = "create" /\ call.at = "read" /\ call.uuid = NULL
  BY DEF Calls, CreateCalls, CreateSteps, Served
<1>. HIDE DEF call
<1>4. /\ op' \in [Clients -> Calls \cup {NULL}]
      /\ op'[c] = call /\ \A d \in Clients \ {c} : op'[d] = op[d]
  BY <1>2, <1>3 DEF call, VifInv, VifTypes
<1>5. QuietTables(c)
  BY <1>1 DEF QuietTables
<1>6. Filled'
  BY <1>3, <1>4 DEF VifInv, Filled, Making, Walks, Claiming, Creates, Busy
<1>7. QuietCall(c)
  BY <1>1, <1>3, <1>4 DEF QuietCall, Making, Walks, Claiming, Creates, Removes, Forgot, Busy
<1>. QED BY <1>1, <1>4, <1>5, <1>6, <1>7, QuietInv DEF VifInv, VifTypes

(* A client asks that one be removed.                                       *)
LEMMA DeletePortStep ==
  ASSUME VifInv, NEW c \in Clients, DeletePort(c)
  PROVE  VifInv'
<1>1. op[c] = NULL /\ UNCHANGED <<list, rows, neutron, boards, vifs, taps, story>>
  BY DEF DeletePort, platform
<1>2. PICK r \in rows, b \in Boards, p \in Served :
        op' = [op EXCEPT ![c] = [kind |-> "remove", at |-> "read", proc |-> p, board |-> b,
                                 uuid |-> r.uuid, num |-> r.num]]
  BY DEF DeletePort
<1>. DEFINE call == [kind |-> "remove", at |-> "read", proc |-> p, board |-> b,
                     uuid |-> r.uuid, num |-> r.num]
<1>3. call \in Calls /\ call.kind = "remove" /\ call.at = "read" /\ call.uuid = r.uuid /\ call.num = r.num
  BY DEF Calls, RemoveCalls, RemoveSteps, Served, VifInv, VifTypes, Rows
<1>. HIDE DEF call
<1>4. /\ op' \in [Clients -> Calls \cup {NULL}]
      /\ op'[c] = call /\ \A d \in Clients \ {c} : op'[d] = op[d]
  BY <1>2, <1>3 DEF call, VifInv, VifTypes
<1>5. QuietTables(c)
  BY <1>1 DEF QuietTables
<1>6. Filled'
  BY <1>3, <1>4 DEF VifInv, Filled, Making, Walks, Claiming, Creates, Busy
<1>7. HasRow(r.uuid)
  BY DEF HasRow
<1>8. QuietCall(c)
  BY <1>1, <1>3, <1>4, <1>7 DEF QuietCall, Making, Walks, Claiming, Creates, Removes, Forgot, Busy
<1>. QED BY <1>1, <1>4, <1>5, <1>6, <1>8, QuietInv DEF VifInv, VifTypes

-----------------------------------------------------------------------------
(* The walk through the list. *)

(* A call that draws, or goes on with its walk. *)
LEMMA WalkStep ==
  ASSUME VifInv, NEW c \in Clients, NEW call \in CreateCalls,
         op[c] # NULL, op[c].kind = "create", op[c].at \in {"draw", "test", "compare"},
         op' = [op EXCEPT ![c] = call],
         call.at \in {"test", "compare", "insert"}, call.uuid = op[c].uuid, call.num \in Numbers,
         Seen(call), UNCHANGED <<list, rows, platform, story>>
  PROVE  VifInv'
<1>1. UNCHANGED <<list, rows, neutron, boards, vifs, taps, story>>
  BY DEF platform
<1>2. /\ op' \in [Clients -> Calls \cup {NULL}]
      /\ op'[c] = call /\ \A d \in Clients \ {c} : op'[d] = op[d]
      /\ call # NULL /\ call.kind = "create"
  BY CallFields DEF VifInv, VifTypes, Calls, CreateCalls
<1>3. QuietTables(c)
  BY <1>1 DEF QuietTables
<1>4. op[c].uuid \in Uuids
  BY DEF VifInv, Filled, Making, Creates
<1>5. Filled'
  BY <1>2, <1>4 DEF VifInv, Filled, Making, Walks, Claiming, Creates, Busy
<1>6. Seen(op[c])'
  BY <1>1, <1>2 DEF Seen
<1>7. QuietCall(c)
  BY <1>1, <1>2, <1>6 DEF QuietCall, Making, Walks, Claiming, Creates, Removes, Forgot, Busy
<1>. QED BY <1>1, <1>2, <1>3, <1>5, <1>7, QuietInv DEF VifInv, VifTypes

(* A number is drawn, and nothing compared with it yet. *)
LEMMA DrawFromStep ==
  ASSUME VifInv, NEW c \in Clients, NEW k \in {1, 2},
         op[c] # NULL, op[c].kind = "create", op[c].at \in {"draw", "compare"},
         DrawFrom(c, k), UNCHANGED <<list, rows, platform, story>>
  PROVE  VifInv'
<1>1. PICK n \in Numbers :
        op' = [op EXCEPT ![c].at = "test", ![c].num = n, ![c].i = k, ![c].from = k, ![c].fresh = TRUE]
  BY DEF DrawFrom
<1>2. op[c] \in CreateCalls
  BY CallFields DEF VifInv, VifTypes
<1>. DEFINE call == [op[c] EXCEPT !.at = "test", !.num = n, !.i = k, !.from = k, !.fresh = TRUE]
<1>3. /\ call \in CreateCalls /\ call.at = "test" /\ call.uuid = op[c].uuid
      /\ call.num = n /\ call.i = k /\ call.from = k
  <2>1. "test" \in CreateSteps /\ k \in Nat
    BY DEF CreateSteps
  <2>. QED BY <1>2, <2>1 DEF CreateCalls
<1>4. op' = [op EXCEPT ![c] = call]
  BY <1>1 DEF VifInv, VifTypes
<1>. HIDE DEF call
<1>5. Seen(call)
  <2>1. list[call.proc] \in Seq(Numbers)
    BY <1>3 DEF VifInv, VifTypes, CreateCalls
  <2>. QED BY <1>3, <2>1 DEF Seen
<1>. QED BY <1>3, <1>4, <1>5, WalkStep

(* The first number is drawn. *)
LEMMA DrawStep ==
  ASSUME VifInv, NEW c \in Clients, Draw(c)
  PROVE  VifInv'
BY DrawFromStep DEF Draw, Busy

(* The walk goes on, or has come to the end of the list.                    *)
LEMMA TestStep ==
  ASSUME VifInv, NEW c \in Clients, Test(c)
  PROVE  VifInv'
<1>1. /\ op[c] # NULL /\ op[c].kind = "create" /\ op[c].at = "test"
      /\ UNCHANGED <<list, rows, platform, story>>
      /\ op[c].num \in Numbers /\ Seen(op[c])
  BY DEF Test, Busy, VifInv, Filled, Walked, Walks, Creates
<1>2. op[c] \in CreateCalls
  BY <1>1, CallFields DEF VifInv, VifTypes
<1>. DEFINE at == IF op[c].i =< Len(list[op[c].proc]) THEN "compare" ELSE "insert"
            call == [op[c] EXCEPT !.at = at]
<1>3. /\ call \in CreateCalls /\ call.at = at /\ call.uuid = op[c].uuid /\ call.proc = op[c].proc
      /\ call.num = op[c].num /\ call.i = op[c].i /\ call.from = op[c].from /\ call.fresh = op[c].fresh
      /\ at \in {"compare", "insert"} /\ op[c].i \in Nat /\ list[op[c].proc] \in Seq(Numbers)
  BY <1>2 DEF CreateCalls, CreateSteps, VifInv, VifTypes
<1>4. op' = [op EXCEPT ![c] = call]
  BY DEF Test, Move, Listed, VifInv, VifTypes
<1>5. at = "insert" => op[c].i > Len(list[op[c].proc])
  BY <1>3
<1>. HIDE DEF call, at
<1>6. Seen(call)
  BY <1>1, <1>3, <1>5 DEF Seen
<1>. QED BY <1>1, <1>3, <1>4, <1>6, WalkStep

(* The number drawn is compared with the list: drawn again if it is there.  *)
LEMMA CompareStep ==
  ASSUME VifInv, NEW c \in Clients, Compare(c)
  PROVE  VifInv'
<1>1. /\ op[c] # NULL /\ op[c].kind = "create" /\ op[c].at = "compare"
      /\ UNCHANGED <<list, rows, platform>>
      /\ op[c].num \in Numbers /\ Seen(op[c])
  BY DEF Compare, Busy, VifInv, Filled, Walked, Walks, Creates
<1>2. op[c] \in CreateCalls
  BY <1>1, CallFields DEF VifInv, VifTypes
<1>3. CASE op[c].i > Len(Listed(c))
  <2>1. Raise(c)
    BY <1>3 DEF Compare
  <2>2. /\ op' \in [Clients -> Calls \cup {NULL}] /\ Filled' /\ QuietCall(c)
        /\ story' \in Stories
        /\ story'.twice = story.twice /\ story'.unplugged = story.unplugged
        /\ story.lost \subseteq story'.lost /\ story.leaked \subseteq story'.leaked
    BY <1>1, <2>1, QuietRaise
  <2>3. QuietTables(c)
    BY <1>1, <2>2 DEF QuietTables, platform
  <2>. QED BY <1>1, <2>2, <2>3, QuietInv DEF VifInv, VifTypes, platform
<1>4. CASE op[c].i =< Len(Listed(c)) /\ Listed(c)[op[c].i] = op[c].num
  <2>1. op[c].i \in Nat /\ Len(Listed(c)) \in Nat
    BY <1>2 DEF CreateCalls, Listed, VifInv, VifTypes
  <2>2. DrawFrom(c, 2) /\ UNCHANGED story
    BY <1>4, <2>1 DEF Compare
  <2>. QED BY <1>1, <2>2, DrawFromStep
<1>5. CASE op[c].i =< Len(Listed(c)) /\ Listed(c)[op[c].i] # op[c].num
  <2>0. op[c].i \in Nat /\ Len(Listed(c)) \in Nat /\ list[op[c].proc] \in Seq(Numbers)
    BY <1>2 DEF CreateCalls, Listed, VifInv, VifTypes
  <2>1. op' = [op EXCEPT ![c].at = "test", ![c].i = @ + 1] /\ UNCHANGED story
    BY <1>5, <2>0 DEF Compare
  <2>. DEFINE call == [op[c] EXCEPT !.at = "test", !.i = @ + 1]
  <2>2. /\ call \in CreateCalls /\ call.at = "test" /\ call.uuid = op[c].uuid /\ call.proc = op[c].proc
        /\ call.num = op[c].num /\ call.fresh = op[c].fresh /\ call.i = op[c].i + 1
        /\ call.from = op[c].from
    <3>1. "test" \in CreateSteps
      BY DEF CreateSteps
    <3>2. op[c].i + 1 \in Nat
      BY <2>0
    <3>3. call \in CreateCalls
      BY <1>2, <3>1, <3>2 DEF CreateCalls
    <3>. QED BY <1>2, <3>3 DEF CreateCalls
  <2>3. op' = [op EXCEPT ![c] = call]
    BY <2>1 DEF VifInv, VifTypes
  <2>. HIDE DEF call
  <2>4. ASSUME call.fresh, NEW j \in 1..Len(list[call.proc]), call.from =< j, j < call.i
        PROVE  list[call.proc][j] # call.num
    <3>1. j < op[c].i \/ j = op[c].i
      BY <2>0, <2>2, <2>4
    <3>2. CASE j < op[c].i
      BY <1>1, <2>2, <2>4, <3>2 DEF Seen
    <3>3. CASE j = op[c].i
      BY <1>5, <2>2, <3>3 DEF Listed
    <3>. QED BY <3>1, <3>2, <3>3
  <2>5. Seen(call)
    BY <2>2, <2>4 DEF Seen
  <2>. QED BY <1>1, <2>1, <2>2, <2>3, <2>5, WalkStep
<1>. QED
  <2>1. op[c].i \in Nat /\ Len(Listed(c)) \in Nat
    BY <1>2 DEF CreateCalls, Listed, VifInv, VifTypes
  <2>. QED BY <1>3, <1>4, <1>5, <2>1

-----------------------------------------------------------------------------
(* The steps that give a call a port, a number or a row of its own. *)

(* Neutron makes a port.                                                    *)
LEMMA AddPortStep ==
  ASSUME VifInv, NEW c \in Clients, AddPort(c)
  PROVE  VifInv'
<1>. USE DEF Creates, Removes, Making, Walks, Claiming, Forgot, Busy
<1>1. /\ op[c] # NULL /\ op[c].kind = "create" /\ op[c].at = "neutron"
      /\ UNCHANGED <<list, rows, boards, vifs, taps, story>>
      /\ VifTypes
  BY DEF AddPort, Busy, VifInv
<1>2. PICK u \in Uuids :
        /\ u \notin neutron /\ ~HasRow(u) /\ \A t \in taps : t[1] # u
        /\ neutron' = neutron \cup {u}
        /\ op' = [op EXCEPT ![c].at = "draw", ![c].uuid = u]
  BY DEF AddPort, HasRow
<1>3. op[c] \in CreateCalls
  BY <1>1, CallFields DEF VifTypes
<1>. DEFINE call == [op[c] EXCEPT !.at = "draw", !.uuid = u]
<1>4. call \in CreateCalls /\ call.kind = "create" /\ call.at = "draw" /\ call.uuid = u
  BY <1>3 DEF CreateCalls, CreateSteps
<1>5. op' = [op EXCEPT ![c] = call]
  BY <1>2 DEF VifInv, VifTypes
<1>. HIDE DEF call
<1>6. /\ op' \in [Clients -> Calls \cup {NULL}] /\ call # NULL
      /\ op'[c] = call /\ \A d \in Clients \ {c} : op'[d] = op[d]
  BY <1>1, <1>4, <1>5, CallFields DEF VifTypes, Calls
<1>7. u # NULL
  BY VifAssumption
<1>8. \A d \in Clients : d # c => op'[d] = op[d]
  BY <1>6
<1>10. ASSUME NEW d \in Clients \ {c}, op[d] # NULL
       PROVE  op[d].uuid # u
  <2>1. CASE Making(d)
    BY <1>2, <2>1 DEF VifInv, OwnUuid
  <2>2. CASE Busy(d, "create", "configure") \/ Removes(d)
    BY <1>2, <2>2 DEF VifInv, Tapped
  <2>3. CASE Busy(d, "create", "read") \/ Busy(d, "create", "neutron")
    BY <1>7, <2>3 DEF VifInv, Filled
  <2>. QED BY <1>1, <1>10, <2>1, <2>2, <2>3, CallFields DEF VifTypes, CreateCalls, CreateSteps
<1>11. VifTypes'
  BY <1>1, <1>2, <1>6 DEF VifTypes
<1>12. Filled'
  BY <1>1, <1>4, <1>6, <1>7, <1>8 DEF VifInv, Filled
<1>13. OwnUuid'
  <2>1. ASSUME NEW d \in Clients, Making(d)', d # c
        PROVE  /\ op'[d].uuid \in neutron' /\ ~HasRow(op'[d].uuid)
               /\ \A e \in Clients \ {d} : op'[e] # NULL => op'[e].uuid # op'[d].uuid
    <3>1. Making(d) /\ op'[d] = op[d] /\ op[d] # NULL
      BY <1>8, <2>1 
    <3>2. op[d].uuid # u
      BY <1>10, <2>1, <3>1
    <3>. QED BY <1>2, <1>4, <1>6, <2>1, <3>1, <3>2 DEF VifInv, OwnUuid
  <2>2. /\ op'[c].uuid \in neutron' /\ ~HasRow(op'[c].uuid)
        /\ \A e \in Clients \ {c} : op'[e] # NULL => op'[e].uuid # op'[c].uuid
    BY <1>2, <1>4, <1>6, <1>10
  <2>. QED BY <1>1, <2>1, <2>2 DEF OwnUuid, HasRow
<1>14. Tapped'
  BY <1>1, <1>4, <1>6, <1>8 DEF VifInv, Tapped
<1>15. OneRow'
  BY <1>1, <1>4, <1>6, <1>8 DEF VifInv, OneRow
<1>16. Accounted'
  <2>1. ASSUME NEW d \in Clients \ {c}, op[d] # NULL
        PROVE  op[d].uuid \in neutron' <=> op[d].uuid \in neutron
    BY <1>2, <1>10, <2>1
  <2>2. ASSUME NEW d \in Clients \ {c}
        PROVE  /\ Busy(d, "create", "configure")' =>
                    HasRow(op'[d].uuid) \/ op'[d].uuid \notin neutron' \/ op'[d].uuid \in story'.leaked
               /\ Busy(d, "remove", "destroy")' => op'[d].uuid \notin neutron' \/ op'[d].uuid \in story'.leaked
    BY <1>1, <1>8, <2>1, <2>2 DEF VifInv, Accounted, HasRow
  <2>. QED BY <1>1, <1>4, <1>6, <2>2 DEF Accounted, HasRow
<1>17. PortIsOwned'
  <2>1. ASSUME NEW x \in neutron
        PROVE  \/ \E r \in rows : r.uuid = x
               \/ \E d \in Clients : op'[d] # NULL /\ op'[d].kind = "create" /\ op'[d].uuid = x
               \/ x \in story.leaked
    <3>1. ASSUME NEW d \in Clients, Creates(d), op[d].uuid = x PROVE d # c
      BY <1>1, <3>1, VifAssumption DEF VifInv, Filled, VifTypes
    <3>. QED BY <1>8, <2>1, <3>1 DEF VifInv, PortIsOwned
  <2>2. op'[c] # NULL /\ op'[c].kind = "create" /\ op'[c].uuid = u
    BY <1>4, <1>6
  <2>. QED BY <1>1, <1>2, <2>1, <2>2 DEF PortIsOwned
<1>18. Plugged'
  <2>1. ~(Creates(c)' /\ op'[c].at \in {"tap", "row"})
    BY <1>4, <1>6
  <2>. QED BY <1>1, <1>8, <2>1 DEF VifInv, Plugged
<1>19. RowIsPlugged'
  BY <1>1, <1>2, <1>4, <1>6, <1>8 DEF VifInv, RowIsPlugged, Removing
<1>20. OneClaim' /\ NoSharedNumber'
  BY <1>1, <1>4, <1>6, <1>8 DEF VifInv, OneClaim, NoSharedNumber
<1>21. ClaimsListed'
  BY <1>1, <1>4, <1>6, <1>8 DEF VifInv, ClaimsListed, InAList
<1>22. RowIsListed'
  BY <1>1, <1>4, <1>6, <1>8 DEF VifInv, RowIsListed, Removing
<1>23. Walked'
  BY <1>1, <1>4, <1>6, <1>8 DEF VifInv, Walked, Seen
<1>. QED BY <1>11, <1>12, <1>13, <1>14, <1>15, <1>16, <1>17, <1>18, <1>19, <1>20, <1>21, <1>22, <1>23
   DEF VifInv

(* The row of the port is created, with the number that the call claims.    *)
LEMMA CreateRowStep ==
  ASSUME VifInv, NEW c \in Clients, CreateRow(c)
  PROVE  VifInv'
<1>. USE DEF Creates, Removes, Making, Walks, Claiming, Forgot, Busy
<1>. DEFINE u == op[c].uuid
            n == op[c].num
            b == op[c].board
            row == [uuid |-> u, board |-> b, num |-> n]
<1>1. /\ op[c] # NULL /\ op[c].kind = "create" /\ op[c].at = "row" /\ Move(c, "configure")
      /\ UNCHANGED <<list, neutron, boards, vifs, taps, story>>
      /\ VifTypes /\ rows' = rows \cup {row}
  BY DEF CreateRow, VifInv, platform
<1>2. u \in Uuids /\ n \in Numbers /\ b \in Boards /\ boards[b] # NULL
  BY <1>1, CallFields DEF VifInv, Filled, VifTypes, CreateRow
<1>3. /\ row \in Rows /\ row.uuid = u /\ row.num = n /\ row.board = b
  BY <1>2 DEF Rows
<1>. HIDE DEF row
<1>4. /\ op' \in [Clients -> Calls \cup {NULL}]
      /\ \A d \in Clients : d # c => op'[d] = op[d]
      /\ op'[c] # NULL /\ op'[c].at = "configure"
      /\ op'[c].kind = "create" /\ op'[c].proc = op[c].proc /\ op'[c].board = b
      /\ op'[c].uuid = u /\ op'[c].num = n
  BY <1>1, MoveEffect DEF CreateSteps
<1>5. /\ u \in neutron /\ \A r \in rows : r.uuid # u
      /\ \A d \in Clients : d # c /\ op[d] # NULL => op[d].uuid # u
  BY <1>1 DEF VifInv, OwnUuid, HasRow
<1>6. <<u, n>> \in taps /\ (n \in vifs[b] \/ <<b, n>> \in story.unplugged)
  BY <1>1, <1>2 DEF VifInv, Tapped, Plugged
<1>11. VifTypes'
  BY <1>1, <1>3, <1>4 DEF VifTypes
<1>12. Filled'
  BY <1>1, <1>2, <1>4 DEF VifInv, Filled
<1>13. OwnUuid'
  <2>1. ASSUME NEW d \in Clients, Making(d)'
        PROVE  /\ op'[d].uuid \in neutron' /\ \A r \in rows' : r.uuid # op'[d].uuid
               /\ \A e \in Clients \ {d} : op'[e] # NULL => op'[e].uuid # op'[d].uuid
    <3>1. d # c /\ Making(d) /\ op'[d] = op[d] /\ op[d] # NULL
      BY <1>4, <2>1
    <3>2. op[d].uuid # u /\ \A r \in rows : r.uuid # op[d].uuid
      BY <1>5, <3>1 DEF VifInv, OwnUuid, HasRow
    <3>3. \A r \in rows' : r.uuid # op[d].uuid
      BY <1>1, <1>3, <3>2
    <3>. QED BY <1>1, <1>4, <3>1, <3>2, <3>3 DEF VifInv, OwnUuid
  <2>. QED BY <2>1 DEF OwnUuid, HasRow
<1>14. Tapped'
  <2>1. \A r \in rows' : <<r.uuid, r.num>> \in taps'
    BY <1>1, <1>3, <1>6 DEF VifInv, Tapped
  <2>2. \E t \in taps : t[1] = u
    BY <1>6
  <2>. QED BY <1>1, <1>4, <2>1, <2>2 DEF VifInv, Tapped
<1>15. OneRow'
  <2>1. \A r, s \in rows' : r.uuid = s.uuid => r = s
    BY <1>1, <1>3, <1>5 DEF VifInv, OneRow
  <2>2. ASSUME NEW d \in Clients, NEW r \in rows', Removes(d)', r.uuid = op'[d].uuid
        PROVE  r.num = op'[d].num
    <3>1. d # c /\ Removes(d) /\ op'[d] = op[d]
      BY <1>4, <2>2
    <3>2. r \in rows
      BY <1>1, <1>3, <1>5, <2>2, <3>1
    <3>. QED BY <2>2, <3>1, <3>2 DEF VifInv, OneRow
  <2>. QED BY <2>1, <2>2 DEF OneRow
<1>16. Accounted'
  <2>1. rows \subseteq rows' /\ row \in rows'
    BY <1>1
  <2>2. ASSUME NEW d \in Clients, d # c
        PROVE  /\ Busy(d, "create", "configure")' =>
                    (\E r \in rows' : r.uuid = op'[d].uuid)
                    \/ op'[d].uuid \notin neutron' \/ op'[d].uuid \in story'.leaked
               /\ Busy(d, "remove", "destroy")' => op'[d].uuid \notin neutron' \/ op'[d].uuid \in story'.leaked
    BY <1>1, <1>4, <2>1, <2>2 DEF VifInv, Accounted, HasRow
  <2>3. \E r \in rows' : r.uuid = op'[c].uuid
    BY <1>3, <1>4, <2>1
  <2>. QED BY <1>4, <2>2, <2>3 DEF Accounted, HasRow
<1>17. PortIsOwned'
  <2>1. rows \subseteq rows'
    BY <1>1
  <2>2. \A d \in Clients : op'[d] # NULL <=> op[d] # NULL
    BY <1>1, <1>4
  <2>3. \A d \in Clients : op[d] # NULL => op'[d].kind = op[d].kind /\ op'[d].uuid = op[d].uuid
    BY <1>1, <1>4
  <2>. QED BY <1>1, <2>1, <2>2, <2>3 DEF VifInv, PortIsOwned
<1>18. Plugged'
  <2>1. \A r \in rows' : boards'[r.board] # NULL
    BY <1>1, <1>2, <1>3 DEF VifInv, Plugged
  <2>. QED BY <1>1, <1>4, <2>1 DEF VifInv, Plugged
<1>19. RowIsPlugged'
  <2>1. \A d \in Clients : Busy(d, "remove", "destroy") => Busy(d, "remove", "destroy")' /\ op'[d] = op[d]
    BY <1>1, <1>4
  <2>2. ASSUME NEW r \in rows'
        PROVE  /\ <<r.uuid, r.num>> \in taps'
               /\ r.num \in vifs'[r.board] \/ <<r.board, r.num>> \in story'.unplugged
               /\ \/ r.uuid \in neutron' \/ r.uuid \in story'.leaked
                  \/ \E d \in Clients : Busy(d, "remove", "destroy")' /\ op'[d].uuid = r.uuid
    <3>1. CASE r = row
      BY <1>1, <1>3, <1>5, <1>6, <3>1
    <3>2. CASE r \in rows
      BY <1>1, <2>1, <3>2 DEF VifInv, RowIsPlugged, Removing
    <3>. QED BY <1>1, <3>1, <3>2
  <2>. QED BY <2>2 DEF RowIsPlugged, Removing
<1>20. NoSharedNumber'
  <2>1. \A r \in rows : r.num = n => n \in story.twice
    BY <1>1 DEF VifInv, OneClaim
  <2>. QED BY <1>1, <1>3, <2>1 DEF VifInv, NoSharedNumber
<1>21. OneClaim'
  <2>1. ASSUME NEW d \in Clients, Claiming(d)'
        PROVE  /\ \A r \in rows' : r.num = op'[d].num => op'[d].num \in story'.twice
               /\ \A e \in Clients \ {d} : Claiming(e)' /\ op'[e].num = op'[d].num => op'[d].num \in story'.twice
    <3>1. d # c /\ Claiming(d) /\ op'[d] = op[d]
      BY <1>4, <2>1
    <3>2. n = op[d].num => op[d].num \in story.twice
      BY <1>1, <3>1 DEF VifInv, OneClaim
    <3>. QED BY <1>1, <1>3, <1>4, <3>1, <3>2 DEF VifInv, OneClaim
  <2>. QED BY <2>1 DEF OneClaim
<1>22. ClaimsListed'
  BY <1>1, <1>4 DEF VifInv, ClaimsListed, InAList
<1>23. RowIsListed'
  <2>1. \A d \in Clients : Forgot(d) => Forgot(d)' /\ op'[d] = op[d]
    BY <1>1, <1>4
  <2>2. ASSUME NEW r \in rows'
        PROVE  \/ InAList(r.num) \/ r.num \in story.lost \cup story.twice
               \/ \E d \in Clients : Forgot(d)' /\ op'[d].uuid = r.uuid
    <3>1. CASE r = row
      BY <1>1, <1>3, <3>1 DEF VifInv, ClaimsListed
    <3>2. CASE r \in rows
      BY <2>1, <3>2 DEF VifInv, RowIsListed, Removing, InAList
    <3>. QED BY <1>1, <3>1, <3>2
  <2>. QED BY <1>1, <2>2 DEF RowIsListed, Removing, InAList
<1>24. Walked'
  BY <1>1, <1>4 DEF VifInv, Walked, Seen
<1>. QED BY <1>11, <1>12, <1>13, <1>14, <1>15, <1>16, <1>17, <1>18, <1>19, <1>20, <1>21, <1>22, <1>23, <1>24
   DEF VifInv

-----------------------------------------------------------------------------
(* The steps that change the list. *)

(* A call that stays where it is, be its walk fresh or not. *)
Alike(d) ==
  /\ op'[d] # NULL <=> op[d] # NULL
  /\ op[d] # NULL =>
       /\ op'[d].kind = op[d].kind /\ op'[d].at = op[d].at
       /\ op'[d].proc = op[d].proc /\ op'[d].board = op[d].board
       /\ op'[d].uuid = op[d].uuid /\ op'[d].num = op[d].num
       /\ op[d].kind = "create" =>
            op'[d].i = op[d].i /\ op'[d].from = op[d].from /\ (op'[d].fresh => op[d].fresh)

(* A call whose list changes under it keeps all but its freshness.          *)
LEMMA DisturbedEffect ==
  ASSUME VifTypes, NEW p \in Procs, NEW d \in Clients,
         NEW x, x = Disturbed(p)[d]
  PROVE  /\ x \in Calls \cup {NULL}
         /\ x # NULL <=> op[d] # NULL
         /\ op[d] # NULL =>
              /\ x.kind = op[d].kind /\ x.at = op[d].at /\ x.proc = op[d].proc
              /\ x.board = op[d].board /\ x.uuid = op[d].uuid /\ x.num = op[d].num
              /\ op[d].kind = "create" => x.i = op[d].i /\ x.from = op[d].from /\ (x.fresh => op[d].fresh)
              /\ op[d].kind = "create" /\ op[d].proc = p => ~x.fresh
<1>1. op[d] \in Calls \cup {NULL}
  BY DEF VifTypes
<1>2. CASE op[d] # NULL /\ op[d].kind = "create" /\ op[d].proc = p
  <2>1. op[d] \in CreateCalls
    BY <1>1, <1>2, CallFields
  <2>2. x = [op[d] EXCEPT !.fresh = FALSE]
    BY <1>2 DEF Disturbed
  <2>3. x \in CreateCalls /\ x.fresh = FALSE
    BY <2>1, <2>2 DEF CreateCalls
  <2>4. x \in Calls
    BY <2>3 DEF Calls
  <2>. QED BY <1>2, <2>1, <2>2, <2>3, <2>4, CallFields DEF CreateCalls
<1>3. CASE ~(op[d] # NULL /\ op[d].kind = "create" /\ op[d].proc = p)
  <2>1. x = op[d]
    BY <1>3 DEF Disturbed
  <2>. QED BY <1>1, <1>3, <2>1
<1>. QED BY <1>2, <1>3

(* The calls when call c, which is at from and changes the list of its      *)
(* process, goes on to at.                                                  *)
LEMMA DisturbedCalls ==
  ASSUME VifTypes, NEW c \in Clients, op[c] # NULL, NEW call \in Calls,
         op' = [Disturbed(op[c].proc) EXCEPT ![c] = call]
  PROVE  /\ op' \in [Clients -> Calls \cup {NULL}]
         /\ op'[c] = call
         /\ \A d \in Clients : d # c =>
              /\ Alike(d)
              /\ op[d] # NULL /\ op[d].kind = "create" /\ op[d].proc = op[c].proc => ~op'[d].fresh
<1>. DEFINE p == op[c].proc
            D == Disturbed(p)
<1>1. p \in Procs
  BY CallFields DEF VifTypes
<1>2. D = [d \in Clients |-> D[d]]
  BY DEF Disturbed
<1>3. \A d \in Clients : D[d] \in Calls \cup {NULL}
  BY <1>1, DisturbedEffect
<1>. HIDE DEF D
<1>4. /\ op' \in [Clients -> Calls \cup {NULL}]
      /\ op'[c] = call
      /\ \A d \in Clients : d # c => op'[d] = D[d]
  BY <1>2, <1>3 DEF D
<1>5. ASSUME NEW d \in Clients, d # c
      PROVE  /\ Alike(d)
             /\ op[d] # NULL /\ op[d].kind = "create" /\ op[d].proc = op[c].proc => ~op'[d].fresh
  <2>1. op'[d] = Disturbed(p)[d]
    BY <1>4, <1>5 DEF D
  <2>. QED BY <1>1, <2>1, DisturbedEffect DEF Alike
<1>. QED BY <1>4, <1>5

(* Nothing leaves a list by an insert. *)
LEMMA InsertKeeps ==
  ASSUME NEW s \in Seq(Numbers), NEW n \in Numbers
  PROVE  /\ <<n>> \o s \in Seq(Numbers)
         /\ Contains(<<n>> \o s, n)
         /\ \A m : Contains(s, m) => Contains(<<n>> \o s, m)
<1>. DEFINE t == <<n>> \o s
<1>1. /\ t \in Seq(Numbers) /\ Len(t) = Len(s) + 1 /\ t[1] = n
      /\ \A i \in 1..Len(s) : t[i + 1] = s[i]
  OBVIOUS
<1>2. 1 \in 1..Len(t) /\ \A i \in 1..Len(s) : i + 1 \in 1..Len(t)
  BY <1>1
<1>. HIDE DEF t
<1>3. Contains(t, n) /\ \A m : Contains(s, m) => Contains(t, m)
  BY <1>1, <1>2 DEF Contains
<1>. QED BY <1>1, <1>3 DEF t

(* A set of naturals has a least one: so SelectInSeq finds the first.       *)
LEMMA LeastExists ==
  ASSUME NEW I, I \subseteq Nat, I # {}
  PROVE  \E i \in I : \A j \in I : i =< j
<1>. DEFINE less == OpToRel(<, Nat)
<1>1. \A m, n \in Nat : m < n => <<m, n>> \in less
  BY DEF OpToRel
<1>2. IsWellFoundedOn(less, Nat)
  BY NatLessThanWellFounded
<1>. HIDE DEF less
<1>3. PICK i \in I : \A j \in I : <<j, i>> \notin less
  BY <1>2, WFMin
<1>4. ASSUME NEW j \in I PROVE i =< j
  <2>1. ~(j < i)
    BY <1>1, <1>3, Zenon
  <2>. QED BY <2>1
<1>. QED BY <1>4

(* What is before and what is behind a place of a sequence. *)
LEMMA Pieces ==
  ASSUME NEW S, NEW s \in Seq(S), NEW k \in 1..Len(s)
  PROVE  /\ SubSeq(s, 1, k - 1) \in Seq(S)
         /\ Len(SubSeq(s, 1, k - 1)) = k - 1
         /\ \A i \in 1..(k - 1) : SubSeq(s, 1, k - 1)[i] = s[i]
         /\ SubSeq(s, k + 1, Len(s)) \in Seq(S)
         /\ Len(SubSeq(s, k + 1, Len(s))) = Len(s) - k
         /\ \A i \in 1..(Len(s) - k) : SubSeq(s, k + 1, Len(s))[i] = s[i + k]
OBVIOUS

(* Without one of its places a sequence has the elements of the others. *)
LEMMA WithoutOne ==
  ASSUME NEW S, NEW s \in Seq(S), NEW k \in 1..Len(s),
         NEW i \in 1..Len(s), i # k
  PROVE  /\ SubSeq(s, 1, k - 1) \o SubSeq(s, k + 1, Len(s)) \in Seq(S)
         /\ \E j \in 1..Len(SubSeq(s, 1, k - 1) \o SubSeq(s, k + 1, Len(s))) :
              (SubSeq(s, 1, k - 1) \o SubSeq(s, k + 1, Len(s)))[j] = s[i]
<1>. DEFINE a == SubSeq(s, 1, k - 1)
            b == SubSeq(s, k + 1, Len(s))
            t == a \o b
<1>1. a \in Seq(S) /\ Len(a) = k - 1 /\ \A j \in 1..(k - 1) : a[j] = s[j]
  BY Pieces
<1>2. b \in Seq(S) /\ Len(b) = Len(s) - k /\ \A j \in 1..(Len(s) - k) : b[j] = s[j + k]
  BY Pieces
<1>. HIDE DEF a, b
<1>3. /\ t \in Seq(S) /\ Len(t) = Len(a) + Len(b)
      /\ \A j \in 1..Len(a) : t[j] = a[j]
      /\ \A j \in 1..Len(b) : t[Len(a) + j] = b[j]
  <2>1. \A u, v \in Seq(S) : /\ u \o v \in Seq(S) /\ Len(u \o v) = Len(u) + Len(v)
                             /\ \A j \in 1..Len(u) : (u \o v)[j] = u[j]
                             /\ \A j \in 1..Len(v) : (u \o v)[Len(u) + j] = v[j]
    OBVIOUS
  <2>. QED BY <1>1, <1>2, <2>1
<1>. HIDE DEF t
<1>4. Len(s) \in Nat /\ k \in Int /\ i \in Int
  OBVIOUS
<1>5. ASSUME i < k PROVE \E j \in 1..Len(t) : t[j] = s[i]
  <2>1. i \in 1..(k - 1) /\ i \in 1..Len(t)
    BY <1>1, <1>2, <1>3, <1>4, <1>5
  <2>2. t[i] = s[i]
    BY <1>1, <1>3, <2>1
  <2>. QED BY <2>1, <2>2
<1>6. ASSUME i > k PROVE \E j \in 1..Len(t) : t[j] = s[i]
  <2>1. i - k \in 1..(Len(s) - k) /\ i - 1 \in 1..Len(t) /\ Len(a) + (i - k) = i - 1 /\ (i - k) + k = i
    BY <1>1, <1>2, <1>3, <1>4, <1>6
  <2>2. t[i - 1] = s[i]
    BY <1>2, <1>3, <2>1
  <2>. QED BY <2>1, <2>2
<1>7. \E j \in 1..Len(t) : t[j] = s[i]
  BY <1>4, <1>5, <1>6
<1>. QED BY <1>3, <1>7 DEF t, a, b

(* Port.remove takes no other number off the list. *)
LEMMA RemoveFirstKeeps ==
  ASSUME NEW S, NEW s \in Seq(S), NEW n, Contains(s, n)
  PROVE  /\ RemoveFirst(s, n) \in Seq(S)
         /\ \A m : m # n /\ Contains(s, m) => Contains(RemoveFirst(s, n), m)
<1>. DEFINE I == {i \in 1..Len(s) : s[i] = n}
            k == CHOOSE x \in I : \A y \in I : x =< y
            t == SubSeq(s, 1, k - 1) \o SubSeq(s, k + 1, Len(s))
<1>1. I # {} /\ I \subseteq Nat
  BY DEF Contains
<1>2. RemoveFirst(s, n) = t
  BY <1>1 DEF RemoveFirst, RemoveAt, SelectInSeq, Min, Contains
<1>3. k \in I
  BY <1>1, LeastExists
<1>4. k \in 1..Len(s) /\ s[k] = n
  BY <1>3
<1>. HIDE DEF k, I
<1>5. t \in Seq(S)
  BY <1>4
<1>6. ASSUME NEW i \in 1..Len(s), i # k
      PROVE  \E j \in 1..Len(t) : t[j] = s[i]
  BY <1>4, <1>6, WithoutOne
<1>. HIDE DEF t
<1>7. \A m : m # n /\ Contains(s, m) => Contains(t, m)
  BY <1>4, <1>6 DEF Contains
<1>. QED BY <1>2, <1>5, <1>7

(* The walk has seen that no other call or row has the number, or the ghost *)
(* knows why it could not.                                                  *)
LEMMA InsertedIsOwn ==
  ASSUME VifInv, NEW c \in Clients, InsertNumber(c), op[c].num \notin story'.twice
  PROVE  /\ \A r \in rows : r.num # op[c].num
         /\ \A d \in Clients : d # c /\ Claiming(d) => op[d].num # op[c].num
<1>. USE DEF Creates, Removes, Making, Walks, Claiming, Forgot, Busy
<1>. DEFINE n == op[c].num
            p == op[c].proc
<1>1. /\ op[c] # NULL /\ op[c].kind = "create" /\ op[c].at = "insert"
      /\ n \in Numbers /\ p \in Procs
      /\ list[p] \in Seq(Numbers) /\ op[c].i \in Nat /\ op[c].from \in {1, 2}
      /\ Seen(op[c])
  <2>1. op[c] # NULL /\ op[c].kind = "create" /\ op[c].at = "insert"
    BY DEF InsertNumber, Listed
  <2>2. op[c] \in CreateCalls
    BY <2>1, CallFields DEF VifInv, VifTypes
  <2>. QED BY <2>1, <2>2 DEF VifInv, Filled, Walked, Walks, VifTypes, CreateCalls
<1>2. n \notin story.twice /\ (~Unseen(c) \/ ~InUse(n))
  BY <1>1 DEF InsertNumber, VifInv, VifTypes
<1>3. ASSUME \/ \E r \in rows : r.num = n
             \/ \E d \in Clients : d # c /\ Claiming(d) /\ op[d].num = n
      PROVE  FALSE
  <2>1. InUse(n)
    <3>1. ASSUME NEW d \in Clients, Claiming(d), op[d].num = n PROVE InAList(n) \/ n \in story.lost
      BY <1>2, <3>1 DEF VifInv, ClaimsListed
    <3>. QED BY <1>3, <3>1 DEF InUse, InAList
  <2>2. ~Unseen(c)
    BY <1>2, <2>1
  <2>3. /\ op[c].fresh
        /\ ~(op[c].from = 2 /\ list[p] # <<>> /\ Head(list[p]) = n)
        /\ n \notin story.lost
        /\ \A q \in Procs \ {p} : ~Contains(list[q], n)
        /\ \A d \in Clients \ {c} : ~(Forgot(d) /\ op[d].num = n)
    BY <2>2 DEF Unseen, Listed
  <2>4. ~Contains(list[p], n)
    <3>1. ASSUME NEW j \in 1..Len(list[p]) PROVE list[p][j] # n
      <4>1. op[c].from =< j => list[p][j] # n
        BY <1>1, <2>3 DEF Seen
      <4>2. ~(op[c].from =< j) => op[c].from = 2 /\ j = 1 /\ list[p] # <<>> /\ list[p][1] = Head(list[p])
        BY <1>1
      <4>. QED BY <2>3, <4>1, <4>2
    <3>. QED BY <1>1, <3>1 DEF Contains
  <2>5. ~InAList(n)
    BY <2>3, <2>4 DEF InAList
  <2>6. ASSUME NEW r \in rows, r.num = n PROVE FALSE
    <3>1. PICK d \in Clients : Forgot(d) /\ op[d].uuid = r.uuid
      BY <1>2, <2>3, <2>5, <2>6 DEF VifInv, RowIsListed, Removing, InAList
    <3>2. d # c /\ op[d].num = n
      BY <1>1, <2>6, <3>1 DEF VifInv, OneRow
    <3>. QED BY <2>3, <3>1, <3>2
  <2>7. ASSUME NEW d \in Clients, d # c, Claiming(d), op[d].num = n PROVE FALSE
    BY <1>2, <2>3, <2>5, <2>7 DEF VifInv, ClaimsListed
  <2>. QED BY <1>3, <2>6, <2>7
<1>. QED BY <1>3

(* The number goes into the list of the process: it is in use already only  *)
(* if the story tells.                                                      *)
LEMMA InsertNumberStep ==
  ASSUME VifInv, NEW c \in Clients, InsertNumber(c)
  PROVE  VifInv'
<1>. USE DEF Creates, Removes, Making, Walks, Claiming, Forgot, Busy
<1>. DEFINE n == op[c].num
            p == op[c].proc
<1>1. /\ op[c] # NULL /\ op[c].kind = "create" /\ op[c].at = "insert"
      /\ n \in Numbers /\ p \in Procs /\ op[c].uuid \in Uuids
      /\ UNCHANGED <<rows, neutron, boards, vifs, taps>>
      /\ list' = [list EXCEPT ![p] = <<n>> \o @]
      /\ VifTypes
  BY CallFields DEF InsertNumber, platform, VifInv, Filled, VifTypes
<1>2. op[c] \in CreateCalls
  BY <1>1, CallFields DEF VifTypes
<1>. DEFINE call == [Disturbed(p)[c] EXCEPT !.at = "vif", !.i = 0, !.from = 1]
<1>3. /\ call \in CreateCalls /\ call.at = "vif" /\ call.uuid = op[c].uuid /\ call.num = n
      /\ call.board = op[c].board /\ call.proc = p
  <2>1. Disturbed(p)[c] = [op[c] EXCEPT !.fresh = FALSE]
    BY <1>1 DEF Disturbed
  <2>2. call = [op[c] EXCEPT !.fresh = FALSE, !.at = "vif", !.i = 0, !.from = 1]
    BY <1>2, <2>1 DEF CreateCalls
  <2>. QED BY <1>2, <2>2 DEF CreateCalls, CreateSteps
<1>4. op' = [Disturbed(p) EXCEPT ![c] = call]
  BY DEF InsertNumber, Disturbed
<1>. HIDE DEF call
<1>5. /\ op' \in [Clients -> Calls \cup {NULL}]
      /\ op'[c] # NULL /\ op'[c].kind = "create" /\ op'[c].at = "vif" /\ op'[c].uuid = op[c].uuid
      /\ op'[c].num = n /\ op'[c].board = op[c].board /\ op'[c].proc = p
      /\ \A d \in Clients : d # c =>
           /\ Alike(d)
           /\ op[d] # NULL /\ op[d].kind = "create" /\ op[d].proc = p => ~op'[d].fresh
  <2>1. call \in Calls /\ call.kind = "create"
    BY <1>3 DEF Calls, CreateCalls
  <2>. QED BY <1>1, <1>3, <1>4, <2>1, DisturbedCalls, CallFields
<1>. USE DEF Alike
<1>6. /\ list' \in [Procs -> Seq(Numbers)] /\ Contains(list'[p], n)
      /\ \A q \in Procs : q # p => list'[q] = list[q]
      /\ \A m : InAList(m) => \E q \in Procs : Contains(list'[q], m)
  <2>1. list \in [Procs -> Seq(Numbers)] /\ list'[p] = <<n>> \o list[p]
        /\ \A q \in Procs : q # p => list'[q] = list[q]
    BY <1>1 DEF VifTypes
  <2>2. /\ list'[p] \in Seq(Numbers) /\ Contains(list'[p], n)
        /\ \A m : Contains(list[p], m) => Contains(list'[p], m)
    BY <1>1, <2>1, InsertKeeps
  <2>3. list' \in [Procs -> Seq(Numbers)]
    BY <1>1, <2>1, <2>2
  <2>. QED BY <1>1, <2>1, <2>2, <2>3 DEF InAList
<1>7. /\ story' \in Stories
      /\ story.twice \subseteq story'.twice /\ story'.lost = story.lost
      /\ story'.leaked = story.leaked /\ story'.unplugged = story.unplugged
  BY <1>1 DEF InsertNumber, VifTypes, Stories
<1>8. n \in story'.twice \/ ( /\ \A r \in rows : r.num # n
                              /\ \A d \in Clients : d # c /\ Claiming(d) => op[d].num # n )
  BY InsertedIsOwn
<1>11. VifTypes'
  BY <1>1, <1>5, <1>6, <1>7 DEF VifTypes
<1>12. Filled'
  BY <1>1, <1>5 DEF VifInv, Filled
<1>13. OwnUuid'
  BY <1>1, <1>5 DEF VifInv, OwnUuid, HasRow
<1>14. Tapped'
  BY <1>1, <1>5 DEF VifInv, Tapped
<1>15. OneRow'
  BY <1>1, <1>5 DEF VifInv, OneRow
<1>16. Accounted'
  BY <1>1, <1>5, <1>7 DEF VifInv, Accounted, HasRow
<1>17. PortIsOwned'
  BY <1>1, <1>5, <1>7 DEF VifInv, PortIsOwned
<1>18. Plugged'
  BY <1>1, <1>5, <1>7 DEF VifInv, Plugged
<1>19. RowIsPlugged'
  <2>1. \A d \in Clients : Busy(d, "remove", "destroy") =>
          Busy(d, "remove", "destroy")' /\ op'[d].uuid = op[d].uuid
    BY <1>1, <1>5
  <2>2. ASSUME NEW r \in rows
        PROVE  /\ <<r.uuid, r.num>> \in taps
               /\ r.num \in vifs[r.board] \/ <<r.board, r.num>> \in story.unplugged
               /\ \/ r.uuid \in neutron \/ r.uuid \in story.leaked
                  \/ \E d \in Clients : Busy(d, "remove", "destroy")' /\ op'[d].uuid = r.uuid
    BY <2>1 DEF VifInv, RowIsPlugged, Removing
  <2>. QED BY <1>1, <1>7, <2>2 DEF RowIsPlugged, Removing
<1>20. NoSharedNumber'
  BY <1>1, <1>7 DEF VifInv, NoSharedNumber
<1>21. OneClaim'
  <2>1. ASSUME NEW d \in Clients, Claiming(d)'
        PROVE  /\ \A r \in rows : r.num = op'[d].num => op'[d].num \in story'.twice
               /\ \A e \in Clients \ {d} : Claiming(e)' /\ op'[e].num = op'[d].num => op'[d].num \in story'.twice
    <3>1. CASE d = c
      BY <1>5, <1>8, <3>1
    <3>2. CASE d # c
      <4>1. Claiming(d) /\ op'[d].num = op[d].num
        BY <1>5, <2>1, <3>2
      <4>. QED BY <1>1, <1>5, <1>7, <1>8, <3>2, <4>1 DEF VifInv, OneClaim
    <3>. QED BY <3>1, <3>2
  <2>. QED BY <1>1, <2>1 DEF OneClaim
<1>22. ClaimsListed'
  <2>1. ASSUME NEW d \in Clients, Claiming(d)'
        PROVE  (\E q \in Procs : Contains(list'[q], op'[d].num)) \/ op'[d].num \in story'.lost \cup story'.twice
    <3>1. CASE d = c
      BY <1>1, <1>5, <1>6, <3>1
    <3>2. CASE d # c
      <4>1. Claiming(d) /\ op'[d].num = op[d].num
        BY <1>5, <2>1, <3>2
      <4>2. InAList(op[d].num) \/ op[d].num \in story.lost \cup story.twice
        BY <4>1 DEF VifInv, ClaimsListed
      <4>. QED BY <1>6, <1>7, <4>1, <4>2
    <3>. QED BY <3>1, <3>2
  <2>. QED BY <2>1 DEF ClaimsListed, InAList
<1>23. RowIsListed'
  <2>1. \A d \in Clients : Forgot(d) => Forgot(d)' /\ op'[d].uuid = op[d].uuid
    BY <1>1, <1>5
  <2>2. ASSUME NEW r \in rows
        PROVE  \/ \E q \in Procs : Contains(list'[q], r.num)
               \/ r.num \in story'.lost \cup story'.twice
               \/ \E d \in Clients : Forgot(d)' /\ op'[d].uuid = r.uuid
    <3>1. \/ InAList(r.num) \/ r.num \in story.lost \cup story.twice
          \/ \E d \in Clients : Forgot(d) /\ op[d].uuid = r.uuid
      BY DEF VifInv, RowIsListed, Removing, InAList
    <3>. QED BY <1>6, <1>7, <2>1, <3>1
  <2>. QED BY <1>1, <2>2 DEF RowIsListed, Removing
<1>24. Walked'
  <2>1. ASSUME NEW d \in Clients, Walks(d)', op'[d].fresh PROVE Seen(op[d])'
    <3>1. d # c
      BY <1>5, <2>1
    <3>2. Walks(d) /\ op[d] # NULL /\ op[d].kind = "create"
      BY <1>5, <2>1, <3>1
    <3>3. /\ op'[d].i = op[d].i /\ op'[d].num = op[d].num /\ op'[d].from = op[d].from
          /\ op'[d].at = op[d].at /\ op'[d].proc = op[d].proc
          /\ op[d].fresh /\ op[d].proc # p
      BY <1>5, <2>1, <3>1, <3>2
    <3>4. list'[op'[d].proc] = list[op[d].proc]
      <4>1. op[d].proc \in Procs
        BY <1>1, <3>2, CallFields DEF VifTypes
      <4>. QED BY <1>6, <3>3, <4>1
    <3>5. Seen(op[d])
      BY <3>2 DEF VifInv, Walked
    <3>. QED BY <3>3, <3>4, <3>5 DEF Seen
  <2>. QED BY <2>1 DEF Walked, Seen
<1>. QED BY <1>11, <1>12, <1>13, <1>14, <1>15, <1>16, <1>17, <1>18, <1>19, <1>20, <1>21, <1>22, <1>23, <1>24
   DEF VifInv

(* The number is in the list, and its first entry goes.                     *)
LEMMA ForgetNumberStep ==
  ASSUME VifInv, NEW c \in Clients, ForgetNumber(c), Contains(Listed(c), op[c].num)
  PROVE  VifInv'
<1>. USE DEF Creates, Removes, Making, Walks, Claiming, Forgot, Busy
<1>. DEFINE n == op[c].num
            p == op[c].proc
            u == op[c].uuid
<1>1. /\ op[c] # NULL /\ op[c].kind = "remove" /\ op[c].at = "forget"
      /\ UNCHANGED <<rows, neutron, boards, vifs, taps>>
      /\ list' = [list EXCEPT ![p] = RemoveFirst(@, n)]
      /\ op' = [Disturbed(p) EXCEPT ![c].at = "delete"]
      /\ story' = IF HasRow(u) THEN story ELSE [story EXCEPT !.lost = @ \cup {n}]
      /\ VifTypes /\ Contains(list[p], n)
  BY DEF ForgetNumber, platform, VifInv, Listed, HasRow
<1>2. op[c] \in RemoveCalls /\ n \in Numbers /\ p \in Procs /\ u \in Uuids
  <2>1. op[c] \in RemoveCalls
    BY <1>1, CallFields DEF VifTypes
  <2>. QED BY <2>1 DEF RemoveCalls
<1>. DEFINE call == [Disturbed(p)[c] EXCEPT !.at = "delete"]
<1>3. /\ call \in RemoveCalls /\ call.at = "delete" /\ call.uuid = op[c].uuid /\ call.num = n
      /\ call.board = op[c].board /\ call.proc = p
  <2>1. Disturbed(p)[c] = op[c]
    BY <1>1 DEF Disturbed
  <2>2. call = [op[c] EXCEPT !.at = "delete"]
    BY <2>1
  <2>. QED BY <1>2, <2>2 DEF RemoveCalls, RemoveSteps
<1>4. op' = [Disturbed(p) EXCEPT ![c] = call]
  BY <1>1 DEF Disturbed
<1>. HIDE DEF call
<1>5. /\ op' \in [Clients -> Calls \cup {NULL}]
      /\ op'[c] # NULL /\ op'[c].kind = "remove" /\ op'[c].at = "delete" /\ op'[c].uuid = u
      /\ op'[c].num = n /\ op'[c].board = op[c].board /\ op'[c].proc = p
      /\ \A d \in Clients : d # c =>
           /\ Alike(d)
           /\ op[d] # NULL /\ op[d].kind = "create" /\ op[d].proc = p => ~op'[d].fresh
  <2>1. call \in Calls /\ call.kind = "remove"
    BY <1>3 DEF Calls, RemoveCalls
  <2>2. VifTypes /\ op[c] # NULL
    BY <1>1
  <2>3. /\ op' \in [Clients -> Calls \cup {NULL}] /\ op'[c] = call
        /\ \A d \in Clients : d # c =>
             /\ Alike(d)
             /\ op[d] # NULL /\ op[d].kind = "create" /\ op[d].proc = p => ~op'[d].fresh
    BY <1>4, <2>1, <2>2, DisturbedCalls
  <2>4. call # NULL
    BY <2>1, CallFields
  <2>. QED BY <1>3, <2>1, <2>3, <2>4
<1>. USE DEF Alike
<1>6. /\ list' \in [Procs -> Seq(Numbers)]
      /\ \A q \in Procs : q # p => list'[q] = list[q]
      /\ \A m : m # n /\ InAList(m) => \E q \in Procs : Contains(list'[q], m)
  <2>1. list \in [Procs -> Seq(Numbers)] /\ list'[p] = RemoveFirst(list[p], n)
        /\ \A q \in Procs : q # p => list'[q] = list[q]
    BY <1>1, <1>2 DEF VifTypes
  <2>2. /\ list'[p] \in Seq(Numbers)
        /\ \A m : m # n /\ Contains(list[p], m) => Contains(list'[p], m)
    BY <1>1, <1>2, <2>1, RemoveFirstKeeps
  <2>3. list' \in [Procs -> Seq(Numbers)]
    BY <1>1, <2>1, <2>2
  <2>. QED BY <1>2, <2>1, <2>2, <2>3 DEF InAList
<1>7. /\ story' \in Stories
      /\ story'.twice = story.twice /\ story.lost \subseteq story'.lost
      /\ story'.leaked = story.leaked /\ story'.unplugged = story.unplugged
      /\ HasRow(u) \/ n \in story'.lost
  BY <1>1, <1>2 DEF VifTypes, Stories
<1>8. /\ op[c] # NULL /\ op[c].kind = "remove" /\ op[c].at = "forget"
      /\ rows' = rows /\ neutron' = neutron /\ boards' = boards /\ vifs' = vifs /\ taps' = taps
  BY <1>1
<1>9. \A d \in Clients :
        /\ op'[d] # NULL <=> op[d] # NULL
        /\ op[d] # NULL => /\ op'[d].kind = op[d].kind /\ op'[d].uuid = op[d].uuid
                           /\ op'[d].num = op[d].num /\ op'[d].board = op[d].board
        /\ op[d] # NULL /\ op[d].kind = "create" => op'[d].at = op[d].at
  BY <1>5, <1>8
<1>11. VifTypes'
  BY <1>1, <1>5, <1>6, <1>7 DEF VifTypes
<1>12. Filled'
  BY <1>8, <1>5 DEF VifInv, Filled
<1>13. OwnUuid'
  <2>1. OwnUuid /\ neutron' = neutron /\ rows' = rows
    BY <1>8 DEF VifInv
  <2>2. ASSUME NEW d \in Clients, Making(d)'
        PROVE  d # c /\ Making(d) /\ op'[d].uuid = op[d].uuid
    BY <1>5, <2>2
  <2>3. ASSUME NEW d \in Clients, Making(d)', NEW e \in Clients \ {d}, op'[e] # NULL
        PROVE  op'[e].uuid # op'[d].uuid
    BY <1>9, <2>1, <2>2, <2>3 DEF OwnUuid
  <2>. QED BY <2>1, <2>2, <2>3 DEF OwnUuid, HasRow
<1>14. Tapped'
  BY <1>8, <1>9 DEF VifInv, Tapped
<1>15. OneRow'
  BY <1>8, <1>5 DEF VifInv, OneRow
<1>16. Accounted'
  BY <1>8, <1>5, <1>7 DEF VifInv, Accounted, HasRow
<1>17. PortIsOwned'
  BY <1>8, <1>7, <1>9 DEF VifInv, PortIsOwned
<1>18. Plugged'
  BY <1>8, <1>7, <1>9 DEF VifInv, Plugged
<1>19. RowIsPlugged'
  <2>1. \A d \in Clients : Busy(d, "remove", "destroy") =>
          Busy(d, "remove", "destroy")' /\ op'[d].uuid = op[d].uuid
    BY <1>8, <1>5
  <2>2. ASSUME NEW r \in rows
        PROVE  /\ <<r.uuid, r.num>> \in taps
               /\ r.num \in vifs[r.board] \/ <<r.board, r.num>> \in story.unplugged
               /\ \/ r.uuid \in neutron \/ r.uuid \in story.leaked
                  \/ \E d \in Clients : Busy(d, "remove", "destroy")' /\ op'[d].uuid = r.uuid
    BY <2>1 DEF VifInv, RowIsPlugged, Removing
  <2>. QED BY <1>8, <1>7, <2>2 DEF RowIsPlugged, Removing
<1>20. NoSharedNumber'
  BY <1>8, <1>7 DEF VifInv, NoSharedNumber
<1>21. OneClaim'
  BY <1>8, <1>7, <1>9 DEF VifInv, OneClaim
<1>22. ASSUME NEW r \in rows, r.num = n, n \notin story'.lost \cup story'.twice
       PROVE  r.uuid = u
  <2>1. PICK s \in rows : s.uuid = u
    BY <1>7, <1>22 DEF HasRow
  <2>2. s.num = n
    BY <1>8, <2>1 DEF VifInv, OneRow
  <2>. QED BY <1>7, <1>22, <2>1, <2>2 DEF VifInv, NoSharedNumber
<1>23. ASSUME NEW d \in Clients, Claiming(d), op[d].num = n
       PROVE  n \in story'.lost \cup story'.twice
  <2>1. ASSUME NEW s \in rows, s.uuid = u PROVE n \in story.twice
    <3>1. s.num = n
      BY <1>8, <2>1 DEF VifInv, OneRow
    <3>. QED BY <1>23, <3>1 DEF VifInv, OneClaim
  <2>. QED BY <1>7, <2>1 DEF HasRow
<1>24. ClaimsListed'
  <2>1. ASSUME NEW d \in Clients, Claiming(d)'
        PROVE  (\E q \in Procs : Contains(list'[q], op'[d].num)) \/ op'[d].num \in story'.lost \cup story'.twice
    <3>1. d # c /\ Claiming(d) /\ op'[d].num = op[d].num
      BY <1>5, <2>1
    <3>2. InAList(op[d].num) \/ op[d].num \in story.lost \cup story.twice
      BY <3>1 DEF VifInv, ClaimsListed
    <3>. QED BY <1>6, <1>7, <1>23, <3>1, <3>2
  <2>. QED BY <2>1 DEF ClaimsListed, InAList
<1>25. RowIsListed'
  <2>1. \A d \in Clients : Forgot(d) => Forgot(d)' /\ op'[d].uuid = op[d].uuid
    BY <1>8, <1>5
  <2>2. ASSUME NEW r \in rows
        PROVE  \/ \E q \in Procs : Contains(list'[q], r.num)
               \/ r.num \in story'.lost \cup story'.twice
               \/ \E d \in Clients : Forgot(d)' /\ op'[d].uuid = r.uuid
    <3>1. \/ InAList(r.num) \/ r.num \in story.lost \cup story.twice
          \/ \E d \in Clients : Forgot(d) /\ op[d].uuid = r.uuid
      BY DEF VifInv, RowIsListed, Removing, InAList
    <3>2. Forgot(c)' /\ op'[c].uuid = u
      BY <1>5
    <3>. QED BY <1>6, <1>7, <1>22, <2>1, <3>1, <3>2
  <2>. QED BY <1>8, <2>2 DEF RowIsListed, Removing
<1>26. Walked'
  <2>1. ASSUME NEW d \in Clients, Walks(d)', op'[d].fresh PROVE Seen(op[d])'
    <3>1. d # c
      BY <1>5, <2>1
    <3>2. Walks(d) /\ op[d] # NULL /\ op[d].kind = "create"
      BY <1>5, <2>1, <3>1
    <3>3. /\ op'[d].i = op[d].i /\ op'[d].num = op[d].num /\ op'[d].from = op[d].from
          /\ op'[d].at = op[d].at /\ op'[d].proc = op[d].proc
          /\ op[d].fresh /\ op[d].proc # p
      BY <1>5, <2>1, <3>1, <3>2
    <3>4. list'[op'[d].proc] = list[op[d].proc]
      <4>1. op[d].proc \in Procs
        BY <1>1, <3>2, CallFields DEF VifTypes
      <4>. QED BY <1>6, <3>3, <4>1
    <3>5. Seen(op[d])
      BY <3>2 DEF VifInv, Walked
    <3>. QED BY <3>3, <3>4, <3>5 DEF Seen
  <2>. QED BY <2>1 DEF Walked, Seen
<1>. QED BY <1>11, <1>12, <1>13, <1>14, <1>15, <1>16, <1>17, <1>18, <1>19, <1>20, <1>21, <1>24, <1>25, <1>26
   DEF VifInv

(* The number is not in the list: ValueError. *)
LEMMA ForgetNothingStep ==
  ASSUME VifInv, NEW c \in Clients, ForgetNumber(c), ~Contains(Listed(c), op[c].num)
  PROVE  VifInv'
<1>1. /\ op[c] # NULL /\ Raise(c)
      /\ UNCHANGED <<list, rows, neutron, boards, vifs, taps>>
  BY DEF ForgetNumber, platform, Busy
<1>2. /\ op' \in [Clients -> Calls \cup {NULL}] /\ Filled' /\ QuietCall(c)
      /\ story' \in Stories
      /\ story'.twice = story.twice /\ story'.unplugged = story.unplugged
      /\ story.lost \subseteq story'.lost /\ story.leaked \subseteq story'.leaked
  BY <1>1, QuietRaise
<1>3. QuietTables(c)
  BY <1>1, <1>2 DEF QuietTables
<1>. QED BY <1>1, <1>2, <1>3, QuietInv DEF VifInv, VifTypes

-----------------------------------------------------------------------------
(* The steps that take rows away. *)

(* The row of the port is destroyed.                                        *)
LEMMA DestroyRowStep ==
  ASSUME VifInv, NEW c \in Clients, DestroyRow(c)
  PROVE  VifInv'
<1>. USE DEF Creates, Removes, Making, Walks, Claiming, Forgot, Busy
<1>. DEFINE u == op[c].uuid
<1>1. /\ op[c] # NULL /\ op[c].kind = "remove" /\ op[c].at = "destroy"
      /\ UNCHANGED <<list, neutron, boards, vifs, taps, story>>
      /\ rows' = {r \in rows : r.uuid # u}
      /\ op' = [op EXCEPT ![c] = NULL]
      /\ VifTypes
  BY DEF DestroyRow, Answer, platform, VifInv
<1>2. /\ op' \in [Clients -> Calls \cup {NULL}]
      /\ op'[c] = NULL /\ \A d \in Clients : d # c => op'[d] = op[d]
  BY <1>1 DEF VifTypes
<1>3. rows' \subseteq rows /\ \A r \in rows : r \in rows' \/ r.uuid = u
  BY <1>1
<1>4. u \notin neutron \/ u \in story.leaked
  BY <1>1 DEF VifInv, Accounted
<1>11. VifTypes'
  BY <1>1, <1>2, <1>3 DEF VifTypes
<1>12. Filled'
  BY <1>2 DEF VifInv, Filled
<1>13. OwnUuid'
  BY <1>1, <1>2, <1>3 DEF VifInv, OwnUuid, HasRow
<1>14. Tapped'
  BY <1>1, <1>2, <1>3 DEF VifInv, Tapped
<1>15. OneRow'
  BY <1>1, <1>2, <1>3 DEF VifInv, OneRow
<1>16. Accounted'
  BY <1>1, <1>2, <1>3, <1>4 DEF VifInv, Accounted, HasRow
<1>17. PortIsOwned'
  <2>1. ASSUME NEW x \in neutron
        PROVE  \/ \E r \in rows' : r.uuid = x
               \/ \E d \in Clients : op'[d] # NULL /\ op'[d].kind = "create" /\ op'[d].uuid = x
               \/ x \in story.leaked
    <3>1. CASE \E r \in rows : r.uuid = x
      BY <1>3, <1>4, <3>1
    <3>2. CASE \E d \in Clients : op[d] # NULL /\ op[d].kind = "create" /\ op[d].uuid = x
      BY <1>1, <1>2, <3>2
    <3>. QED BY <3>1, <3>2 DEF VifInv, PortIsOwned
  <2>. QED BY <1>1, <2>1 DEF PortIsOwned
<1>18. Plugged'
  BY <1>1, <1>2, <1>3 DEF VifInv, Plugged
<1>19. \A d \in Clients, r \in rows' :
         /\ Busy(d, "remove", "destroy") /\ op[d].uuid = r.uuid =>
              Busy(d, "remove", "destroy")' /\ op'[d].uuid = r.uuid
         /\ Forgot(d) /\ op[d].uuid = r.uuid => Forgot(d)' /\ op'[d].uuid = r.uuid
  BY <1>1, <1>2
<1>20. RowIsPlugged'
  <2>1. ASSUME NEW r \in rows'
        PROVE  /\ <<r.uuid, r.num>> \in taps
               /\ r.num \in vifs[r.board] \/ <<r.board, r.num>> \in story.unplugged
               /\ \/ r.uuid \in neutron \/ r.uuid \in story.leaked
                  \/ \E d \in Clients : Busy(d, "remove", "destroy")' /\ op'[d].uuid = r.uuid
    <3>1. /\ <<r.uuid, r.num>> \in taps
          /\ r.num \in vifs[r.board] \/ <<r.board, r.num>> \in story.unplugged
          /\ \/ r.uuid \in neutron \/ r.uuid \in story.leaked
             \/ \E d \in Clients : Busy(d, "remove", "destroy") /\ op[d].uuid = r.uuid
      BY <1>3 DEF VifInv, RowIsPlugged, Removing
    <3>. QED BY <1>19, <3>1
  <2>. QED BY <1>1, <2>1 DEF RowIsPlugged, Removing
<1>21. NoSharedNumber'
  BY <1>1, <1>3 DEF VifInv, NoSharedNumber
<1>22. OneClaim'
  BY <1>1, <1>2, <1>3 DEF VifInv, OneClaim
<1>23. ClaimsListed'
  BY <1>1, <1>2 DEF VifInv, ClaimsListed, InAList
<1>24. RowIsListed'
  <2>1. ASSUME NEW r \in rows'
        PROVE  \/ \E q \in Procs : Contains(list[q], r.num)
               \/ r.num \in story.lost \cup story.twice
               \/ \E d \in Clients : Forgot(d)' /\ op'[d].uuid = r.uuid
    <3>1. \/ \E q \in Procs : Contains(list[q], r.num)
          \/ r.num \in story.lost \cup story.twice
          \/ \E d \in Clients : Forgot(d) /\ op[d].uuid = r.uuid
      BY <1>3 DEF VifInv, RowIsListed, Removing
    <3>. QED BY <1>19, <3>1
  <2>. QED BY <1>1, <2>1 DEF RowIsListed, Removing
<1>25. Walked'
  BY <1>1, <1>2 DEF VifInv, Walked, Seen
<1>. QED BY <1>11, <1>12, <1>13, <1>14, <1>15, <1>16, <1>17, <1>18, <1>20, <1>21, <1>22, <1>23, <1>24, <1>25
   DEF VifInv

(* The rows of a board are destroyed with it.                               *)
LEMMA DestroyBoardStep ==
  ASSUME VifInv, NEW b \in Boards, DestroyBoard(b)
  PROVE  VifInv'
<1>. USE DEF Creates, Removes, Making, Walks, Claiming, Forgot, Busy
<1>1. /\ UNCHANGED <<list, neutron, taps, op>>
      /\ boards' = [boards EXCEPT ![b] = NULL]
      /\ rows' = {r \in rows : r.board # b}
      /\ vifs' = IF IsUp(b) THEN [vifs EXCEPT ![b] = {}] ELSE vifs
      /\ story' = [story EXCEPT !.leaked = @ \cup {r.uuid : r \in rows \ rows'}]
      /\ VifTypes
  BY DEF DestroyBoard, VifInv
<1>2. /\ boards' \in [Boards -> BOOLEAN \cup {NULL}] /\ boards'[b] = NULL
      /\ \A x \in Boards : x # b => boards'[x] = boards[x]
      /\ vifs' \in [Boards -> SUBSET Numbers]
      /\ \A x \in Boards : x # b => vifs'[x] = vifs[x]
  BY <1>1 DEF VifTypes
<1>3. /\ rows' \subseteq rows
      /\ \A r \in rows' : r.board # b /\ r.board \in Boards
      /\ \A r \in rows : r \in Rows
  BY <1>1 DEF VifTypes, Rows
<1>4. /\ story' \in Stories
      /\ story'.twice = story.twice /\ story'.lost = story.lost
      /\ story.leaked \subseteq story'.leaked /\ story'.unplugged = story.unplugged
      /\ \A r \in rows : r \in rows' \/ r.uuid \in story'.leaked
  <2>. DEFINE gone == {r.uuid : r \in rows \ rows'}
  <2>1. gone \subseteq Uuids /\ \A r \in rows : r \in rows' \/ r.uuid \in gone
    BY <1>3 DEF Rows
  <2>2. story' = [story EXCEPT !.leaked = story.leaked \cup gone]
    BY <1>1
  <2>. HIDE DEF gone
  <2>. QED BY <1>1, <2>1, <2>2 DEF VifTypes, Stories
<1>11. VifTypes'
  BY <1>1, <1>2, <1>3, <1>4 DEF VifTypes
<1>12. Filled'
  BY <1>1 DEF VifInv, Filled
<1>13. OwnUuid'
  BY <1>1, <1>3 DEF VifInv, OwnUuid, HasRow
<1>14. Tapped'
  BY <1>1, <1>3 DEF VifInv, Tapped
<1>15. OneRow'
  BY <1>1, <1>3 DEF VifInv, OneRow
<1>16. Accounted'
  <2>1. ASSUME NEW d \in Clients, Busy(d, "create", "configure")
        PROVE  (\E r \in rows' : r.uuid = op[d].uuid) \/ op[d].uuid \notin neutron \/ op[d].uuid \in story'.leaked
    BY <1>4, <2>1 DEF VifInv, Accounted, HasRow
  <2>. QED BY <1>1, <1>4, <2>1 DEF VifInv, Accounted, HasRow
<1>17. PortIsOwned'
  BY <1>1, <1>4 DEF VifInv, PortIsOwned
<1>18. Plugged'
  <2>1. \A r \in rows' : boards'[r.board] # NULL
    BY <1>2, <1>3 DEF VifInv, Plugged
  <2>2. ASSUME NEW d \in Clients, Creates(d), op[d].at \in {"tap", "row"}, boards'[op[d].board] # NULL
        PROVE  op[d].num \in vifs'[op[d].board] \/ <<op[d].board, op[d].num>> \in story'.unplugged
    <3>1. op[d].board \in Boards
      BY <1>1, <2>2, CallFields DEF VifTypes
    <3>2. op[d].board # b
      BY <1>2, <2>2
    <3>. QED BY <1>2, <1>4, <2>2, <3>1, <3>2 DEF VifInv, Plugged
  <2>. QED BY <1>1, <2>1, <2>2 DEF Plugged
<1>19. RowIsPlugged'
  <2>1. ASSUME NEW r \in rows'
        PROVE  /\ <<r.uuid, r.num>> \in taps
               /\ r.num \in vifs'[r.board] \/ <<r.board, r.num>> \in story'.unplugged
               /\ \/ r.uuid \in neutron \/ r.uuid \in story'.leaked
                  \/ \E d \in Clients : Busy(d, "remove", "destroy") /\ op[d].uuid = r.uuid
    BY <1>2, <1>3, <1>4 DEF VifInv, RowIsPlugged, Removing
  <2>. QED BY <1>1, <2>1 DEF RowIsPlugged, Removing
<1>20. NoSharedNumber'
  BY <1>3, <1>4 DEF VifInv, NoSharedNumber
<1>21. OneClaim'
  BY <1>1, <1>3, <1>4 DEF VifInv, OneClaim
<1>22. ClaimsListed'
  BY <1>1, <1>4 DEF VifInv, ClaimsListed, InAList
<1>23. RowIsListed'
  BY <1>1, <1>3, <1>4 DEF VifInv, RowIsListed, Removing
<1>24. Walked'
  BY <1>1 DEF VifInv, Walked, Seen
<1>. QED BY <1>11, <1>12, <1>13, <1>14, <1>15, <1>16, <1>17, <1>18, <1>19, <1>20, <1>21, <1>22, <1>23, <1>24
   DEF VifInv

(* A board comes or goes.                                                   *)
LEMMA ToggleStep ==
  ASSUME VifInv, NEW b \in Boards, Toggle(b)
  PROVE  VifInv'
<1>. USE DEF Creates, Removes, Making, Walks, Claiming, Forgot, Busy
<1>1. /\ UNCHANGED <<list, rows, neutron, vifs, taps, op, story>>
      /\ boards[b] # NULL /\ boards' = [boards EXCEPT ![b] = ~@]
      /\ VifTypes
  BY DEF Toggle, VifInv
<1>2. /\ boards' \in [Boards -> BOOLEAN \cup {NULL}]
      /\ \A x \in Boards : boards'[x] # NULL <=> boards[x] # NULL
  <2>1. boards \in [Boards -> BOOLEAN \cup {NULL}]
    BY <1>1 DEF VifTypes
  <2>2. (~boards[b]) \in BOOLEAN /\ (~boards[b]) # NULL
    BY <1>1, <2>1, RegistryAssumption
  <2>. QED BY <1>1, <2>1, <2>2
<1>3. VifTypes'
  BY <1>1, <1>2 DEF VifTypes
<1>4. Plugged'
  <2>1. \A r \in rows : r.board \in Boards
    BY <1>1 DEF VifTypes, Rows
  <2>2. \A d \in Clients : op[d] # NULL => op[d].board \in Boards
    BY <1>1, CallFields DEF VifTypes
  <2>. QED BY <1>1, <1>2, <2>1, <2>2 DEF VifInv, Plugged
<1>. QED BY <1>1, <1>3, <1>4
   DEF VifInv, Filled, OwnUuid, HasRow, Tapped, OneRow, Accounted, PortIsOwned,
       RowIsPlugged, Removing, OneClaim, NoSharedNumber, ClaimsListed, InAList, RowIsListed, Walked, Seen

-----------------------------------------------------------------------------
(* The steps of the processes. *)

(* What the calls leave behind whose process has ended. *)
LEMMA LeftEffect ==
  ASSUME VifTypes, Filled, NEW dead \in SUBSET Clients, NEW s, s = Left(dead)
  PROVE  /\ s \in Stories
         /\ s.twice = story.twice /\ s.unplugged = story.unplugged
         /\ story.lost \subseteq s.lost /\ story.leaked \subseteq s.leaked
         /\ \A c \in dead : Making(c) \/ Forgot(c) => op[c].uuid \in s.leaked
         /\ \A c \in dead : Forgot(c) => op[c].num \in s.lost
<1>. USE DEF Creates, Removes, Making, Forgot
<1>. DEFINE holds == {d \in dead : op[d] # NULL /\ op[d].uuid # NULL}
            made  == {d \in holds : op[d].kind = "create" /\ op[d].at # "configure"}
            gone  == {d \in holds : op[d].kind = "remove" /\ op[d].at \in {"delete", "destroy"}}
            us    == {op[d].uuid : d \in made \cup gone}
            ns    == {op[d].num : d \in gone}
<1>1. s = [story EXCEPT !.leaked = @ \cup us, !.lost = @ \cup ns]
  BY DEF Left
<1>2. ASSUME NEW d \in dead, op[d] # NULL
      PROVE  /\ op[d].uuid # NULL => op[d].uuid \in Uuids
             /\ op[d].kind = "remove" => op[d].num \in Numbers /\ op[d].uuid \in Uuids
             /\ Making(d) => op[d].uuid \in Uuids
  <2>1. op[d] \in Calls
    BY <1>2 DEF VifTypes
  <2>. QED BY <2>1, CallFields, ZenonT(60) DEF CreateCalls, RemoveCalls, Filled
<1>3. us \subseteq Uuids /\ ns \subseteq Numbers
  BY <1>2
<1>4. \A c \in dead : Making(c) \/ Forgot(c) => op[c].uuid \in us
  BY <1>2, VifAssumption
<1>5. \A c \in dead : Forgot(c) => op[c].num \in ns
  BY <1>2, VifAssumption
<1>. HIDE DEF us, ns
<1>. QED BY <1>1, <1>3, <1>4, <1>5 DEF VifTypes, Stories

(* Processes end, and their lists and calls with them.                      *)
LEMMA ProcessesStep ==
  ASSUME VifInv, Processes
  PROVE  VifInv'
<1>. USE DEF Creates, Removes, Making, Walks, Claiming, Forgot, Busy
<1>. DEFINE dead == {c \in Clients : op[c] # NULL /\ op[c].proc \in Ended}
            gone == UNION {ToSet(list[p]) : p \in Ended}
<1>1. /\ UNCHANGED <<rows, neutron, boards, vifs, taps>>
      /\ op' = [c \in Clients |-> IF c \in dead THEN NULL ELSE op[c]]
      /\ list' = [p \in Procs |-> IF p \in Ended THEN <<>> ELSE list[p]]
      /\ story' = IF Ended = {} THEN story ELSE [Left(dead) EXCEPT !.lost = @ \cup gone]
      /\ VifTypes
  BY DEF Processes, platform, VifInv
<1>2. /\ op' \in [Clients -> Calls \cup {NULL}]
      /\ \A c \in Clients : op'[c] # NULL => c \notin dead /\ op[c] # NULL /\ op'[c] = op[c]
      /\ \A c \in Clients : c \notin dead => op'[c] = op[c]
  <2>. HIDE DEF dead
  <2>. QED BY <1>1 DEF VifTypes
<1>3. /\ list' \in [Procs -> Seq(Numbers)]
      /\ \A p \in Procs : p \notin Ended => list'[p] = list[p]
  <2>1. <<>> \in Seq(Numbers)
    OBVIOUS
  <2>. QED BY <1>1, <2>1 DEF VifTypes
<1>4. \A p \in Ended : p \in Procs
  BY DEF Ended
<1>5. gone \subseteq Numbers /\ \A p \in Ended : \A m : Contains(list[p], m) => m \in gone
  <2>1. \A p \in Ended : list[p] \in Seq(Numbers)
    BY <1>1, <1>4 DEF VifTypes
  <2>. QED BY <2>1 DEF ToSet, Contains
<1>. HIDE DEF gone
<1>6. /\ story' \in Stories
      /\ story'.twice = story.twice /\ story'.unplugged = story.unplugged
      /\ story.lost \subseteq story'.lost /\ story.leaked \subseteq story'.leaked
      /\ \A c \in dead : Making(c) \/ Forgot(c) => op[c].uuid \in story'.leaked
      /\ \A c \in dead : Forgot(c) => op[c].num \in story'.lost
      /\ \A p \in Ended : \A m : Contains(list[p], m) => m \in story'.lost
  <2>1. CASE Ended = {}
    BY <1>1, <2>1 DEF VifTypes
  <2>2. CASE Ended # {}
    <3>. DEFINE s == Left(dead)
    <3>1. dead \in SUBSET Clients
      OBVIOUS
    <3>2. /\ s \in Stories
          /\ s.twice = story.twice /\ s.unplugged = story.unplugged
          /\ story.lost \subseteq s.lost /\ story.leaked \subseteq s.leaked
          /\ \A c \in dead : Making(c) \/ Forgot(c) => op[c].uuid \in s.leaked
          /\ \A c \in dead : Forgot(c) => op[c].num \in s.lost
      BY <3>1, LeftEffect DEF VifInv
    <3>3. story' = [s EXCEPT !.lost = @ \cup gone]
      BY <1>1, <2>2
    <3>. HIDE DEF s, dead
    <3>. QED BY <1>5, <3>2, <3>3 DEF Stories
  <2>. QED BY <2>1, <2>2
<1>. HIDE DEF dead
<1>11. VifTypes'
  BY <1>1, <1>2, <1>3, <1>6 DEF VifTypes
<1>12. Filled'
  BY <1>2 DEF VifInv, Filled
<1>13. OwnUuid'
  BY <1>1, <1>2 DEF VifInv, OwnUuid, HasRow
<1>14. Tapped'
  BY <1>1, <1>2 DEF VifInv, Tapped
<1>15. OneRow'
  BY <1>1, <1>2 DEF VifInv, OneRow
<1>16. Accounted'
  BY <1>1, <1>2, <1>6 DEF VifInv, Accounted, HasRow
<1>17. PortIsOwned'
  <2>1. ASSUME NEW x \in neutron
        PROVE  \/ \E r \in rows : r.uuid = x
               \/ \E d \in Clients : op'[d] # NULL /\ op'[d].kind = "create" /\ op'[d].uuid = x
               \/ x \in story'.leaked
    <3>1. ASSUME NEW d \in Clients, op[d] # NULL, op[d].kind = "create", op[d].uuid = x,
                 ~(\E r \in rows : r.uuid = x), x \notin story.leaked
          PROVE  (d \notin dead) \/ x \in story'.leaked
      <4>1. ~Busy(d, "create", "configure")
        BY <3>1 DEF VifInv, Accounted, HasRow
      <4>2. ~Busy(d, "create", "read") /\ ~Busy(d, "create", "neutron")
        BY <1>1, <3>1, VifAssumption DEF VifInv, Filled, VifTypes
      <4>3. Making(d)
        <5>1. op[d].at \in CreateSteps
          BY <1>1, <3>1, CallFields DEF VifTypes, CreateCalls
        <5>. QED BY <3>1, <4>1, <4>2, <5>1 DEF CreateSteps
      <4>. QED BY <1>6, <3>1, <4>3
    <3>. QED BY <1>2, <1>6, <3>1 DEF VifInv, PortIsOwned
  <2>. QED BY <1>1, <2>1 DEF PortIsOwned
<1>18. Plugged'
  BY <1>1, <1>2, <1>6 DEF VifInv, Plugged
<1>19. RowIsPlugged'
  <2>1. ASSUME NEW r \in rows
        PROVE  /\ <<r.uuid, r.num>> \in taps
               /\ r.num \in vifs[r.board] \/ <<r.board, r.num>> \in story.unplugged
               /\ \/ r.uuid \in neutron \/ r.uuid \in story'.leaked
                  \/ \E d \in Clients : Busy(d, "remove", "destroy")' /\ op'[d].uuid = r.uuid
    <3>1. \A d \in Clients : Busy(d, "remove", "destroy") /\ op[d].uuid = r.uuid =>
            (Busy(d, "remove", "destroy")' /\ op'[d].uuid = r.uuid) \/ r.uuid \in story'.leaked
      BY <1>2, <1>6
    <3>. QED BY <1>6, <3>1 DEF VifInv, RowIsPlugged, Removing
  <2>. QED BY <1>1, <1>6, <2>1 DEF RowIsPlugged, Removing
<1>20. NoSharedNumber'
  BY <1>1, <1>6 DEF VifInv, NoSharedNumber
<1>21. OneClaim'
  BY <1>1, <1>2, <1>6 DEF VifInv, OneClaim
<1>22. \A m : InAList(m) => (\E q \in Procs : Contains(list'[q], m)) \/ m \in story'.lost
  BY <1>3, <1>6 DEF InAList
<1>23. ClaimsListed'
  BY <1>2, <1>6, <1>22 DEF VifInv, ClaimsListed, InAList
<1>24. RowIsListed'
  <2>1. ASSUME NEW r \in rows
        PROVE  \/ \E q \in Procs : Contains(list'[q], r.num)
               \/ r.num \in story'.lost \cup story'.twice
               \/ \E d \in Clients : Forgot(d)' /\ op'[d].uuid = r.uuid
    <3>1. \A d \in Clients : Forgot(d) /\ op[d].uuid = r.uuid =>
            (Forgot(d)' /\ op'[d].uuid = r.uuid) \/ r.num \in story'.lost
      BY <1>2, <1>6 DEF VifInv, OneRow
    <3>2. \/ InAList(r.num) \/ r.num \in story.lost \cup story.twice
          \/ \E d \in Clients : Forgot(d) /\ op[d].uuid = r.uuid
      BY DEF VifInv, RowIsListed, Removing, InAList
    <3>. QED BY <1>6, <1>22, <3>1, <3>2
  <2>. QED BY <1>1, <2>1 DEF RowIsListed, Removing
<1>25. Walked'
  <2>1. ASSUME NEW d \in Clients, Walks(d)' PROVE Seen(op[d])'
    <3>1. op'[d] = op[d] /\ d \notin dead /\ op[d] # NULL /\ op[d].proc \in Procs
      BY <1>1, <1>2, <2>1, CallFields DEF VifTypes, Walks
    <3>2. op[d].proc \notin Ended
      BY <3>1 DEF dead
    <3>3. list'[op'[d].proc] = list[op[d].proc]
      BY <1>3, <3>1, <3>2
    <3>. QED BY <2>1, <3>1, <3>3 DEF VifInv, Walked, Seen, Walks
  <2>. QED BY <2>1 DEF Walked
<1>. QED BY <1>11, <1>12, <1>13, <1>14, <1>15, <1>16, <1>17, <1>18, <1>19, <1>20, <1>21, <1>23, <1>24, <1>25
   DEF VifInv

-----------------------------------------------------------------------------
(* The inductive invariant. *)
IInv == RegistryInv /\ VifInv

(* Where everything is up, the registry is in order.                        *)
LEMMA InitRunningInv ==
  ASSUME InitRunning
  PROVE  RegistryInv
<1>. DEFINE r == CHOOSE a \in Agents : TRUE
            u == CHOOSE u \in Urls : TRUE
            p == CHOOSE q \in Procs : TRUE
            At(h) == IF h = Conductor THEN "serve" ELSE "run"
<1>1. r \in Agents /\ u \in Urls /\ p \in Procs
  BY RegistryAssumption
<1>2. /\ conductors = TRUE
      /\ conf = [a \in Agents |-> [ragent |-> a = r, wsurl |-> u]]
      /\ wampagents = [a \in Agents |-> [online |-> TRUE, ragent |-> a = r, wsurl |-> u]]
      /\ proc = [h \in Hosts |-> [q \in Procs |-> IF q = p THEN At(h) ELSE "off"]]
      /\ found = [q \in Procs |-> IF q = p THEN [host |-> r, wsurl |-> u] ELSE NULL]
      /\ fate = [killed |-> {}, overlap |-> {}]
  BY DEF InitRunning
<1>. HIDE DEF r, u, p
<1>3. /\ wampagents \in [Agents -> AgentRows]
      /\ \A a \in Agents : wampagents[a].online = TRUE /\ wampagents[a].ragent = (a = r)
      /\ conf \in [Agents -> [ragent : BOOLEAN, wsurl : Urls]]
      /\ \A a \in Agents : conf[a].ragent = (a = r)
  BY <1>1, <1>2 DEF AgentRows
<1>4. \A h \in Hosts, q \in Procs : proc[h][q] = IF q = p THEN At(h) ELSE "off"
  BY <1>2
<1>5. RegistryTypeOK
  <2>1. \A h \in Hosts, q \in Procs : proc[h][q] \in Steps(h)
    BY <1>4 DEF Steps
  <2>2. proc \in [Hosts -> [Procs -> UNION {Steps(h) : h \in Hosts}]]
    BY <1>2, <1>4, <2>1
  <2>3. found \in [Procs -> [host : Agents, wsurl : Urls] \cup {NULL}]
    BY <1>1, <1>2
  <2>. QED BY <1>2, <1>3, <2>1, <2>2, <2>3 DEF RegistryTypeOK
<1>6. FateOK
  BY <1>2 DEF FateOK
<1>7. ASSUME NEW h \in Hosts PROVE TableAt(h)
  <2>1. IsOnline(h)
    BY <1>2, <1>3, RegistryAssumption DEF IsOnline, Online, Hosts
  <2>2. proc[h][p] # "off"
    BY <1>1, <1>4
  <2>3. h \in Agents => wampagents[h] # NULL /\ (Advertises(h) => conf[h].ragent)
    BY <1>3, RegistryAssumption DEF Advertises
  <2>. QED BY <1>1, <2>1, <2>2, <2>3 DEF TableAt
<1>. QED BY <1>5, <1>6, <1>7 DEF RegistryInv

(* The conductor's list is empty, and no port is there.                     *)
LEMMA InitInv == Init => IInv
<1>. SUFFICES ASSUME Init PROVE IInv
  OBVIOUS
<1>1. RegistryInv
  BY InitRunningInv, InitRegistryInv DEF Init
<1>2. /\ list = [p \in Procs |-> <<>>] /\ rows = {} /\ neutron = {}
      /\ boards = [b \in Boards |-> TRUE] /\ vifs = [b \in Boards |-> {}] /\ taps = {}
      /\ op = [c \in Clients |-> NULL]
      /\ story = [twice |-> {}, lost |-> {}, leaked |-> {}, unplugged |-> {}]
  BY DEF Init
<1>3. VifTypes
  <2>1. <<>> \in Seq(Numbers)
    OBVIOUS
  <2>. QED BY <1>2, <2>1 DEF VifTypes, Stories
<1>4. \A c \in Clients : op[c] = NULL
  BY <1>2
<1>5. VifInv
  BY <1>2, <1>3, <1>4 DEF VifInv, Filled, OwnUuid, Tapped, OneRow, Accounted, PortIsOwned, Plugged,
     RowIsPlugged, OneClaim, NoSharedNumber, ClaimsListed, RowIsListed, Walked, Walks,
     Creates, Removes, Making, Claiming, Busy
<1>. QED BY <1>1, <1>5 DEF IInv

(* Every step keeps the invariant.                                          *)
LEMMA NextInv == IInv /\ [Next]_vars => IInv'
<1>. SUFFICES ASSUME IInv, [Next]_vars PROVE IInv'
  OBVIOUS
<1>0. RegistryInv /\ VifInv
  BY DEF IInv
<1>1. CASE Processes
  <2>1. RegistryInv'
    BY <1>0, <1>1, RegistryStep DEF Processes
  <2>2. VifInv'
    BY <1>0, <1>1, ProcessesStep
  <2>. QED BY <2>1, <2>2 DEF IInv
<1>2. CASE \E c \in Clients : PutPort(c) \/ DeletePort(c)
  <2>1. RegistryInv'
    BY <1>0, <1>2, RegistryStays DEF PutPort, DeletePort
  <2>2. VifInv'
    BY <1>0, <1>2, PutPortStep, DeletePortStep
  <2>. QED BY <2>1, <2>2 DEF IInv
<1>3. CASE \E c \in Clients : Handler(c) /\ UNCHANGED <<registry, budget, fate>>
  <2>1. RegistryInv'
    BY <1>0, <1>3, RegistryStays
  <2>2. PICK c \in Clients : Handler(c)
    BY <1>3
  <2>3. ForgetNumber(c) => VifInv'
    BY <1>0, ForgetNumberStep, ForgetNothingStep
  <2>4. VifInv'
    BY <1>0, <2>2, <2>3, ReadBoardStep, AddPortStep, DrawStep, TestStep, CompareStep, InsertNumberStep,
       CreateVifStep, CreateTapStep, CreateRowStep, ConfigureVifStep, ReadPortStep, RemoveVifStep,
       DeleteNeutronPortStep, DestroyRowStep, FailsStep DEF Handler
  <2>. QED BY <2>1, <2>4 DEF IInv
<1>4. CASE \E b \in Boards : DestroyBoard(b) \/ Toggle(b)
  <2>1. RegistryInv'
    BY <1>0, <1>4, RegistryStays DEF DestroyBoard, Toggle
  <2>2. VifInv'
    BY <1>0, <1>4, DestroyBoardStep, ToggleStep
  <2>. QED BY <2>1, <2>2 DEF IInv
<1>5. CASE UNCHANGED vars
  <2>1. UNCHANGED <<registry, fate>> /\ UNCHANGED <<list, rows, neutron, boards, vifs, taps, op, story>>
    BY <1>5 DEF vars, vifState, platform
  <2>2. RegistryInv'
    BY <1>0, <2>1, RegistryStays
  <2>3. VifInv'
    BY <1>0, <2>1
       DEF VifInv, VifTypes, Filled, OwnUuid, HasRow, Tapped, OneRow, Accounted, PortIsOwned,
       Plugged, RowIsPlugged, Removing, OneClaim, NoSharedNumber, ClaimsListed, InAList, RowIsListed,
       Walked, Walks, Seen, Listed, Creates, Removes, Making, Claiming, Forgot, Busy
  <2>. QED BY <2>2, <2>3 DEF IInv
<1>. QED BY <1>1, <1>2, <1>3, <1>4, <1>5 DEF Next

(* IInv holds of every state of every behaviour. *)
THEOREM Inductive == Spec => []IInv
BY InitInv, NextInv, PTL DEF Spec

(* Every variable has its type, and the calls are records of a create or a  *)
(* remove.                                                                  *)
THEOREM TypeCorrect == Spec => []TypeOK
<1>1. IInv => TypeOK
  BY DEF IInv, RegistryInv, VifInv, VifTypes, TypeOK
<1>. QED BY <1>1, Inductive, PTL

(* The table of the agents and the conductor tells who runs, but for the    *)
(* processes that were killed, overlapped or are starting.                  *)
THEOREM TableIsKept == Spec => []TableIsTrue
<1>1. IInv => TableIsTrue
  BY TableFollows DEF IInv
<1>. QED BY <1>1, Inductive, PTL

(* Two interfaces have one number only for a reason that the ghost knows.   *)
THEOREM NumbersAreNotShared == Spec => []NoSharedNumber
<1>1. IInv => NoSharedNumber
  BY DEF IInv, VifInv
<1>. QED BY <1>1, Inductive, PTL

(* The number of a row is in a list, unless a list was lost, a removal has  *)
(* failed half way or crossed another, or the row is just being removed.    *)
THEOREM RowsAreListed == Spec => []RowIsListed
<1>1. IInv => RowIsListed
  BY DEF IInv, VifInv
<1>. QED BY <1>1, Inductive, PTL

(* No port of Neutron is left without a row or a call, unless a step failed *)
(* or a board was destroyed.                                                *)
THEOREM PortsAreOwned == Spec => []PortIsOwned
<1>1. IInv => PortIsOwned
  BY DEF IInv, VifInv
<1>. QED BY <1>1, Inductive, PTL

(* A row has its interface, its tap and its port, but for what the board    *)
(* refused, what a removal has reached and what was cut off.                *)
THEOREM RowsArePlugged == Spec => []RowIsPlugged
<1>1. IInv => RowIsPlugged
  BY DEF IInv, VifInv
<1>. QED BY <1>1, Inductive, PTL
=============================================================================
