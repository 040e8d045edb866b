------------------------ MODULE BoardSessions_proofs ------------------------
(***************************************************************************)
(* IInv is an inductive invariant of BoardSessions.                        *)
(* It holds initially, and each action keeps each of its conjuncts: one    *)
(* lemma per action, one step per conjunct.                                *)
(* ConnInv, about the sessions that are gone and the boards that are       *)
(* connected, is inductive relative to IInv, and is proved the same way in *)
(* the second half.                                                        *)
(***************************************************************************)
EXTENDS BoardSessions, TLAPS

(* No board has opened a session and no thread is busy.                      *)
LEMMA InitInv == Init => IInv
  <1> SUFFICES ASSUME Init PROVE IInv
    OBVIOUS
  <1>1. TypeOK
    BY ConstantsAssumption DEF Init, TypeOK, Status, Links, Labels, Threads
  <1>2. Ownership BY DEF Init, Ownership
  <1>3. Roles BY DEF Init, Roles, Threads
  <1>4. Routing BY DEF Init, Routing, ConfigMatchesAgent, InCall, Busy,
      Reading, Writing, Threads
  <1>5. Meeting BY DEF Init, Meeting, CallsMet, Assigned, InCall, Busy, Reading,
      Writing, Leaving, Meetings
  <1>6. Progress BY DEF Init, Progress
  <1>7. SessionsAreSingle BY DEF Init, SessionsAreSingle
  <1>8. OnlineHasSession BY DEF Init, OnlineHasSession
  <1> QED BY <1>1, <1>2, <1>3, <1>4, <1>5, <1>6, <1>7, <1>8 DEF IInv

(* What is recorded of a meeting stays recorded.                             *)
LEMMA RecordedGrows ==
  ASSUME TypeOK, NEW b \in Boards, NEW ways \in SUBSET Meetings, met' = Recorded(b, ways)
  PROVE  /\ met' \in [Meetings -> SUBSET Boards]
         /\ \A m \in Meetings : \A c \in Boards :
              c \in met'[m] <=> c \in met[m] \/ (c = b /\ m \in ways)
         /\ \A c \in Boards :
              /\ c \in met["reading"] => c \in met'["reading"]
              /\ c \in met["writing"] => c \in met'["writing"]
              /\ c \in met["leaving"] => c \in met'["leaving"]
              /\ c \in met["assigning"] => c \in met'["assigning"]
  BY DEF TypeOK, Recorded, Meetings

(* Meeting is kept by a step after which no thread is further into a call    *)
(* than before.                                                              *)
LEMMA MeetingKept ==
  ASSUME Meeting,
         \A b \in Boards :
           /\ b \in met["reading"] => b \in met'["reading"]
           /\ b \in met["writing"] => b \in met'["writing"]
           /\ b \in met["leaving"] => b \in met'["leaving"]
           /\ b \in met["assigning"] <=> b \in met'["assigning"],
         \A b \in Boards, t \in Threads :
           /\ Busy(t, b, Reading)' => Busy(t, b, Reading)
           /\ InCall(t, b)' => InCall(t, b)
           /\ Busy(t, b, Leaving)' => Busy(t, b, Leaving)
  PROVE  Meeting'
  BY DEF Meeting, CallsMet, Assigned

(* A thread that starts a call for board b records whom it meets.            *)
LEMMA MetWhenCalling ==
  ASSUME TypeOK, NEW b \in Boards, NEW t \in Threads, met' = Recorded(b, MetByCall(t, b))
  PROVE  /\ \A u \in Threads : InCall(u, b) => b \in met'["reading"] \/ b \in met'["writing"]
         /\ \A u \in Threads : Busy(u, b, Reading) => b \in met'["reading"]
         /\ \A u \in Threads : Busy(u, b, Leaving) => b \in met'["leaving"]
         /\ \A u \in Workers : t \in Workers /\ InCall(u, b) => b \in met'["assigning"]
         /\ \A c \in Boards : c \in met'["assigning"] =>
              c \in met["assigning"] \/ (c = b /\ t \in Workers /\ \E u \in Workers : InCall(u, b))
  <1>1. MetByCall(t, b) \in SUBSET Meetings BY DEF MetByCall
  <1>2. \A m \in Meetings : \A c \in Boards :
          c \in met'[m] <=> c \in met[m] \/ (c = b /\ m \in MetByCall(t, b))
    BY <1>1, RecordedGrows
  <1>3. /\ "reading" \in MetByCall(t, b) <=> \E u \in Threads : Busy(u, b, Reading)
        /\ "writing" \in MetByCall(t, b) <=> \E u \in Threads : Busy(u, b, Writing)
        /\ "leaving" \in MetByCall(t, b) <=> \E u \in Threads : Busy(u, b, Leaving)
        /\ "assigning" \in MetByCall(t, b) <=> t \in Workers /\ \E u \in Workers : InCall(u, b)
    BY DEF MetByCall, Meetings
  <1>4. \A u \in Threads : InCall(u, b) => Busy(u, b, Reading) \/ Busy(u, b, Writing)
    BY DEF InCall, Busy
  <1> QED BY <1>2, <1>3, <1>4 DEF Meetings

LEMMA MeetingWhenCalling ==
  ASSUME TypeOK, Meeting, NEW b \in Boards, NEW t \in Threads,
         met' = Recorded(b, MetByCall(t, b)),
         \A c \in Boards, u \in Threads \ {t} :
           /\ Busy(u, c, Reading)' => Busy(u, c, Reading)
           /\ InCall(u, c)' => InCall(u, c)
           /\ Busy(u, c, Leaving)' => Busy(u, c, Leaving),
         \A c \in Boards :
           /\ InCall(t, c)' => c = b
           /\ ~Busy(t, c, Leaving)'
  PROVE  Meeting'
  <1>1. \A c \in Boards :
          /\ c \in met["reading"] => c \in met'["reading"]
          /\ c \in met["writing"] => c \in met'["writing"]
          /\ c \in met["leaving"] => c \in met'["leaving"]
          /\ c \in met["assigning"] => c \in met'["assigning"]
    BY RecordedGrows DEF MetByCall
  <1>2. \A u \in Threads, c \in Boards : Busy(u, c, Reading)' => InCall(u, c)'
    BY DEF InCall, Busy
  <1>3. ASSUME NEW c \in Boards, c \in met'["assigning"]
        PROVE  c \in met'["reading"] \/ c \in met'["writing"]
    <2>1. CASE c \in met["assigning"] BY <1>1, <2>1 DEF Meeting, Assigned, CallsMet
    <2>2. CASE c = b /\ \E u \in Workers : InCall(u, b)
      BY <2>2, MetWhenCalling DEF Threads
    <2> QED BY <1>3, <2>1, <2>2, MetWhenCalling
  <1>4. ASSUME NEW c \in Boards, NEW u \in Threads, NEW v \in Threads, u # v
        PROVE  /\ Busy(u, c, Reading)' /\ Busy(v, c, Reading)' => c \in met'["reading"]
               /\ InCall(u, c)' /\ InCall(v, c)' => c \in met'["reading"] \/ c \in met'["writing"]
               /\ InCall(u, c)' /\ InCall(v, c)' /\ {u, v} \subseteq Workers => c \in met'["assigning"]
               /\ Busy(u, c, Leaving)' /\ InCall(v, c)' => c \in met'["leaving"]
    <2>1. CASE u # t /\ v # t BY <1>1, <1>4, <2>1 DEF Meeting, Assigned, CallsMet
    <2>2. CASE u = t BY <1>2, <1>4, <2>2, MetWhenCalling
    <2>3. CASE v = t BY <1>2, <1>4, <2>3, MetWhenCalling
    <2> QED BY <2>1, <2>2, <2>3
  <1> QED BY <1>3, <1>4 DEF Meeting, Assigned, CallsMet

(* A board opens a session: nothing referred to the unused id before.        *)
LEMMA OpenSessionInv ==
  ASSUME IInv, NEW b \in Boards, NEW s \in Sessions, OpenSession(b, s)
  PROVE  IInv'
  <1> USE DEF IInv, dbVars, boardVars, routerVars, linkVars, localVars,
      ghostVars, OpenSession
  <1>1. TypeOK' BY ConstantsAssumption DEF TypeOK
  <1>2. Ownership' BY ConstantsAssumption DEF TypeOK, Ownership, Roles, Assigned
  <1>a. \A r \in Sessions : owner[r] \in Boards =>
          owner'[r] = owner[r] /\ router'[r] = router[r] /\ (r \in registering <=> r \in registering')
    BY ConstantsAssumption DEF TypeOK
  <1>b. UNCHANGED <<pc, cur, calls, seen, agent>>
    OBVIOUS
  <1>c. \A t \in Threads, c \in Boards : InCall(t, c) <=> InCall(t, c)'
    BY <1>a, <1>b DEF InCall, Busy, Reading, Writing, Ownership
  <1>d. \A t \in Threads, c \in Boards :
          /\ Busy(t, c, Reading)' => Busy(t, c, Reading)
          /\ Busy(t, c, Leaving)' => Busy(t, c, Leaving)
    BY <1>a, <1>b DEF Busy, Reading, Leaving, Ownership
  <1>3. Roles' BY <1>a, <1>b DEF Roles, Assigned, Ownership, TypeOK, Threads
  <1>4. Routing' BY ConstantsAssumption DEF TypeOK, Ownership, Routing,
      ConfigMatchesAgent, Assigned, InCall, Busy, Reading, Writing, Threads
  <1>5. Meeting' BY <1>c, <1>d, MeetingKept
  <1>6. Progress' BY ConstantsAssumption DEF Ownership, Progress, CallsMet,
      ValidOf, Threads
  <1>7. SessionsAreSingle' BY ConstantsAssumption DEF Ownership, SessionsAreSingle
  <1>8. OnlineHasSession' BY ConstantsAssumption DEF OnlineHasSession, ValidOf
  <1> QED BY <1>1, <1>2, <1>3, <1>4, <1>5, <1>6, <1>7, <1>8

(* A board calls its agent, whatever calls of it are still handled.          *)
LEMMA CallAgentInv ==
  ASSUME IInv, NEW b \in Boards, NEW s \in Sessions, CallAgent(b, s)
  PROVE  IInv'
  <1> USE DEF IInv, dbVars, boardVars, routerVars, linkVars, localVars,
      ghostVars, CallAgent
  <1>1. TypeOK' BY DEF TypeOK
  <1>2. Ownership' BY DEF Ownership, Assigned
  <1>3. Roles' BY DEF Roles, Assigned
  <1>4. Routing' BY DEF Routing, ConfigMatchesAgent, Assigned, InCall,
      Busy, Reading, Writing
  <1>5. Meeting' BY MeetingKept DEF InCall, Busy, Reading, Writing, Leaving
  <1>6. Progress' BY DEF Progress, CallsMet, ValidOf, Threads
  <1>7. SessionsAreSingle' BY DEF SessionsAreSingle
  <1>8. OnlineHasSession' BY DEF OnlineHasSession, ValidOf
  <1> QED BY <1>1, <1>2, <1>3, <1>4, <1>5, <1>6, <1>7, <1>8

(* The router drops a session.                                               *)
LEMMA DropSessionInv ==
  ASSUME IInv, NEW s \in Sessions, DropSession(s)
  PROVE  IInv'
  <1> USE DEF IInv, dbVars, boardVars, routerVars, linkVars, localVars,
      ghostVars, DropSession
  <1>1. TypeOK' BY DEF TypeOK
  <1>2. Ownership' BY DEF Ownership, Assigned
  <1>3. Roles' BY DEF Roles, Assigned
  <1>4. Routing' BY DEF Routing, ConfigMatchesAgent, Assigned, InCall,
      Busy, Reading, Writing
  <1>5. Meeting' BY MeetingKept DEF InCall, Busy, Reading, Writing, Leaving
  <1>6. Progress' BY DEF Progress, CallsMet, ValidOf, Threads
  <1>7. SessionsAreSingle' BY DEF SessionsAreSingle
  <1>8. OnlineHasSession' BY DEF OnlineHasSession, ValidOf
  <1> QED BY <1>1, <1>2, <1>3, <1>4, <1>5, <1>6, <1>7, <1>8

(* A board forgets its configuration.                                        *)
LEMMA FactoryResetInv ==
  ASSUME IInv, NEW b \in Boards, FactoryReset(b)
  PROVE  IInv'
  <1> USE DEF IInv, dbVars, boardVars, routerVars, linkVars, localVars,
      ghostVars, FactoryReset
  <1>1. TypeOK' BY DEF TypeOK
  <1>2. Ownership' BY DEF Ownership, Assigned
  <1>3. Roles' BY DEF Roles, Assigned
  <1>4. Routing' BY DEF Routing, ConfigMatchesAgent, Assigned, InCall,
      Busy, Reading, Writing
  <1>5. Meeting' BY MeetingKept DEF InCall, Busy, Reading, Writing, Leaving
  <1>6. Progress' BY DEF Progress, CallsMet, ValidOf, Threads
  <1>7. SessionsAreSingle' BY DEF SessionsAreSingle
  <1>8. OnlineHasSession' BY DEF OnlineHasSession, ValidOf
  <1> QED BY <1>1, <1>2, <1>3, <1>4, <1>5, <1>6, <1>7, <1>8

(* An agent loses its transport.                                             *)
LEMMA OnDisconnectInv ==
  ASSUME IInv, NEW a \in Agents, OnDisconnect(a)
  PROVE  IInv'
  <1> USE DEF IInv, dbVars, boardVars, routerVars, linkVars, localVars,
      ghostVars, OnDisconnect, Disconnect
  <1>1. TypeOK' BY ConstantsAssumption DEF TypeOK, Links
  <1>2. Ownership' BY DEF Ownership, Assigned
  <1>3. Roles' BY DEF Roles, Assigned
  <1>4. Routing' BY DEF Routing, ConfigMatchesAgent, Assigned, InCall,
      Busy, Reading, Writing
  <1>5. Meeting' BY MeetingKept DEF InCall, Busy, Reading, Writing, Leaving
  <1>6. Progress' BY DEF Progress, CallsMet, ValidOf, Threads
  <1>7. SessionsAreSingle' BY DEF SessionsAreSingle
  <1>8. OnlineHasSession' BY DEF OnlineHasSession, ValidOf
  <1> QED BY <1>1, <1>2, <1>3, <1>4, <1>5, <1>6, <1>7, <1>8

(* A thread is killed: an ONLINE board without a session is then torn.       *)
LEMMA CrashInv ==
  ASSUME IInv, NEW t \in Threads, Crash(t)
  PROVE  IInv'
  <1> USE DEF IInv, dbVars, boardVars, routerVars, linkVars, localVars,
      ghostVars, Crash, Disconnect, ResetLocals
  <1>t. torn' \subseteq Boards BY DEF TypeOK, Ownership
  <1>1. TypeOK' BY <1>t, ConstantsAssumption DEF TypeOK, Labels, Links
  <1>2. Ownership' BY DEF TypeOK, Ownership, Assigned
  <1>3. Roles' BY DEF TypeOK, Roles, Assigned
  <1>4. Routing' BY DEF TypeOK, Routing, ConfigMatchesAgent, Assigned, InCall,
      Busy, Reading, Writing, Threads
  <1>5. Meeting' BY MeetingKept DEF TypeOK, InCall, Busy, Reading, Writing, Leaving
  <1>6. Progress' BY DEF TypeOK, Progress, CallsMet, SessionsAreSingle, ValidOf, Threads
  <1>7. SessionsAreSingle' BY DEF SessionsAreSingle
  <1>8. OnlineHasSession' BY DEF OnlineHasSession, ValidOf
  <1> QED BY <1>1, <1>2, <1>3, <1>4, <1>5, <1>6, <1>7, <1>8

(* An agent joins its router.                                                *)
LEMMA OnJoinInv ==
  ASSUME IInv, NEW a \in Agents, OnJoin(a)
  PROVE  IInv'
  <1> USE DEF IInv, dbVars, boardVars, routerVars, linkVars, localVars,
      ghostVars, OnJoin
  <1>1. TypeOK' BY DEF TypeOK, Links
  <1>2. Ownership' BY DEF Ownership, Assigned
  <1>3. Roles' BY DEF Roles, Assigned
  <1>4. Routing' BY DEF Routing, ConfigMatchesAgent, Assigned, InCall,
      Busy, Reading, Writing
  <1>5. Meeting' BY MeetingKept DEF InCall, Busy, Reading, Writing, Leaving
  <1>6. Progress' BY DEF Progress, CallsMet, ValidOf, Threads
  <1>7. SessionsAreSingle' BY DEF SessionsAreSingle
  <1>8. OnlineHasSession' BY DEF OnlineHasSession, ValidOf
  <1> QED BY <1>1, <1>2, <1>3, <1>4, <1>5, <1>6, <1>7, <1>8

(* The router answers wamp.session.list.                                     *)
LEMMA SessionListInv ==
  ASSUME IInv, NEW a \in Agents, SessionList(a)
  PROVE  IInv'
  <1> USE DEF IInv, dbVars, boardVars, routerVars, linkVars, localVars,
      ghostVars, SessionList
  <1>1. TypeOK' BY DEF TypeOK, Links
  <1>2. Ownership' BY DEF Ownership, Assigned
  <1>3. Roles' BY DEF Roles, Assigned
  <1>4. Routing' BY DEF Routing, ConfigMatchesAgent, Assigned, InCall,
      Busy, Reading, Writing
  <1>5. Meeting' BY MeetingKept DEF InCall, Busy, Reading, Writing, Leaving
  <1>6. Progress' BY DEF Progress, CallsMet, ValidOf, Threads
  <1>7. SessionsAreSingle' BY DEF SessionsAreSingle
  <1>8. OnlineHasSession' BY DEF OnlineHasSession, ValidOf
  <1> QED BY <1>1, <1>2, <1>3, <1>4, <1>5, <1>6, <1>7, <1>8

(* update_sessions reads the valid sessions of the agent's boards.           *)
LEMMA UpdateSessionsInv ==
  ASSUME IInv, NEW a \in Agents, UpdateSessions(a)
  PROVE  IInv'
  <1> USE DEF IInv, dbVars, boardVars, routerVars, linkVars, localVars,
      ghostVars, UpdateSessions, OldConnected, ValidList
  <1>1. TypeOK' BY DEF TypeOK, Labels, Links
  <1>2. Ownership' BY DEF Ownership, Assigned
  <1>3. Roles' BY ConstantsAssumption DEF Assigned, Roles
  <1>4. Routing' BY DEF Routing, ConfigMatchesAgent, Assigned, InCall,
      Busy, Reading, Writing
  <1>5. Meeting' BY MeetingKept DEF InCall, Busy, Reading, Writing, Leaving
  <1>6. Progress' BY DEF Progress, CallsMet, ValidOf, Threads
  <1>7. SessionsAreSingle' BY DEF SessionsAreSingle
  <1>8. OnlineHasSession' BY DEF OnlineHasSession, ValidOf
  <1> QED BY <1>1, <1>2, <1>3, <1>4, <1>5, <1>6, <1>7, <1>8

(* update_sessions finds a session of its list still valid.                  *)
LEMMA VisitOldInv ==
  ASSUME IInv, NEW a \in Agents, NEW s \in Sessions, VisitOld(a, s)
  PROVE  IInv'
  <1> USE DEF IInv, dbVars, boardVars, routerVars, linkVars, localVars,
      ghostVars, VisitOld
  <1>b. owner[s] \in Boards /\ MetByLeave(owner[s]) \subseteq {"leaving"}
    BY DEF TypeOK, Ownership, MetByLeave
  <1>m. /\ met' \in [Meetings -> SUBSET Boards]
        /\ \A m \in Meetings : \A c \in Boards :
             c \in met'[m] <=> c \in met[m] \/ (c = owner[s] /\ m \in MetByLeave(owner[s]))
    BY <1>b, RecordedGrows DEF Meetings
  <1>h. \A c \in Boards :
          /\ c \in met["reading"] => c \in met'["reading"]
          /\ c \in met["writing"] => c \in met'["writing"]
          /\ c \in met["leaving"] => c \in met'["leaving"]
          /\ c \in met["assigning"] <=> c \in met'["assigning"]
    BY <1>b, <1>m, RecordedGrows DEF Meetings
  <1>c. \A r \in valid : owner[r] \in Boards BY DEF Ownership
  <1>d. \A t \in Threads : pc[t] \notin {"idle", "sync"} => owner[cur[t]] \in Boards
    BY DEF Ownership
  <1>1. TypeOK' BY <1>m DEF TypeOK, Labels
  <1>2. Ownership' BY <1>b, <1>h DEF TypeOK, Ownership, Assigned
  <1>3. Roles'
    <2>1. \A t \in Threads : t # a => pc'[t] = pc[t] /\ cur'[t] = cur[t]
      BY DEF TypeOK
    <2>2. pc'[a] = "invalidate" /\ cur'[a] = s /\ a \in Threads
      BY DEF TypeOK, Threads
    <2>3. router[s] = a \/ agent[owner[s]] = a \/ Assigned(owner[s])
      BY DEF Ownership, Threads
    <2> QED BY <1>b, <1>d, <1>h, <2>1, <2>2, <2>3, ConstantsAssumption
         DEF Roles, Assigned, Threads
  <1>4. Routing'
    <2>1. \A t \in Threads, c \in Boards : InCall(t, c)' => InCall(t, c)
      BY DEF TypeOK, InCall, Busy, Reading, Writing, Threads
    <2> QED BY <1>h, <2>1 DEF TypeOK, Routing, ConfigMatchesAgent, Assigned
  <1>5. Meeting'
    <2>1. \A t \in Threads, c \in Boards :
            /\ InCall(t, c)' => InCall(t, c)
            /\ Busy(t, c, Reading)' => Busy(t, c, Reading)
            /\ Busy(t, c, Leaving)' => Busy(t, c, Leaving) \/ (t = a /\ c = owner[s])
      BY DEF TypeOK, InCall, Busy, Reading, Writing, Leaving, Threads
    <2>2. \A t \in Threads : InCall(t, owner[s]) => owner[s] \in met'["leaving"]
      BY <1>b, <1>m DEF MetByLeave, Meetings
    <2> QED BY <1>h, <2>1, <2>2 DEF Meeting, CallsMet, Assigned
  <1>6. Progress'
    <2>1. \A t \in Threads : t # a => pc'[t] = pc[t] /\ cur'[t] = cur[t]
      BY DEF TypeOK
    <2>2. pc'[a] = "invalidate" BY DEF TypeOK, Threads
    <2> QED BY <1>d, <1>h, <2>1, <2>2 DEF Progress, CallsMet, ValidOf
  <1>7. SessionsAreSingle' BY <1>c, <1>h DEF SessionsAreSingle
  <1>8. OnlineHasSession'
    <2>1. \A t \in Threads : pc[t] \in {"create", "offline"} => pc'[t] = pc[t] /\ cur'[t] = cur[t]
      BY DEF TypeOK
    <2> QED BY <1>h, <2>1 DEF OnlineHasSession, ValidOf
  <1> QED BY <1>1, <1>2, <1>3, <1>4, <1>5, <1>6, <1>7, <1>8

(* update_sessions finds a session of its list no longer valid.              *)
LEMMA SkipOldInv ==
  ASSUME IInv, NEW a \in Agents, NEW s \in Sessions, SkipOld(a, s)
  PROVE  IInv'
  <1> USE DEF IInv, dbVars, boardVars, routerVars, linkVars, localVars,
      ghostVars, SkipOld
  <1>1. TypeOK' BY DEF TypeOK, Labels
  <1>2. Ownership' BY DEF Ownership, Assigned
  <1>3. Roles' BY DEF Roles, Assigned
  <1>4. Routing' BY DEF Routing, ConfigMatchesAgent, Assigned, InCall,
      Busy, Reading, Writing
  <1>5. Meeting' BY MeetingKept DEF InCall, Busy, Reading, Writing, Leaving
  <1>6. Progress' BY DEF Progress, CallsMet, ValidOf, Threads
  <1>7. SessionsAreSingle' BY DEF SessionsAreSingle
  <1>8. OnlineHasSession' BY DEF OnlineHasSession, ValidOf
  <1> QED BY <1>1, <1>2, <1>3, <1>4, <1>5, <1>6, <1>7, <1>8

(* board_on_leave finds its session valid.                                   *)
LEMMA BoardOnLeaveInv ==
  ASSUME IInv, NEW a \in Agents, NEW s \in Sessions, BoardOnLeave(a, s)
  PROVE  IInv'
  <1> USE DEF IInv, dbVars, boardVars, routerVars, linkVars, localVars,
      ghostVars, BoardOnLeave, TakeLeave
  <1>b. owner[s] \in Boards /\ MetByLeave(owner[s]) \subseteq {"leaving"}
    BY DEF TypeOK, Ownership, MetByLeave
  <1>m. /\ met' \in [Meetings -> SUBSET Boards]
        /\ \A m \in Meetings : \A c \in Boards :
             c \in met'[m] <=> c \in met[m] \/ (c = owner[s] /\ m \in MetByLeave(owner[s]))
    BY <1>b, RecordedGrows DEF Meetings
  <1>h. \A c \in Boards :
          /\ c \in met["reading"] => c \in met'["reading"]
          /\ c \in met["writing"] => c \in met'["writing"]
          /\ c \in met["leaving"] => c \in met'["leaving"]
          /\ c \in met["assigning"] <=> c \in met'["assigning"]
    BY <1>b, <1>m, RecordedGrows DEF Meetings
  <1>c. \A r \in valid : owner[r] \in Boards BY DEF Ownership
  <1>d. \A t \in Threads : pc[t] \notin {"idle", "sync"} => owner[cur[t]] \in Boards
    BY DEF Ownership
  <1>1. TypeOK' BY <1>m DEF TypeOK, Labels
  <1>2. Ownership' BY <1>b, <1>h DEF TypeOK, Ownership, Assigned
  <1>3. Roles'
    <2>1. \A t \in Threads : t # a => pc'[t] = pc[t] /\ cur'[t] = cur[t]
      BY DEF TypeOK
    <2>2. pc'[a] = "invalidate" /\ cur'[a] = s /\ a \in Threads
      BY DEF TypeOK, Threads
    <2>3. router[s] = a \/ agent[owner[s]] = a \/ Assigned(owner[s])
      BY DEF Ownership, Threads
    <2> QED BY <1>b, <1>d, <1>h, <2>1, <2>2, <2>3, ConstantsAssumption
         DEF Roles, Assigned, Threads
  <1>4. Routing' BY <1>b, <1>h DEF TypeOK, Routing, ConfigMatchesAgent, Assigned, InCall,
      Busy, Reading, Writing, Threads
  <1>5. Meeting'
    <2>1. \A t \in Threads, c \in Boards :
            /\ InCall(t, c)' => InCall(t, c)
            /\ Busy(t, c, Reading)' => Busy(t, c, Reading)
            /\ Busy(t, c, Leaving)' => Busy(t, c, Leaving) \/ (t = a /\ c = owner[s])
      BY DEF TypeOK, InCall, Busy, Reading, Writing, Leaving, Threads
    <2>2. \A t \in Threads : InCall(t, owner[s]) => owner[s] \in met'["leaving"]
      BY <1>b, <1>m DEF MetByLeave, Meetings
    <2> QED BY <1>h, <2>1, <2>2 DEF Meeting, CallsMet, Assigned
  <1>6. Progress'
    <2>1. \A t \in Threads : t # a => pc'[t] = pc[t] /\ cur'[t] = cur[t]
      BY DEF TypeOK
    <2>2. pc'[a] = "invalidate" BY DEF TypeOK, Threads
    <2> QED BY <1>d, <1>h, <2>1, <2>2 DEF Progress, CallsMet, ValidOf
  <1>7. SessionsAreSingle' BY <1>c, <1>h DEF SessionsAreSingle
  <1>8. OnlineHasSession'
    <2>1. \A t \in Threads : pc[t] \in {"create", "offline"} => pc'[t] = pc[t] /\ cur'[t] = cur[t]
      BY DEF TypeOK
    <2> QED BY <1>h, <2>1 DEF OnlineHasSession, ValidOf
  <1> QED BY <1>1, <1>2, <1>3, <1>4, <1>5, <1>6, <1>7, <1>8

(* board_on_leave finds its session invalid.                                 *)
LEMMA BoardOnLeaveIgnoredInv ==
  ASSUME IInv, NEW a \in Agents, NEW s \in Sessions, BoardOnLeaveIgnored(a, s)
  PROVE  IInv'
  <1> USE DEF IInv, dbVars, boardVars, routerVars, linkVars, localVars,
      ghostVars, BoardOnLeaveIgnored, TakeLeave
  <1>1. TypeOK' BY DEF TypeOK
  <1>2. Ownership' BY DEF Ownership, Assigned
  <1>3. Roles' BY DEF Roles, Assigned
  <1>4. Routing' BY DEF Routing, ConfigMatchesAgent, Assigned, InCall,
      Busy, Reading, Writing, Threads
  <1>5. Meeting' BY MeetingKept DEF InCall, Busy, Reading, Writing, Leaving
  <1>6. Progress' BY DEF Progress, CallsMet, SessionsAreSingle, ValidOf, Threads
  <1>7. SessionsAreSingle' BY DEF SessionsAreSingle
  <1>8. OnlineHasSession' BY DEF OnlineHasSession, ValidOf
  <1> QED BY <1>1, <1>2, <1>3, <1>4, <1>5, <1>6, <1>7, <1>8

(* A session is invalidated: its board waits to be set OFFLINE.              *)
LEMMA InvalidateInv ==
  ASSUME IInv, NEW a \in Agents, Invalidate(a)
  PROVE  IInv'
  <1> USE DEF IInv, dbVars, boardVars, routerVars, linkVars, localVars,
      ghostVars, Invalidate
  <1>1. TypeOK' BY DEF TypeOK, Labels
  <1>2. Ownership' BY DEF Ownership, Assigned
  <1>3. Roles' BY DEF Roles, Assigned
  <1>4. Routing' BY DEF Routing, ConfigMatchesAgent, Assigned, InCall,
      Busy, Reading, Writing
  <1>5. Meeting' BY MeetingKept DEF InCall, Busy, Reading, Writing, Leaving
  <1>6. Progress' BY ConstantsAssumption DEF Ownership, Roles, Routing, Assigned,
      Meeting, CallsMet, Progress, ValidOf, Threads
  <1>7. SessionsAreSingle' BY DEF SessionsAreSingle
  <1>8. OnlineHasSession' BY DEF TypeOK, OnlineHasSession, ValidOf, Threads
  <1> QED BY <1>1, <1>2, <1>3, <1>4, <1>5, <1>6, <1>7, <1>8

(* A board is set OFFLINE.                                                   *)
LEMMA SetOfflineInv ==
  ASSUME IInv, NEW a \in Agents, SetOffline(a)
  PROVE  IInv'
  <1> USE DEF IInv, dbVars, boardVars, routerVars, linkVars, localVars,
      ghostVars, SetOffline
  <1>1. TypeOK' BY DEF TypeOK, Labels, Status
  <1>2. Ownership' BY DEF TypeOK, Ownership, Assigned
  <1>3. Roles' BY DEF TypeOK, Roles, Assigned
  <1>4. Routing' BY DEF Routing, ConfigMatchesAgent, Assigned, InCall,
      Busy, Reading, Writing
  <1>5. Meeting' BY MeetingKept DEF TypeOK, InCall, Busy, Reading, Writing, Leaving
  <1>6. Progress' BY DEF Progress, CallsMet, ValidOf, Threads
  <1>7. SessionsAreSingle' BY DEF SessionsAreSingle
  <1>8. OnlineHasSession' BY DEF TypeOK, OnlineHasSession, ValidOf
  <1> QED BY <1>1, <1>2, <1>3, <1>4, <1>5, <1>6, <1>7, <1>8

(* connection reads the old session of the board.                            *)
LEMMA ConnectionInv ==
  ASSUME IInv, NEW a \in Agents, NEW s \in Sessions, Connection(a, s)
  PROVE  IInv'
  <1> USE ConstantsAssumption DEF IInv, dbVars, boardVars,
      routerVars, linkVars, localVars, ghostVars
  <1>a. /\ pc[a] = "idle" /\ s \in calls /\ s \notin registering /\ router[s] = a
        /\ calls' = calls \ {s}
        /\ cur' = [cur EXCEPT ![a] = s]
        /\ UNCHANGED <<status, agent, valid, config, mine, owner, router, registering, live,
                       called, leaves, link, snap, todo, seen, torn, losses>>
        /\ met' = Recorded(owner[s], MetByCall(a, owner[s]))
        /\ late' \subseteq late \cup {s}
    BY DEF Connection
  <1>b. owner[s] \in Boards BY <1>a DEF Ownership
  <1>t. a \in Threads BY DEF Threads
  <1>w. MetByCall(a, owner[s]) \in SUBSET Meetings /\ "assigning" \notin MetByCall(a, owner[s])
    BY DEF MetByCall
  <1>m. /\ met' \in [Meetings -> SUBSET Boards]
        /\ \A m \in Meetings : \A c \in Boards :
             c \in met'[m] <=> c \in met[m] \/ (c = owner[s] /\ m \in MetByCall(a, owner[s]))
    BY <1>a, <1>b, <1>w, RecordedGrows
  <1>h. \A c \in Boards :
          /\ c \in met["reading"] => c \in met'["reading"]
          /\ c \in met["writing"] => c \in met'["writing"]
          /\ c \in met["leaving"] => c \in met'["leaving"]
          /\ c \in met["assigning"] <=> c \in met'["assigning"]
    BY <1>a, <1>b, <1>w, <1>m, RecordedGrows DEF Meetings
  <1>u. \A r \in valid : owner[r] \in Boards BY DEF Ownership
  <1>v. \A t \in Threads : pc[t] \notin {"idle", "sync"} => owner[cur[t]] \in Boards
    BY DEF Ownership
  <1>e. ASSUME NEW label \in {"invalidate_old", "create"}, NEW o \in Sessions \cup {NULL},
               pc' = [pc EXCEPT ![a] = label],
               old' = [old EXCEPT ![a] = o],
               label = "create" => ValidOf(owner[s]) = {} \/ owner[s] \in met["reading"],
               label = "invalidate_old" =>
                 o # NULL /\ ValidOf(owner[s]) = {o} /\ owner[o] = owner[s]
        PROVE  IInv'
    <2>a. /\ pc'[a] = label /\ cur'[a] = s /\ old'[a] = o
          /\ \A t \in Threads \ {a} : pc'[t] = pc[t] /\ cur'[t] = cur[t] /\ old'[t] = old[t]
      BY <1>a, <1>e, <1>t DEF TypeOK
    <2>1. TypeOK' BY <1>a, <1>b, <1>e, <1>m, <1>t DEF TypeOK, Labels
    <2>2. Ownership' BY <1>a, <1>b, <1>e, <1>t, <1>h, <2>a DEF Ownership, Assigned, TypeOK
    <2>3. Roles' BY <1>a, <1>e, <1>h, <2>a DEF Roles, Ownership, Assigned, Threads, TypeOK
    <2>d. /\ \A c \in Boards, u \in Threads \ {a} :
               /\ Busy(u, c, Reading)' => Busy(u, c, Reading)
               /\ InCall(u, c)' => InCall(u, c)
               /\ Busy(u, c, Leaving)' => Busy(u, c, Leaving)
          /\ \A c \in Boards :
               /\ InCall(a, c)' => c = owner[s]
               /\ ~Busy(a, c, Leaving)'
      <3> HIDE DEF IInv
      <3>1. ASSUME NEW c \in Boards, NEW u \in Threads \ {a}
            PROVE  /\ Busy(u, c, Reading)' => Busy(u, c, Reading)
                   /\ InCall(u, c)' => InCall(u, c)
                   /\ Busy(u, c, Leaving)' => Busy(u, c, Leaving)
        BY <1>a, <2>a DEF InCall, Busy, Reading, Writing, Leaving
      <3>2. ASSUME NEW c \in Boards
            PROVE  (InCall(a, c)' => c = owner[s]) /\ ~Busy(a, c, Leaving)'
        BY <1>a, <2>a DEF InCall, Busy, Leaving
      <3> QED BY <3>1, <3>2
    <2>4. Routing'
      <3>1. ConfigMatchesAgent' BY <1>a, <1>h DEF Routing, ConfigMatchesAgent, Assigned
      <3>2. \A r \in Sessions : owner[r] # NULL =>
              /\ router[r] \in Agents
              /\ r \notin registering => router[r] = agent[owner[r]] \/ owner[r] \in met'["assigning"]
        BY <1>h DEF Routing, Assigned, TypeOK
      <3>3. ASSUME NEW c \in Boards, NEW t \in Threads, InCall(t, c)', seen'[t] = "registered"
            PROVE  agent[c] = NULL \/ c \in met'["assigning"]
        <4>1. CASE t = a BY <1>a, <3>3, <4>1 DEF Roles
        <4>2. CASE t # a BY <1>a, <1>h, <2>d, <3>3, <4>2 DEF Routing, Assigned
        <4> QED BY <4>1, <4>2
      <3> QED BY <1>a, <3>1, <3>2, <3>3 DEF Routing, Assigned
    <2>5. Meeting' BY <1>a, <1>b, <1>t, <2>d, MeetingWhenCalling
    <2>6. Progress'
      <3>1. \A t \in Threads : ValidOf(owner[cur[t]])' = ValidOf(owner[cur'[t]])
        BY <1>a DEF ValidOf
      <3>2. \A t \in Threads : pc[t] \notin {"idle", "sync"} => owner[cur[t]] \in Boards
        BY DEF Ownership
      <3> QED BY <1>a, <1>b, <1>e, <1>h, <1>t, <2>a, <3>1, <3>2 DEF Progress, CallsMet
    <2>7. SessionsAreSingle' BY <1>a, <1>h, <1>u DEF SessionsAreSingle
    <2>8. OnlineHasSession'
      <3>1. \A t \in Threads : pc[t] \in {"create", "offline"} => pc'[t] = pc[t] /\ cur'[t] = cur[t]
        BY <1>a, <1>t, <2>a
      <3> HIDE DEF IInv
      <3>2. OnlineHasSession BY DEF IInv
      <3> QED BY <1>a, <1>h, <3>1, <3>2 DEF OnlineHasSession, ValidOf
    <2> QED BY <2>1, <2>2, <2>3, <2>4, <2>5, <2>6, <2>7, <2>8
  <1>c. CASE /\ \A o \in Sessions : ~ReadOne(owner[s], o)
             /\ pc' = [pc EXCEPT ![a] = "create"]
             /\ old' = old
    <2>1. ValidOf(owner[s]) = {} \/ owner[s] \in met["reading"]
      BY <1>b, <1>c DEF ReadOne, SessionsAreSingle, ValidOf, TypeOK
    <2>2. old' = [old EXCEPT ![a] = old[a]] /\ old[a] \in Sessions \cup {NULL}
      BY <1>c, <1>t DEF TypeOK
    <2> QED BY <1>c, <1>e, <2>1, <2>2
  <1>d. ASSUME NEW o \in Sessions, ReadOne(owner[s], o),
               pc' = [pc EXCEPT ![a] = "invalidate_old"], old' = [old EXCEPT ![a] = o]
        PROVE  IInv'
    <2>1. ValidOf(owner[s]) = {o} /\ owner[o] = owner[s] BY <1>d DEF ReadOne, ValidOf
    <2> QED BY <1>d, <1>e, <2>1
  <1> QED BY <1>c, <1>d DEF Connection, ReadOld

(* registration reads the board and its old session.                         *)
LEMMA RegistrationInv ==
  ASSUME IInv, NEW a \in Agents, NEW w \in Workers, NEW s \in Sessions,
         Registration(a, w, s)
  PROVE  IInv'
  <1> USE ConstantsAssumption DEF IInv, dbVars, boardVars,
      routerVars, linkVars, localVars, ghostVars
  <1>a. /\ pc[a] = "idle" /\ pc[w] = "idle" /\ a # w
        /\ s \in calls /\ s \in registering
        /\ calls' = calls \ {s}
        /\ cur' = [cur EXCEPT ![a] = s, ![w] = s]
        /\ seen' = [seen EXCEPT ![w] = status[owner[s]]]
        /\ UNCHANGED <<status, agent, valid, config, mine, owner, router, registering,
                       live, called, leaves, link, snap, todo, torn, late, losses>>
        /\ met' = Recorded(owner[s], MetByCall(w, owner[s]))
    BY DEF Registration
  <1>b. owner[s] \in Boards BY <1>a DEF Ownership
  <1>t. a \in Threads /\ w \in Threads BY DEF Threads
  <1>w. MetByCall(w, owner[s]) \in SUBSET Meetings BY DEF MetByCall
  <1>m. /\ met' \in [Meetings -> SUBSET Boards]
        /\ \A m \in Meetings : \A c \in Boards :
             c \in met'[m] <=> c \in met[m] \/ (c = owner[s] /\ m \in MetByCall(w, owner[s]))
    BY <1>a, <1>b, <1>w, RecordedGrows
  <1>h. \A c \in Boards :
          /\ c \in met["reading"] => c \in met'["reading"]
          /\ c \in met["writing"] => c \in met'["writing"]
          /\ c \in met["leaving"] => c \in met'["leaving"]
          /\ c \in met["assigning"] => c \in met'["assigning"]
    BY <1>a, <1>b, <1>w, <1>m, RecordedGrows DEF Meetings
  <1>u. \A r \in valid : owner[r] \in Boards BY DEF Ownership
  <1>v. \A t \in Threads : pc[t] \notin {"idle", "sync"} => owner[cur[t]] \in Boards
    BY DEF Ownership
  <1>e. ASSUME NEW label \in {"invalidate_old", "create"}, NEW o \in Sessions \cup {NULL},
               pc' = [pc EXCEPT ![a] = "await", ![w] = label],
               old' = [old EXCEPT ![w] = o],
               label = "create" => ValidOf(owner[s]) = {} \/ owner[s] \in met["reading"],
               label = "invalidate_old" => o # NULL /\ ValidOf(owner[s]) = {o} /\ owner[o] = owner[s]
        PROVE IInv'
    <2>a. /\ pc'[a] = "await" /\ pc'[w] = label
          /\ cur'[a] = s /\ cur'[w] = s /\ old'[w] = o
          /\ \A t \in Threads \ {a, w} :
               pc'[t] = pc[t] /\ cur'[t] = cur[t] /\ old'[t] = old[t] /\ seen'[t] = seen[t]
          /\ seen'[w] = status[owner[s]] /\ seen'[a] = seen[a]
      BY <1>a, <1>e DEF TypeOK, Threads
    <2>1. TypeOK' BY <1>a, <1>b, <1>e, <1>m DEF TypeOK, Threads, Labels
    <2>2. Ownership' BY <1>a, <1>b, <1>e, <1>t, <1>h, <2>a DEF Ownership, Assigned, TypeOK
    <2>3. Roles' BY <1>a, <1>e, <1>h, <2>a DEF Roles, Ownership, Assigned, Threads, TypeOK
    <2>d. /\ \A c \in Boards, u \in Threads \ {w} :
               /\ Busy(u, c, Reading)' => Busy(u, c, Reading)
               /\ InCall(u, c)' => InCall(u, c)
               /\ Busy(u, c, Leaving)' => Busy(u, c, Leaving)
          /\ \A c \in Boards :
               /\ InCall(w, c)' => c = owner[s]
               /\ ~Busy(w, c, Leaving)'
      <3> HIDE DEF IInv
      <3>1. ASSUME NEW c \in Boards, NEW u \in Threads \ {w}
            PROVE  /\ Busy(u, c, Reading)' => Busy(u, c, Reading)
                   /\ InCall(u, c)' => InCall(u, c)
                   /\ Busy(u, c, Leaving)' => Busy(u, c, Leaving)
        BY <1>a, <2>a DEF InCall, Busy, Reading, Writing, Leaving
      <3>2. ASSUME NEW c \in Boards
            PROVE  (InCall(w, c)' => c = owner[s]) /\ ~Busy(w, c, Leaving)'
        BY <1>a, <2>a DEF InCall, Busy, Leaving
      <3> QED BY <3>1, <3>2
    <2>4. Routing'
      <3>1. ConfigMatchesAgent' BY <1>a, <1>h DEF Routing, ConfigMatchesAgent, Assigned
      <3>2. \A r \in Sessions : owner[r] # NULL =>
              /\ router[r] \in Agents
              /\ r \notin registering => router[r] = agent[owner[r]] \/ owner[r] \in met'["assigning"]
        BY <1>h DEF Routing, Assigned, TypeOK
      <3>3. ASSUME NEW c \in Boards, NEW t \in Threads, InCall(t, c)', seen'[t] = "registered"
            PROVE  agent[c] = NULL \/ c \in met'["assigning"]
        <4>1. CASE t = w BY <1>a, <1>b, <2>a, <2>d, <3>3, <4>1 DEF Routing
        <4>2. CASE t # w BY <1>a, <1>h, <2>a, <2>d, <3>3, <4>2 DEF Routing, Assigned
        <4> QED BY <4>1, <4>2
      <3> QED BY <1>a, <3>1, <3>2, <3>3 DEF Routing, Assigned
    <2>5. Meeting' BY <1>a, <1>b, <1>t, <2>d, MeetingWhenCalling
    <2>6. Progress'
      <3>0. Progress OBVIOUS
      <3> HIDE DEF IInv
      <3> SUFFICES ASSUME NEW t \in Threads
                   PROVE  /\ pc'[t] = "invalidate_old" => \/ ValidOf(owner[cur'[t]]) \subseteq {old'[t]}
                                                          \/ owner[cur'[t]] \in met'["reading"]
                          /\ pc'[t] = "create" => \/ ValidOf(owner[cur'[t]]) = {}
                                                 \/ owner[cur'[t]] \in met'["reading"]
                          /\ pc'[t] = "online" => \/ cur'[t] \in valid
                                                 \/ owner[cur'[t]] \in met'["reading"]
                                                 \/ owner[cur'[t]] \in met'["writing"]
        BY <1>a DEF Progress, CallsMet, ValidOf
      <3>3. CASE t = a BY <2>a, <3>3
      <3>4. CASE t = w BY <1>a, <1>b, <1>e, <1>h, <2>a, <3>4
      <3>5. CASE t \notin {a, w}
        <4>1. pc[t] \notin {"idle", "sync"} => owner[cur[t]] \in Boards
          BY DEF IInv, Ownership
        <4> QED BY <1>h, <2>a, <3>0, <3>5, <4>1 DEF Progress, CallsMet
      <3> QED BY <3>3, <3>4, <3>5
    <2>7. SessionsAreSingle' BY <1>a, <1>h, <1>u DEF SessionsAreSingle
    <2>8. OnlineHasSession'
      <3>1. \A t \in Threads : pc[t] \in {"create", "offline"} => pc'[t] = pc[t] /\ cur'[t] = cur[t]
        BY <1>a, <1>t, <2>a
      <3> HIDE DEF IInv
      <3>2. OnlineHasSession BY DEF IInv
      <3> SUFFICES ASSUME NEW c \in Boards, status[c] = "online"
                   PROVE  \/ ValidOf(c) # {}
                          \/ \E t \in Threads : pc'[t] \in {"create", "offline"} /\ owner[cur'[t]] = c
                          \/ c \in torn
                          \/ c \in met'["reading"] \/ c \in met'["writing"]
        BY <1>a DEF OnlineHasSession, ValidOf
      <3>3. CASE \E t \in Threads : pc[t] \in {"create", "offline"} /\ owner[cur[t]] = c
        BY <3>1, <3>3
      <3> QED BY <1>h, <3>2, <3>3 DEF OnlineHasSession
    <2> QED BY <2>1, <2>2, <2>3, <2>4, <2>5, <2>6, <2>7, <2>8
  <1>c. CASE /\ \A o \in Sessions : ~ReadOne(owner[s], o)
             /\ pc' = [pc EXCEPT ![a] = "await", ![w] = "create"]
             /\ old' = old
    <2>1. ValidOf(owner[s]) = {} \/ owner[s] \in met["reading"]
      BY <1>b, <1>c DEF ReadOne, SessionsAreSingle, ValidOf, TypeOK
    <2>2. old' = [old EXCEPT ![w] = old[w]] /\ old[w] \in Sessions \cup {NULL}
      BY <1>c DEF TypeOK, Threads
    <2> QED BY <1>c, <1>e, <2>1, <2>2
  <1>d. ASSUME NEW o \in Sessions, ReadOne(owner[s], o),
               pc' = [pc EXCEPT ![a] = "await", ![w] = "invalidate_old"],
               old' = [old EXCEPT ![w] = o]
        PROVE IInv'
    <2>1. ValidOf(owner[s]) = {o} /\ owner[o] = owner[s] BY <1>d DEF ReadOne, ValidOf
    <2> QED BY <1>d, <1>e, <2>1
  <1> QED BY <1>c, <1>d DEF Registration, ReadOld

(* The registration agent stops waiting for the conductor.                   *)
LEMMA RpcTimeoutInv ==
  ASSUME IInv, NEW a \in Agents, RpcTimeout(a)
  PROVE  IInv'
  <1> USE DEF IInv, dbVars, boardVars, routerVars, linkVars, localVars,
      ghostVars, RpcTimeout
  <1>1. TypeOK' BY DEF TypeOK, Labels
  <1>2. Ownership' BY DEF TypeOK, Ownership, Assigned
  <1>3. Roles' BY DEF Roles, Assigned
  <1>4. Routing' BY DEF Routing, ConfigMatchesAgent, Assigned, InCall,
      Busy, Reading, Writing
  <1>5. Meeting' BY MeetingKept DEF InCall, Busy, Reading, Writing, Leaving
  <1>6. Progress' BY DEF Progress, CallsMet, ValidOf, Threads
  <1>7. SessionsAreSingle' BY DEF SessionsAreSingle
  <1>8. OnlineHasSession' BY DEF OnlineHasSession, ValidOf
  <1> QED BY <1>1, <1>2, <1>3, <1>4, <1>5, <1>6, <1>7, <1>8

(* connection or registration invalidates the session it has read.           *)
LEMMA InvalidateOldInv ==
  ASSUME IInv, NEW t \in Threads, InvalidateOld(t)
  PROVE  IInv'
  <1> USE DEF IInv, dbVars, boardVars, routerVars, linkVars, localVars,
      ghostVars, InvalidateOld
  <1>1. TypeOK' BY DEF TypeOK, Labels
  <1>2. Ownership' BY ConstantsAssumption DEF TypeOK, Ownership, Assigned
  <1>3. Roles' BY DEF Roles, Assigned
  <1>4. Routing' BY DEF Routing, ConfigMatchesAgent, Assigned, InCall,
      Busy, Reading, Writing
  <1>5. Meeting' BY MeetingKept DEF InCall, Busy, Reading, Writing, Leaving
  <1>6. Progress' BY DEF Ownership, Meeting, CallsMet, InCall, Busy, Reading,
      Writing, Progress, ValidOf, Threads
  <1>7. SessionsAreSingle' BY DEF SessionsAreSingle
  <1>8. OnlineHasSession' BY DEF TypeOK, Ownership, OnlineHasSession, ValidOf
  <1> QED BY <1>1, <1>2, <1>3, <1>4, <1>5, <1>6, <1>7, <1>8

(* connection or registration creates the session.                           *)
LEMMA CreateSessionInv ==
  ASSUME IInv, NEW t \in Threads, CreateSession(t)
  PROVE  IInv'
  <1> USE DEF IInv, dbVars, boardVars, routerVars, linkVars, localVars,
      ghostVars, CreateSession
  <1>1. TypeOK' BY DEF TypeOK, Ownership, Labels
  <1>2. Ownership' BY DEF Ownership, Assigned
  <1>3. Roles' BY ConstantsAssumption DEF Assigned, Roles
  <1>4. Routing' BY DEF Routing, ConfigMatchesAgent, Assigned, InCall,
      Busy, Reading, Writing
  <1>5. Meeting' BY MeetingKept DEF InCall, Busy, Reading, Writing, Leaving
  <1>6. Progress'
    <2> SUFFICES ASSUME NEW u \in Threads
                 PROVE  /\ pc'[u] = "invalidate_old" => \/ ValidOf(owner[cur[u]])' \subseteq {old[u]}
                                                        \/ owner[cur[u]] \in met["reading"]
                        /\ pc'[u] = "create" => \/ ValidOf(owner[cur[u]])' = {}
                                               \/ owner[cur[u]] \in met["reading"]
                        /\ pc'[u] = "online" => cur[u] \in valid' \/ CallsMet(owner[cur[u]])
      BY DEF Progress, CallsMet
    <2>1. CASE u = t BY <2>1 DEF TypeOK
    <2>2. CASE u # t
      <3>1. /\ pc'[u] = pc[u] /\ owner' = owner /\ cur' = cur /\ old' = old
            /\ valid' = valid \cup {cur[t]} /\ pc[t] = "create"
        BY <2>2 DEF TypeOK
      <3>2. pc[u] \in {"invalidate_old", "create"} /\ owner[cur[u]] = owner[cur[t]] =>
              owner[cur[u]] \in met["reading"]
        BY <2>2, <3>1 DEF Meeting, Busy, Reading, Ownership
      <3>3. owner[cur[u]] # owner[cur[t]] => ValidOf(owner[cur[u]])' = ValidOf(owner[cur[u]])
        BY <3>1 DEF ValidOf
      <3> QED BY <3>1, <3>2, <3>3 DEF Progress
    <2> QED BY <2>1, <2>2
  <1>7. SessionsAreSingle' BY DEF Progress, SessionsAreSingle, ValidOf
  <1>8. OnlineHasSession' BY DEF OnlineHasSession, ValidOf
  <1> QED BY <1>1, <1>2, <1>3, <1>4, <1>5, <1>6, <1>7, <1>8

(* connection sets the board ONLINE: its session is still valid.             *)
LEMMA SetOnlineInv ==
  ASSUME IInv, NEW a \in Agents, SetOnline(a)
  PROVE  IInv'
  <1> USE DEF IInv, dbVars, boardVars, routerVars, linkVars, localVars,
      ghostVars, SetOnline
  <1>1. TypeOK' BY DEF TypeOK, Labels, Status
  <1>2. Ownership' BY DEF TypeOK, Ownership, Assigned
  <1>3. Roles' BY DEF TypeOK, Roles, Assigned
  <1>4. Routing' BY DEF TypeOK, Routing, ConfigMatchesAgent, Assigned, InCall,
      Busy, Reading, Writing
  <1>5. Meeting' BY MeetingKept DEF TypeOK, InCall, Busy, Reading, Writing, Leaving
  <1>6. Progress' BY DEF TypeOK, Progress, CallsMet, ValidOf, Threads
  <1>7. SessionsAreSingle' BY DEF SessionsAreSingle
  <1>8. OnlineHasSession' BY DEF Progress, CallsMet, OnlineHasSession, ValidOf, Threads
  <1> QED BY <1>1, <1>2, <1>3, <1>4, <1>5, <1>6, <1>7, <1>8

(* registration gives the board its agent, once, and answers.                *)
LEMMA ConfigureInv ==
  ASSUME IInv, NEW w \in Workers, Configure(w)
  PROVE  IInv'
  <1> DEFINE s == cur[w]
             b == owner[s]
  <1> USE ConstantsAssumption DEF IInv, dbVars, boardVars,
      routerVars, linkVars, localVars, ghostVars
  <1>a. /\ pc[w] = "configure"
        /\ status' = [status EXCEPT ![b] = "offline"]
        /\ torn' = torn \ {b}
        /\ seen' = [seen EXCEPT ![w] = NULL]
        /\ UNCHANGED <<valid, mine, owner, router, registering, live, called, calls,
                       leaves, link, snap, old, todo, met, late, losses>>
    BY DEF Configure
  <1>b. s \in Sessions /\ b \in Boards /\ InCall(w, b)
    BY <1>a DEF Ownership, InCall, Busy, Writing, Threads
  <1>t. w \in Threads /\ RegAgent \in Threads /\ w # RegAgent BY DEF Threads
  <1>c. /\ pc' \in [Threads -> Labels] /\ cur' \in [Threads -> Sessions \cup {NULL}]
        /\ pc'[w] = "idle"
        /\ \A t \in Threads : pc'[t] = "idle" \/ (t # w /\ pc'[t] = pc[t] /\ cur'[t] = cur[t])
        /\ \A t \in Threads : pc'[t] = "idle" => t = w \/ pc[t] \in {"idle", "await"}
    <2>0. /\ pc \in [Threads -> Labels] /\ "idle" \in Labels
          /\ cur \in [Threads -> Sessions \cup {NULL}]
      BY DEF TypeOK, Labels
    <2> HIDE DEF IInv
    <2>1. CASE /\ pc[RegAgent] = "await"
               /\ pc' = [pc EXCEPT ![w] = "idle", ![RegAgent] = "idle"]
               /\ cur' = [cur EXCEPT ![w] = NULL, ![RegAgent] = NULL]
      BY <1>t, <2>0, <2>1
    <2>2. CASE /\ pc' = [pc EXCEPT ![w] = "idle"]
               /\ cur' = [cur EXCEPT ![w] = NULL]
      BY <1>t, <2>0, <2>2
    <2> QED BY <2>1, <2>2 DEF Configure
  <1>d. /\ agent' \in [Boards -> Agents \cup {NULL}]
        /\ \A c \in Boards : agent[c] # NULL \/ c # b => agent'[c] = agent[c] \/ Assigned(c)
        /\ \A c \in Boards : c # b => agent'[c] = agent[c]
    <2>1. CASE seen[w] = "registered"
      <3>1. agent[b] = NULL \/ Assigned(b) BY <1>b, <2>1 DEF Routing, Threads
      <3>2. PICK m \in Agents : agent' = [agent EXCEPT ![b] = m]
        BY <2>1 DEF Configure, AssignAgent
      <3> QED BY <1>b, <3>1, <3>2 DEF TypeOK
    <2>2. CASE seen[w] # "registered"
      <3>1. agent' = agent BY <2>2 DEF Configure, AssignAgent
      <3> QED BY <3>1 DEF TypeOK
    <2> QED BY <2>1, <2>2
  <1>e. /\ config' \in [Boards -> Agents \cup {NULL}]
        /\ \A c \in Boards : config'[c] = config[c] \/ config'[c] = agent'[c]
    <2>1. config' = config \/ config' = [config EXCEPT ![b] = agent'[b]]
      BY DEF Configure
    <2>2. CASE config' = config BY <2>2 DEF TypeOK
    <2>3. CASE config' = [config EXCEPT ![b] = agent'[b]] BY <1>b, <1>d, <2>3 DEF TypeOK
    <2> QED BY <2>1, <2>2, <2>3
  <1>f. \A t \in Threads, c \in Boards :
          /\ InCall(t, c)' => t # w /\ InCall(t, c)
          /\ Busy(t, c, Reading)' => Busy(t, c, Reading)
          /\ Busy(t, c, Leaving)' => Busy(t, c, Leaving)
    BY <1>a, <1>c DEF InCall, Busy, Reading, Writing, Leaving
  <1>1. TypeOK' BY <1>a, <1>c, <1>d, <1>e DEF TypeOK, Status, Threads
  <1>2. Ownership'
    <2>1. \A t \in Threads : \A r \in todo[t] : agent'[owner[r]] = t \/ Assigned(owner[r])
      BY <1>d DEF Ownership, TypeOK, Threads
    <2> QED BY <1>a, <1>c, <2>1 DEF Ownership, Assigned
  <1>3. Roles'
    <2>1. \A v \in Workers : v \in Threads /\ (pc'[v] = "idle" \/ pc'[v] = pc[v])
      BY <1>c DEF Threads
    <2>2. ASSUME NEW c \in Agents, pc'[c] # "idle"
          PROVE  pc'[c] = pc[c] /\ cur'[c] = cur[c]
      BY <1>c, <2>2 DEF Threads
    <2>3. ASSUME NEW c \in Agents, pc'[c] \in {"invalidate", "offline"}
          PROVE  router[cur[c]] = c \/ agent'[owner[cur[c]]] = c \/ Assigned(owner[cur[c]])
      <3>1. pc[c] = pc'[c] /\ c \in Threads BY <2>2, <2>3 DEF Threads
      <3>2. owner[cur[c]] \in Boards BY <2>3, <3>1 DEF Ownership
      <3>3. router[cur[c]] = c \/ agent[owner[cur[c]]] = c \/ Assigned(owner[cur[c]])
        BY <2>3, <3>1 DEF Roles
      <3> QED BY <1>d, <3>2, <3>3, ConstantsAssumption
    <2>4. \A c \in Agents : seen'[c] = NULL
      BY <1>a, ConstantsAssumption DEF Roles, TypeOK, Threads
    <2> QED BY <1>a, <2>1, <2>2, <2>3, <2>4 DEF Roles, Assigned
  <1>4. Routing'
    <2>1. ConfigMatchesAgent' BY <1>a, <1>d, <1>e DEF Routing, ConfigMatchesAgent, Assigned
    <2>2. \A r \in Sessions : owner[r] # NULL =>
            /\ router[r] \in Agents
            /\ r \notin registering => router[r] = agent'[owner[r]] \/ owner[r] \in met["assigning"]
      BY <1>d DEF Routing, Assigned, TypeOK
    <2>3. \A c \in Boards : status'[c] = "registered" => agent'[c] = NULL
      BY <1>a, <1>b, <1>d DEF Routing, TypeOK
    <2>4. ASSUME NEW c \in Boards, NEW t \in Threads, InCall(t, c)', seen'[t] = "registered"
          PROVE  agent'[c] = NULL \/ Assigned(c)'
      <3>1. t # w /\ InCall(t, c) /\ seen[t] = "registered" BY <1>a, <1>f, <2>4 DEF TypeOK
      <3>2. t \in Workers BY <3>1 DEF Roles, Threads
      <3>3. c = b => Assigned(c) BY <1>b, <1>t, <3>1, <3>2 DEF Meeting
      <3> QED BY <1>a, <1>d, <3>1, <3>3 DEF Routing, Assigned
    <2> QED BY <1>a, <2>1, <2>2, <2>3, <2>4 DEF Routing, Assigned
  <1>5. Meeting' BY <1>a, <1>f, MeetingKept
  <1>6. Progress' BY <1>a, <1>c DEF Progress, CallsMet, ValidOf
  <1>7. SessionsAreSingle' BY <1>a DEF SessionsAreSingle
  <1>8. OnlineHasSession'
    <2> SUFFICES ASSUME NEW c \in Boards, status'[c] = "online"
                 PROVE  \/ ValidOf(c) # {}
                        \/ c \in torn'
                        \/ c \in met["reading"] \/ c \in met["writing"]
                        \/ \E t \in Threads : pc'[t] \in {"create", "offline"} /\ owner[cur'[t]] = c
      BY <1>a DEF OnlineHasSession, ValidOf
    <2>1. c # b /\ status[c] = "online" BY <1>a, <1>b DEF TypeOK
    <2>2. \A t \in Threads : pc[t] \in {"create", "offline"} => pc'[t] = pc[t] /\ cur'[t] = cur[t]
      BY <1>a, <1>c
    <2> QED BY <1>a, <2>1, <2>2 DEF OnlineHasSession
  <1> QED BY <1>1, <1>2, <1>3, <1>4, <1>5, <1>6, <1>7, <1>8

-----------------------------------------------------------------------------
(* A step that changes no variable.                                          *)
LEMMA StutterInv == IInv /\ UNCHANGED vars => IInv'
  <1> SUFFICES ASSUME IInv, UNCHANGED vars PROVE IInv'
    OBVIOUS
  <1> USE DEF IInv, vars, dbVars, boardVars, routerVars, linkVars, localVars, ghostVars
  <1>1. TypeOK' BY DEF TypeOK
  <1>2. Ownership' BY DEF Ownership, Assigned
  <1>3. Roles' BY DEF Roles, Assigned
  <1>4. Routing' BY DEF Routing, ConfigMatchesAgent, Assigned, InCall,
      Busy, Reading, Writing
  <1>5. Meeting' BY MeetingKept DEF InCall, Busy, Reading, Writing, Leaving
  <1>6. Progress' BY DEF Progress, CallsMet, ValidOf
  <1>7. SessionsAreSingle' BY DEF SessionsAreSingle
  <1>8. OnlineHasSession' BY DEF OnlineHasSession, ValidOf
  <1> QED BY <1>1, <1>2, <1>3, <1>4, <1>5, <1>6, <1>7, <1>8

(* Every step of the system keeps the invariant.                             *)
LEMMA NextInv == ASSUME IInv, [Next]_vars PROVE IInv'
  <1>1. CASE UNCHANGED vars
    BY <1>1, StutterInv
  <1>2. ASSUME NEW b \in Boards, NEW s \in Sessions, OpenSession(b, s) \/ CallAgent(b, s)
        PROVE  IInv'
    BY <1>2, OpenSessionInv, CallAgentInv
  <1>3. ASSUME NEW s \in Sessions, DropSession(s) PROVE IInv'
    BY <1>3, DropSessionInv
  <1>4. ASSUME NEW b \in Boards, FactoryReset(b) PROVE IInv'
    BY <1>4, FactoryResetInv
  <1>5. ASSUME NEW a \in Agents, OnDisconnect(a) \/ SessionList(a) \/ AgentStep(a)
        PROVE  IInv'
    <2>1. ASSUME NEW s \in Sessions,
                 \/ VisitOld(a, s) \/ SkipOld(a, s) \/ BoardOnLeave(a, s)
                 \/ BoardOnLeaveIgnored(a, s) \/ Connection(a, s)
          PROVE  IInv'
      BY <2>1, VisitOldInv, SkipOldInv, BoardOnLeaveInv, BoardOnLeaveIgnoredInv, ConnectionInv
    <2>2. CASE \/ OnDisconnect(a) \/ SessionList(a) \/ OnJoin(a) \/ UpdateSessions(a)
               \/ Invalidate(a) \/ SetOffline(a) \/ SetOnline(a) \/ RpcTimeout(a)
      BY <2>2, OnDisconnectInv, SessionListInv, OnJoinInv, UpdateSessionsInv,
         InvalidateInv, SetOfflineInv, SetOnlineInv, RpcTimeoutInv
    <2> QED BY <1>5, <2>1, <2>2 DEF AgentStep
  <1>6. ASSUME NEW w \in Workers, WorkerStep(w) PROVE IInv'
    BY <1>6, RegistrationInv, ConfigureInv DEF WorkerStep
  <1>7. ASSUME NEW t \in Threads, CallStep(t) \/ Crash(t) PROVE IInv'
    BY <1>7, InvalidateOldInv, CreateSessionInv, CrashInv DEF CallStep
  <1> QED BY <1>1, <1>2, <1>3, <1>4, <1>5, <1>6, <1>7 DEF Next

-----------------------------------------------------------------------------
(* For every set of boards, agents, conductor threads and sessions, and any  *)
(* number of lost transports, crashes and RPCs that time out: the inductive  *)
(* invariant always holds.                                                   *)
THEOREM Inductive == Spec => []IInv
  <1>1. IInv /\ [Next]_vars => IInv'
    BY NextInv
  <1> QED BY <1>1, InitInv, PTL DEF Spec

(* Every variable keeps its type.                                            *)
THEOREM TypeCorrect == Spec => []TypeOK
  <1>1. IInv => TypeOK
    BY DEF IInv
  <1> QED BY <1>1, Inductive, PTL

(* Handlers in different processes invalidate and create sessions without a  *)
(* lock. A board has two valid sessions, which query.one() of                *)
(* get_session_by_board_uuid chokes on, only after a call of it was taken    *)
(* while another had read its old session and not yet created the new one;   *)
(* no other crossing of calls, leave events, start-up comparisons, RPCs that *)
(* time out and crashes does it.                                             *)
THEOREM TwoValidSessionsNeedAMeeting == Spec => []SessionsAreSingle
  <1>1. IInv => SessionsAreSingle
    BY DEF IInv
  <1> QED BY <1>1, Inductive, PTL

(* Only registration writes the agent of a board, and only if the board had  *)
(* none: a thread that has read the status REGISTERED runs the only          *)
(* registration of its board, so nobody has given it an agent since, or it   *)
(* has met another registration.                                             *)
LEMMA AgentStable ==
  ASSUME IInv, [Next]_vars, NEW b \in Boards, agent[b] # NULL
  PROVE  agent'[b] = agent[b] \/ b \in met["assigning"]
  <1>1. ASSUME NEW w \in Workers, Configure(w)
        PROVE  agent'[b] = agent[b] \/ b \in met["assigning"]
    <2>1. CASE seen[w] = "registered"
      <3>1. InCall(w, owner[cur[w]]) /\ owner[cur[w]] \in Boards
        BY <1>1 DEF Configure, IInv, Ownership, InCall, Busy, Writing, Threads
      <3>2. agent[owner[cur[w]]] = NULL \/ owner[cur[w]] \in met["assigning"]
        BY <2>1, <3>1 DEF IInv, Routing, Assigned, Threads
      <3> QED BY <1>1, <2>1, <3>2 DEF Configure, AssignAgent, IInv, TypeOK
    <2>2. CASE seen[w] # "registered"
      BY <1>1, <2>2 DEF Configure, AssignAgent
    <2> QED BY <2>1, <2>2
  <1>2. ASSUME NEW c \in Boards, NEW s \in Sessions, OpenSession(c, s) \/ CallAgent(c, s)
        PROVE  agent' = agent
    BY <1>2 DEF OpenSession, CallAgent, dbVars
  <1>3. CASE \/ \E s \in Sessions : DropSession(s)
             \/ \E c \in Boards : FactoryReset(c)
    BY <1>3 DEF DropSession, FactoryReset, dbVars
  <1>4. ASSUME NEW a \in Agents, OnDisconnect(a) \/ SessionList(a) \/ AgentStep(a)
        PROVE  agent' = agent
    BY <1>4 DEF AgentStep, OnDisconnect, SessionList, OnJoin, UpdateSessions, VisitOld,
       SkipOld, BoardOnLeave, BoardOnLeaveIgnored, Connection, Invalidate, SetOffline,
       SetOnline, RpcTimeout, dbVars
  <1>5. ASSUME NEW a \in Agents, NEW w \in Workers, NEW s \in Sessions, Registration(a, w, s)
        PROVE  agent' = agent
    BY <1>5 DEF Registration, dbVars
  <1>6. ASSUME NEW t \in Threads, CallStep(t) \/ Crash(t)
        PROVE  agent' = agent
    BY <1>6 DEF CallStep, InvalidateOld, CreateSession, Crash, dbVars
  <1>7. CASE UNCHANGED vars
    BY <1>7 DEF vars, dbVars
  <1> QED BY <1>1, <1>2, <1>3, <1>4, <1>5, <1>6, <1>7 DEF Next, WorkerStep

(* A board keeps the agent it was first given, whatever happens to the       *)
(* answers of its registrations, unless two of them ran at once.             *)
THEOREM BoardKeepsAgent == Spec => AgentIsKept
  <1>1. IInv /\ [Next]_vars =>
          [\A b \in Boards : agent[b] # NULL =>
             agent'[b] = agent[b] \/ b \in met["assigning"]]_vars
    BY AgentStable
  <1> QED BY <1>1, Inductive, PTL DEF Spec, AgentIsKept

(* A board that is ONLINE has a valid session, or a handler is between the   *)
(* two writes that change both, or one was killed there, or two calls of the *)
(* board have met.                                                           *)
THEOREM OnlineBoardHasSession == Spec => []OnlineHasSession
  <1>1. IInv => OnlineHasSession
    BY DEF IInv
  <1> QED BY <1>1, Inductive, PTL

-----------------------------------------------------------------------------
(* What IInv leaves open: the valid sessions that are gone, and the boards   *)
(* that are connected. ConnInv is inductive relative to IInv, so a lemma     *)
(* about a step assumes IInv on both sides of it.                            *)

(* A step that only takes sessions out of the table, and starts no write but  *)
(* of a session it has just taken out, keeps OfflineIsRight.                 *)
LEMMA OfflineKept ==
  ASSUME IInv, OfflineIsRight, met' = met, valid' \subseteq valid,
         \A r \in leaves' : r \notin live' /\ owner'[r] \in Boards,
         \A r \in Sessions : owner[r] # NULL => owner'[r] = owner[r],
         \A u \in Threads : pc'[u] \in {"configure", "invalidate", "offline"} =>
           /\ cur'[u] = cur[u]
           /\ pc[u] = pc'[u] \/ (pc'[u] = "offline" /\ pc[u] = "invalidate" /\ cur[u] \notin valid')
  PROVE  OfflineIsRight'
  <1> USE ConstantsAssumption
  <1>1. \A r \in valid' : r \in valid /\ owner'[r] = owner[r]
    BY DEF IInv, TypeOK, Ownership
  <1>2. ASSUME NEW u \in Threads, pc'[u] \in {"configure", "invalidate", "offline"}
        PROVE  cur'[u] = cur[u] /\ owner'[cur[u]] = owner[cur[u]]
    <2>1. pc[u] \notin {"idle", "sync"} BY <1>2
    <2> QED BY <1>2, <2>1 DEF IInv, TypeOK, Ownership
  <1>3. ASSUME NEW w \in Workers, pc'[w] = "configure"
        PROVE  ValidOf(owner[cur[w]])' \subseteq {cur[w]} \/ Met(owner[cur[w]])'
    <2>1. w \in Threads BY DEF Threads
    <2> QED BY <1>1, <1>2, <1>3, <2>1 DEF OfflineIsRight, ValidOf, Met
  <1>4. ASSUME NEW a \in Agents, pc'[a] = "invalidate"
        PROVE  ValidOf(owner[cur[a]])' \subseteq {cur[a]} \/ Met(owner[cur[a]])'
    <2>1. a \in Threads BY DEF Threads
    <2> QED BY <1>1, <1>2, <1>4, <2>1 DEF OfflineIsRight, ValidOf, Met
  <1>5. ASSUME NEW a \in Agents, pc'[a] = "offline"
        PROVE  ValidOf(owner[cur[a]])' = {} \/ Met(owner[cur[a]])'
    <2>1. a \in Threads BY DEF Threads
    <2> QED BY <1>1, <1>2, <1>5, <2>1 DEF OfflineIsRight, ValidOf, Met
  <1>6. \A w \in Workers : w \in Threads BY DEF Threads
  <1>7. \A a \in Agents : a \in Threads BY DEF Threads
  <1> QED BY <1>2, <1>3, <1>4, <1>5, <1>6, <1>7 DEF OfflineIsRight, ValidOf, Met

(* No session is open.                                                       *)
LEMMA InitConn == Init => ConnInv
  BY DEF Init, ConnInv, DeadSessionCovered, LeaveFollows, ListIsTrue, OfflineIsRight,
     ConnectedOrInCall, Threads

(* A new session is not yet in the table, in a call or in a leave event.    *)
LEMMA OpenSessionConn ==
  ASSUME IInv, IInv', ConnInv, NEW b \in Boards, NEW s \in Sessions, OpenSession(b, s)
  PROVE  ConnInv'
  <1> USE ConstantsAssumption DEF IInv, ConnInv, dbVars, boardVars, routerVars, linkVars, localVars,
      ghostVars, OpenSession
  <1>1. DeadSessionCovered' BY DEF TypeOK, Ownership, Roles, Routing, Assigned, LeaveFollows,
      DeadSessionCovered
  <1>2. LeaveFollows' BY DEF TypeOK, Ownership, Roles, LeaveFollows, Threads
  <1>3. ListIsTrue' BY DEF TypeOK, Ownership, Roles, ListIsTrue, Assigned, Threads
  <1>4. OfflineIsRight'
    <2>1. \A r \in leaves' : r \notin live' /\ owner'[r] \in Boards
      BY DEF OfflineIsRight, TypeOK, Ownership
    <2>2. \A u \in Threads :
            pc'[u] \in {"configure", "invalidate", "offline"} => pc[u] = pc'[u] /\ cur'[u] = cur[u]
      BY DEF TypeOK, Roles, Threads
    <2>3. \A r \in Sessions : owner[r] # NULL => owner'[r] = owner[r]
      BY DEF TypeOK
    <2> QED BY <2>1, <2>2, <2>3, OfflineKept
  <1>5. ConnectedOrInCall' BY DEF TypeOK, Ownership, ConnectedOrInCall, Met, InCall, Busy,
      Reading, Writing, Threads
  <1> QED BY <1>1, <1>2, <1>3, <1>4, <1>5

(* A board calls on a live session, and the agent has its transport.        *)
LEMMA CallAgentConn ==
  ASSUME IInv, IInv', ConnInv, NEW b \in Boards, NEW s \in Sessions, CallAgent(b, s)
  PROVE  ConnInv'
  <1> USE ConstantsAssumption DEF IInv, ConnInv, dbVars, boardVars, routerVars, linkVars, localVars,
      ghostVars, CallAgent
  <1>1. DeadSessionCovered' BY DEF TypeOK, Ownership, Roles, Routing, Assigned, LeaveFollows,
      DeadSessionCovered
  <1>2. LeaveFollows' BY DEF TypeOK, Ownership, Roles, LeaveFollows, Threads
  <1>3. ListIsTrue' BY DEF TypeOK, Ownership, Roles, ListIsTrue, Assigned, Threads
  <1>4. OfflineIsRight'
    <2>1. \A r \in leaves' : r \notin live' /\ owner'[r] \in Boards
      BY DEF OfflineIsRight, TypeOK, Ownership
    <2>2. \A u \in Threads :
            pc'[u] \in {"configure", "invalidate", "offline"} => pc[u] = pc'[u] /\ cur'[u] = cur[u]
      BY DEF TypeOK, Roles, Threads
    <2>3. \A r \in Sessions : owner[r] # NULL => owner'[r] = owner[r]
      BY DEF TypeOK
    <2> QED BY <2>1, <2>2, <2>3, OfflineKept
  <1>5. ConnectedOrInCall' BY DEF TypeOK, Ownership, ConnectedOrInCall, Met, InCall, Busy,
      Reading, Writing, Threads
  <1> QED BY <1>1, <1>2, <1>3, <1>4, <1>5

(* The leave event of a dropped session is queued, unless the agent has no  *)
(* transport.                                                               *)
LEMMA DropSessionConn ==
  ASSUME IInv, IInv', ConnInv, NEW s \in Sessions, DropSession(s)
  PROVE  ConnInv'
  <1> USE ConstantsAssumption DEF IInv, ConnInv, dbVars, boardVars, routerVars, linkVars, localVars,
      ghostVars, DropSession
  <1>1. DeadSessionCovered' BY DEF TypeOK, Ownership, Roles, Routing, Assigned, LeaveFollows,
      DeadSessionCovered
  <1>2. LeaveFollows' BY DEF TypeOK, Ownership, Roles, LeaveFollows, Threads
  <1>3. ListIsTrue' BY DEF TypeOK, Ownership, Roles, ListIsTrue, Assigned, Threads
  <1>4. OfflineIsRight'
    <2>1. \A r \in leaves' : r \notin live' /\ owner'[r] \in Boards
      BY DEF OfflineIsRight, TypeOK, Ownership
    <2>2. \A u \in Threads :
            pc'[u] \in {"configure", "invalidate", "offline"} => pc[u] = pc'[u] /\ cur'[u] = cur[u]
      BY DEF TypeOK, Roles, Threads
    <2>3. \A r \in Sessions : owner[r] # NULL => owner'[r] = owner[r]
      BY DEF TypeOK
    <2> QED BY <2>1, <2>2, <2>3, OfflineKept
  <1>5. ConnectedOrInCall' BY DEF TypeOK, Ownership, ConnectedOrInCall, Met, InCall, Busy,
      Reading, Writing, Threads
  <1> QED BY <1>1, <1>2, <1>3, <1>4, <1>5

(* A board forgets its configuration.                                       *)
LEMMA FactoryResetConn ==
  ASSUME IInv, IInv', ConnInv, NEW b \in Boards, FactoryReset(b)
  PROVE  ConnInv'
  <1> USE ConstantsAssumption DEF IInv, ConnInv, dbVars, boardVars, routerVars, linkVars, localVars,
      ghostVars, FactoryReset
  <1>1. DeadSessionCovered' BY DEF TypeOK, Ownership, Roles, Routing, Assigned, LeaveFollows,
      DeadSessionCovered
  <1>2. LeaveFollows' BY DEF TypeOK, Ownership, Roles, LeaveFollows, Threads
  <1>3. ListIsTrue' BY DEF TypeOK, Ownership, Roles, ListIsTrue, Assigned, Threads
  <1>4. OfflineIsRight'
    <2>1. \A r \in leaves' : r \notin live' /\ owner'[r] \in Boards
      BY DEF OfflineIsRight, TypeOK, Ownership
    <2>2. \A u \in Threads :
            pc'[u] \in {"configure", "invalidate", "offline"} => pc[u] = pc'[u] /\ cur'[u] = cur[u]
      BY DEF TypeOK, Roles, Threads
    <2>3. \A r \in Sessions : owner[r] # NULL => owner'[r] = owner[r]
      BY DEF TypeOK
    <2> QED BY <2>1, <2>2, <2>3, OfflineKept
  <1>5. ConnectedOrInCall' BY DEF TypeOK, Ownership, ConnectedOrInCall, Met, InCall, Busy,
      Reading, Writing, Threads
  <1> QED BY <1>1, <1>2, <1>3, <1>4, <1>5

(* What was queued for the agent is lost, and its table is to be compared.  *)
LEMMA OnDisconnectConn ==
  ASSUME IInv, IInv', ConnInv, NEW a \in Agents, OnDisconnect(a)
  PROVE  ConnInv'
  <1> USE ConstantsAssumption DEF IInv, ConnInv, dbVars, boardVars, routerVars, linkVars, localVars,
      ghostVars, OnDisconnect, Disconnect
  <1>1. DeadSessionCovered' BY DEF TypeOK, Ownership, Roles, Routing, Assigned, LeaveFollows,
      DeadSessionCovered
  <1>2. LeaveFollows' BY DEF TypeOK, Ownership, Roles, LeaveFollows, Threads
  <1>3. ListIsTrue' BY DEF TypeOK, Ownership, Roles, ListIsTrue, Assigned, Threads
  <1>4. OfflineIsRight'
    <2>1. \A r \in leaves' : r \notin live' /\ owner'[r] \in Boards
      BY DEF OfflineIsRight, TypeOK, Ownership
    <2>2. \A u \in Threads :
            pc'[u] \in {"configure", "invalidate", "offline"} => pc[u] = pc'[u] /\ cur'[u] = cur[u]
      BY DEF TypeOK, Roles, Threads
    <2>3. \A r \in Sessions : owner[r] # NULL => owner'[r] = owner[r]
      BY DEF TypeOK
    <2> QED BY <2>1, <2>2, <2>3, OfflineKept
  <1>5. ConnectedOrInCall' BY DEF TypeOK, Ownership, ConnectedOrInCall, Met, InCall, Busy,
      Reading, Writing, Threads
  <1> QED BY <1>1, <1>2, <1>3, <1>4, <1>5

(* As a lost transport for an agent; a conductor thread has no queue.       *)
LEMMA CrashConn ==
  ASSUME IInv, IInv', ConnInv, NEW t \in Threads, Crash(t)
  PROVE  ConnInv'
  <1> USE ConstantsAssumption DEF IInv, ConnInv, dbVars, boardVars, routerVars, linkVars, localVars,
      ghostVars, Crash, Disconnect, ResetLocals
  <1>1. DeadSessionCovered'
    <2> SUFFICES ASSUME NEW s \in valid \ (live \cup registering)
                 PROVE  \/ s \in leaves'
                        \/ link'[router[s]] \in {"down", "joined"}
                        \/ link'[router[s]] = "listed" /\ s \notin snap'[router[s]] /\ agent[owner[s]] = router[s]
                        \/ s \in todo'[router[s]]
                        \/ pc'[router[s]] = "invalidate" /\ cur'[router[s]] = s
                        \/ owner[s] \in met["assigning"]
      BY DEF DeadSessionCovered
    <2>1. s \in Sessions /\ router[s] \in Agents /\ router[s] \in Threads
      BY DEF TypeOK, Ownership, Routing, Threads
    <2>2. CASE router[s] = t BY <2>1, <2>2 DEF TypeOK
    <2>3. CASE router[s] # t
      <3>1. /\ link'[router[s]] = link[router[s]] /\ snap'[router[s]] = snap[router[s]]
            /\ todo'[router[s]] = todo[router[s]] /\ pc'[router[s]] = pc[router[s]]
            /\ cur'[router[s]] = cur[router[s]] /\ (s \in leaves => s \in leaves')
        BY <2>1, <2>3 DEF TypeOK
      <3> QED BY <3>1 DEF DeadSessionCovered
    <2> QED BY <2>2, <2>3
  <1>2. LeaveFollows'
    <2>a. /\ pc' = [pc EXCEPT ![t] = "idle"] /\ cur' = [cur EXCEPT ![t] = NULL]
          /\ todo' = [todo EXCEPT ![t] = {}]
          /\ pc \in [Threads -> Labels] /\ cur \in [Threads -> Sessions \cup {NULL}]
          /\ todo \in [Threads -> SUBSET Sessions] /\ UNCHANGED <<router, registering, live>>
      BY DEF TypeOK
    <2>1. ASSUME NEW r \in calls'
          PROVE  r \in calls /\ link'[router[r]] = link[router[r]] /\ (r \in leaves => r \in leaves')
      BY <2>1 DEF TypeOK, Ownership, Routing
    <2>2. ASSUME NEW c \in Agents, pc'[c] \in {"invalidate_old", "create"}
          PROVE  /\ c # t /\ pc'[c] = pc[c] /\ cur'[c] = cur[c] /\ link'[c] = link[c]
                 /\ (cur[c] \in leaves => cur[c] \in leaves')
      <3>1. c # t /\ pc'[c] = pc[c] /\ cur'[c] = cur[c] BY <2>a, <2>2 DEF Threads
      <3>2. router[cur[c]] = c BY <2>2, <3>1 DEF Roles
      <3> QED BY <3>1, <3>2 DEF TypeOK
    <2>3. \A w \in Workers : pc'[w] # "idle" => pc[w] # "idle" /\ cur'[w] = cur[w]
      BY <2>a DEF Threads
    <2>4. \A c \in Agents : todo'[c] = {} \/ (pc'[c] = pc[c] /\ todo'[c] = todo[c])
      BY <2>a DEF Threads
    <2> QED BY <2>a, <2>1, <2>2, <2>3, <2>4 DEF LeaveFollows
  <1>3. ListIsTrue' BY DEF TypeOK, Ownership, Roles, ListIsTrue, Assigned, Threads
  <1>4. OfflineIsRight'
    <2>1. \A r \in leaves' : r \notin live' /\ owner'[r] \in Boards
      BY DEF OfflineIsRight, TypeOK, Ownership
    <2>2. \A u \in Threads :
            pc'[u] \in {"configure", "invalidate", "offline"} => pc[u] = pc'[u] /\ cur'[u] = cur[u]
      BY DEF TypeOK, Roles, Threads
    <2>3. \A r \in Sessions : owner[r] # NULL => owner'[r] = owner[r]
      BY DEF TypeOK
    <2> QED BY <2>1, <2>2, <2>3, OfflineKept
  <1>5. ConnectedOrInCall' BY SMTT(30) DEF TypeOK, Ownership, ConnectedOrInCall, Met, InCall, Busy,
      Reading, Writing, Threads
  <1> QED BY <1>1, <1>2, <1>3, <1>4, <1>5

(* An agent joins its router.                                               *)
LEMMA OnJoinConn ==
  ASSUME IInv, IInv', ConnInv, NEW a \in Agents, OnJoin(a)
  PROVE  ConnInv'
  <1> USE ConstantsAssumption DEF IInv, ConnInv, dbVars, boardVars, routerVars, linkVars, localVars,
      ghostVars, OnJoin
  <1>1. DeadSessionCovered' BY DEF TypeOK, Ownership, Roles, Routing, Assigned, LeaveFollows,
      DeadSessionCovered
  <1>2. LeaveFollows' BY DEF TypeOK, Ownership, Roles, LeaveFollows, Threads
  <1>3. ListIsTrue' BY DEF TypeOK, Ownership, Roles, ListIsTrue, Assigned, Threads
  <1>4. OfflineIsRight'
    <2>1. \A r \in leaves' : r \notin live' /\ owner'[r] \in Boards
      BY DEF OfflineIsRight, TypeOK, Ownership
    <2>2. \A u \in Threads :
            pc'[u] \in {"configure", "invalidate", "offline"} => pc[u] = pc'[u] /\ cur'[u] = cur[u]
      BY DEF TypeOK, Roles, Threads
    <2>3. \A r \in Sessions : owner[r] # NULL => owner'[r] = owner[r]
      BY DEF TypeOK
    <2> QED BY <2>1, <2>2, <2>3, OfflineKept
  <1>5. ConnectedOrInCall' BY DEF TypeOK, Ownership, ConnectedOrInCall, Met, InCall, Busy,
      Reading, Writing, Threads
  <1> QED BY <1>1, <1>2, <1>3, <1>4, <1>5

(* The answer lists the sessions that are live now.                         *)
LEMMA SessionListConn ==
  ASSUME IInv, IInv', ConnInv, NEW a \in Agents, SessionList(a)
  PROVE  ConnInv'
  <1> USE ConstantsAssumption DEF IInv, ConnInv, dbVars, boardVars, routerVars, linkVars, localVars,
      ghostVars, SessionList
  <1>1. DeadSessionCovered' BY DEF TypeOK, Ownership, Roles, Routing, Assigned, LeaveFollows,
      DeadSessionCovered
  <1>2. LeaveFollows' BY DEF TypeOK, Ownership, Roles, LeaveFollows, Threads
  <1>3. ListIsTrue' BY DEF TypeOK, Ownership, Roles, ListIsTrue, Assigned, Threads
  <1>4. OfflineIsRight'
    <2>1. \A r \in leaves' : r \notin live' /\ owner'[r] \in Boards
      BY DEF OfflineIsRight, TypeOK, Ownership
    <2>2. \A u \in Threads :
            pc'[u] \in {"configure", "invalidate", "offline"} => pc[u] = pc'[u] /\ cur'[u] = cur[u]
      BY DEF TypeOK, Roles, Threads
    <2>3. \A r \in Sessions : owner[r] # NULL => owner'[r] = owner[r]
      BY DEF TypeOK
    <2> QED BY <2>1, <2>2, <2>3, OfflineKept
  <1>5. ConnectedOrInCall' BY DEF TypeOK, Ownership, ConnectedOrInCall, Met, InCall, Busy,
      Reading, Writing, Threads
  <1> QED BY <1>1, <1>2, <1>3, <1>4, <1>5

(* What is valid and not listed is visited, and what is listed is live.     *)
LEMMA UpdateSessionsConn ==
  ASSUME IInv, IInv', ConnInv, NEW a \in Agents, UpdateSessions(a)
  PROVE  ConnInv'
  <1> USE ConstantsAssumption DEF IInv, ConnInv, dbVars, boardVars, routerVars, linkVars, localVars,
      ghostVars, UpdateSessions, OldConnected, ValidList
  <1>a. /\ todo'[a] = {r \in valid : agent[owner[r]] = a} \ snap[a]
        /\ link' = [link EXCEPT ![a] = "synced"] /\ snap' = [snap EXCEPT ![a] = {}]
        /\ link[a] = "listed" /\ pc[a] = "idle" /\ pc' \in [Threads -> Labels]
        /\ \A t \in Threads \ {a} : todo'[t] = todo[t] /\ pc'[t] = pc[t]
        /\ UNCHANGED <<status, agent, valid, owner, router, registering, live, leaves, cur, met, late>>
    BY DEF TypeOK, Threads, Labels
  <1>1. DeadSessionCovered'
    <2>1. \A r \in valid \ registering :
            router[r] \in Agents /\ (agent[owner[r]] = router[r] \/ owner[r] \in met["assigning"])
      BY ConstantsAssumption DEF TypeOK, Ownership, Routing, Assigned
    <2> SUFFICES ASSUME NEW s \in valid \ (live \cup registering)
                 PROVE  \/ s \in leaves
                        \/ link'[router[s]] \in {"down", "joined"}
                        \/ link'[router[s]] = "listed" /\ s \notin snap'[router[s]] /\ agent[owner[s]] = router[s]
                        \/ s \in todo'[router[s]]
                        \/ pc'[router[s]] = "invalidate" /\ cur[router[s]] = s
                        \/ owner[s] \in met["assigning"]
      BY <1>a DEF DeadSessionCovered
    <2>2. CASE router[s] = a BY <1>a, <2>1, <2>2 DEF DeadSessionCovered, LeaveFollows
    <2>3. CASE router[s] # a BY <1>a, <2>1, <2>3 DEF DeadSessionCovered, TypeOK, Threads
    <2> QED BY <2>2, <2>3
  <1>2. LeaveFollows' BY DEF TypeOK, Ownership, Roles, LeaveFollows, Threads
  <1>3. ListIsTrue'
    <2>1. \A r \in valid \ registering : router[r] = agent[owner[r]] \/ owner[r] \in met["assigning"]
      BY ConstantsAssumption DEF TypeOK, Ownership, Routing, Assigned
    <2>2. \A r \in todo'[a] \cap (live \ registering) : r \in late \/ owner[r] \in met["assigning"]
      BY <1>a, <2>1 DEF ListIsTrue
    <2> QED BY <1>a, <2>2 DEF ListIsTrue, Assigned, TypeOK, Threads
  <1>4. OfflineIsRight'
    <2>1. \A r \in leaves' : r \notin live' /\ owner'[r] \in Boards
      BY DEF OfflineIsRight, TypeOK, Ownership
    <2>2. \A u \in Threads :
            pc'[u] \in {"configure", "invalidate", "offline"} => pc[u] = pc'[u] /\ cur'[u] = cur[u]
      BY DEF TypeOK, Roles, Threads
    <2>3. \A r \in Sessions : owner[r] # NULL => owner'[r] = owner[r]
      BY DEF TypeOK
    <2> QED BY <2>1, <2>2, <2>3, OfflineKept
  <1>5. ConnectedOrInCall' BY DEF TypeOK, Ownership, ConnectedOrInCall, Met, InCall, Busy,
      Reading, Writing, Threads
  <1> QED BY <1>1, <1>2, <1>3, <1>4, <1>5

(* The session visited is the only valid one of its board, and is gone.     *)
LEMMA VisitOldConn ==
  ASSUME IInv, IInv', ConnInv, NEW a \in Agents, NEW s \in Sessions, VisitOld(a, s)
  PROVE  ConnInv'
  <1> USE ConstantsAssumption DEF IInv, ConnInv, dbVars, boardVars, routerVars, linkVars, localVars,
      ghostVars, VisitOld
  <1>b. owner[s] \in Boards BY DEF TypeOK, Ownership
  <1>h. \A c \in Boards :
          /\ c \in met["reading"] => c \in met'["reading"]
          /\ c \in met["writing"] => c \in met'["writing"]
          /\ c \in met["leaving"] => c \in met'["leaving"]
          /\ c \in met["assigning"] => c \in met'["assigning"]
    BY <1>b, RecordedGrows DEF MetByLeave, Meetings
  <1>m. \A c \in Boards : Met(c) => Met(c)' BY <1>h DEF Met, Meetings
  <1>1. DeadSessionCovered' BY <1>h DEF TypeOK, Ownership, Roles, Routing, LeaveFollows,
      DeadSessionCovered
  <1>2. LeaveFollows' BY DEF TypeOK, Ownership, Roles, LeaveFollows, Threads
  <1>3. ListIsTrue' BY <1>h DEF TypeOK, Ownership, Roles, ListIsTrue, Assigned, Threads
  <1>4. OfflineIsRight'
    <2>1. ValidOf(owner[s]) \subseteq {s} \/ Met(owner[s])
      BY <1>b DEF SessionsAreSingle, ValidOf, Met, Meetings
    <2>2. \A t \in Threads : t # a => pc'[t] = pc[t] /\ cur'[t] = cur[t]
      BY DEF TypeOK
    <2>3. pc'[a] = "invalidate" /\ cur'[a] = s BY DEF TypeOK, Threads
    <2>4. \A t \in Threads : pc[t] \notin {"idle", "sync"} => owner[cur[t]] \in Boards
      BY DEF Ownership
    <2> QED BY <1>b, <1>m, <2>1, <2>2, <2>3, <2>4 DEF OfflineIsRight, ValidOf, Threads
  <1>5. ConnectedOrInCall'
    <2>1. \A t \in Threads, c \in Boards : InCall(t, c) => InCall(t, c)'
      BY DEF TypeOK, InCall, Busy, Reading, Writing
    <2> QED BY <1>m, <2>1 DEF ConnectedOrInCall, Ownership
  <1> QED BY <1>1, <1>2, <1>3, <1>4, <1>5

(* A session that is no longer valid needs no cover.                        *)
LEMMA SkipOldConn ==
  ASSUME IInv, IInv', ConnInv, NEW a \in Agents, NEW s \in Sessions, SkipOld(a, s)
  PROVE  ConnInv'
  <1> USE ConstantsAssumption DEF IInv, ConnInv, dbVars, boardVars, routerVars, linkVars, localVars,
      ghostVars, SkipOld
  <1>1. DeadSessionCovered' BY DEF TypeOK, Ownership, Roles, Routing, Assigned, LeaveFollows,
      DeadSessionCovered
  <1>2. LeaveFollows' BY DEF TypeOK, Ownership, Roles, LeaveFollows, Threads
  <1>3. ListIsTrue' BY DEF TypeOK, Ownership, Roles, ListIsTrue, Assigned, Threads
  <1>4. OfflineIsRight'
    <2>1. \A r \in leaves' : r \notin live' /\ owner'[r] \in Boards
      BY DEF OfflineIsRight, TypeOK, Ownership
    <2>2. \A u \in Threads :
            pc'[u] \in {"configure", "invalidate", "offline"} => pc[u] = pc'[u] /\ cur'[u] = cur[u]
      BY DEF TypeOK, Roles, Threads
    <2>3. \A r \in Sessions : owner[r] # NULL => owner'[r] = owner[r]
      BY DEF TypeOK
    <2> QED BY <2>1, <2>2, <2>3, OfflineKept
  <1>5. ConnectedOrInCall' BY DEF TypeOK, Ownership, ConnectedOrInCall, Met, InCall, Busy,
      Reading, Writing, Threads
  <1> QED BY <1>1, <1>2, <1>3, <1>4, <1>5

(* The session left is the only valid one of its board.                     *)
LEMMA BoardOnLeaveConn ==
  ASSUME IInv, IInv', ConnInv, NEW a \in Agents, NEW s \in Sessions, BoardOnLeave(a, s)
  PROVE  ConnInv'
  <1> USE ConstantsAssumption DEF IInv, ConnInv, dbVars, boardVars, routerVars, linkVars, localVars,
      ghostVars, BoardOnLeave, TakeLeave
  <1>b. owner[s] \in Boards BY DEF TypeOK, Ownership
  <1>h. \A c \in Boards :
          /\ c \in met["reading"] => c \in met'["reading"]
          /\ c \in met["writing"] => c \in met'["writing"]
          /\ c \in met["leaving"] => c \in met'["leaving"]
          /\ c \in met["assigning"] => c \in met'["assigning"]
    BY <1>b, RecordedGrows DEF MetByLeave, Meetings
  <1>m. \A c \in Boards : Met(c) => Met(c)' BY <1>h DEF Met, Meetings
  <1>1. DeadSessionCovered' BY <1>h DEF TypeOK, Ownership, Roles, Routing, LeaveFollows,
      DeadSessionCovered
  <1>2. LeaveFollows' BY DEF TypeOK, Ownership, Roles, LeaveFollows, Threads
  <1>3. ListIsTrue' BY <1>h DEF TypeOK, Ownership, Roles, ListIsTrue, Assigned, Threads
  <1>4. OfflineIsRight'
    <2>1. ValidOf(owner[s]) \subseteq {s} \/ Met(owner[s])
      BY <1>b DEF SessionsAreSingle, ValidOf, Met, Meetings
    <2>2. \A t \in Threads : t # a => pc'[t] = pc[t] /\ cur'[t] = cur[t]
      BY DEF TypeOK
    <2>3. pc'[a] = "invalidate" /\ cur'[a] = s BY DEF TypeOK, Threads
    <2>4. \A t \in Threads : pc[t] \notin {"idle", "sync"} => owner[cur[t]] \in Boards
      BY DEF Ownership
    <2> QED BY <1>b, <1>m, <2>1, <2>2, <2>3, <2>4 DEF OfflineIsRight, ValidOf, Threads
  <1>5. ConnectedOrInCall'
    <2>1. \A t \in Threads, c \in Boards : InCall(t, c) => InCall(t, c)'
      BY DEF TypeOK, InCall, Busy, Reading, Writing
    <2> QED BY <1>m, <2>1 DEF ConnectedOrInCall, Ownership
  <1> QED BY <1>1, <1>2, <1>3, <1>4, <1>5

(* A leave event of an invalid session covers nothing.                      *)
LEMMA BoardOnLeaveIgnoredConn ==
  ASSUME IInv, IInv', ConnInv, NEW a \in Agents, NEW s \in Sessions, BoardOnLeaveIgnored(a, s)
  PROVE  ConnInv'
  <1> USE ConstantsAssumption DEF IInv, ConnInv, dbVars, boardVars, routerVars, linkVars, localVars,
      ghostVars, BoardOnLeaveIgnored, TakeLeave
  <1>1. DeadSessionCovered' BY DEF TypeOK, Ownership, Roles, Routing, Assigned, LeaveFollows,
      DeadSessionCovered
  <1>2. LeaveFollows' BY DEF TypeOK, Ownership, Roles, LeaveFollows, Threads
  <1>3. ListIsTrue' BY DEF TypeOK, Ownership, Roles, ListIsTrue, Assigned, Threads
  <1>4. OfflineIsRight'
    <2>1. \A r \in leaves' : r \notin live' /\ owner'[r] \in Boards
      BY DEF OfflineIsRight, TypeOK, Ownership
    <2>2. \A u \in Threads :
            pc'[u] \in {"configure", "invalidate", "offline"} => pc[u] = pc'[u] /\ cur'[u] = cur[u]
      BY DEF TypeOK, Roles, Threads
    <2>3. \A r \in Sessions : owner[r] # NULL => owner'[r] = owner[r]
      BY DEF TypeOK
    <2> QED BY <2>1, <2>2, <2>3, OfflineKept
  <1>5. ConnectedOrInCall' BY DEF TypeOK, Ownership, ConnectedOrInCall, Met, InCall, Busy,
      Reading, Writing, Threads
  <1> QED BY <1>1, <1>2, <1>3, <1>4, <1>5

(* The session that is no longer covered is no longer valid.                *)
LEMMA InvalidateConn ==
  ASSUME IInv, IInv', ConnInv, NEW a \in Agents, Invalidate(a)
  PROVE  ConnInv'
  <1> USE ConstantsAssumption DEF IInv, ConnInv, dbVars, boardVars, routerVars, linkVars, localVars,
      ghostVars, Invalidate
  <1>1. DeadSessionCovered' BY DEF TypeOK, Ownership, Roles, Routing, Assigned, LeaveFollows,
      DeadSessionCovered
  <1>2. LeaveFollows' BY DEF TypeOK, Ownership, Roles, LeaveFollows, Threads
  <1>3. ListIsTrue' BY DEF TypeOK, Ownership, Roles, ListIsTrue, Assigned, Threads
  <1>4. OfflineIsRight'
    <2>1. \A r \in leaves' : r \notin live' /\ owner'[r] \in Boards
      BY DEF OfflineIsRight, TypeOK, Ownership
    <2>2. \A u \in Threads :
            pc'[u] \in {"configure", "invalidate", "offline"} =>
              /\ cur'[u] = cur[u]
              /\ pc[u] = pc'[u] \/ (pc'[u] = "offline" /\ pc[u] = "invalidate" /\ cur[u] \notin valid')
      BY DEF TypeOK, Roles, Threads
    <2>3. \A r \in Sessions : owner[r] # NULL => owner'[r] = owner[r]
      BY DEF TypeOK
    <2> QED BY <2>1, <2>2, <2>3, OfflineKept
  <1>5. ConnectedOrInCall' BY DEF TypeOK, Ownership, ConnectedOrInCall, Met, InCall, Busy,
      Reading, Writing, Threads
  <1> QED BY <1>1, <1>2, <1>3, <1>4, <1>5

(* OfflineIsRight: the board has no connected session.                      *)
LEMMA SetOfflineConn ==
  ASSUME IInv, IInv', ConnInv, NEW a \in Agents, SetOffline(a)
  PROVE  ConnInv'
  <1> USE ConstantsAssumption DEF IInv, ConnInv, dbVars, boardVars, routerVars, linkVars, localVars,
      ghostVars, SetOffline
  <1>1. DeadSessionCovered' BY DEF TypeOK, Ownership, Roles, Routing, Assigned, LeaveFollows,
      DeadSessionCovered
  <1>2. LeaveFollows' BY DEF TypeOK, Ownership, Roles, LeaveFollows, Threads
  <1>3. ListIsTrue' BY DEF TypeOK, Ownership, Roles, ListIsTrue, Assigned, Threads
  <1>4. OfflineIsRight'
    <2>1. \A r \in leaves' : r \notin live' /\ owner'[r] \in Boards
      BY DEF OfflineIsRight, TypeOK, Ownership
    <2>2. \A u \in Threads :
            pc'[u] \in {"configure", "invalidate", "offline"} => pc[u] = pc'[u] /\ cur'[u] = cur[u]
      BY DEF TypeOK, Roles, Threads
    <2>3. \A r \in Sessions : owner[r] # NULL => owner'[r] = owner[r]
      BY DEF TypeOK
    <2> QED BY <2>1, <2>2, <2>3, OfflineKept
  <1>5. ConnectedOrInCall'
    <2> SUFFICES ASSUME NEW s \in (valid \cap live) \ registering, ~Met(owner[s])
                 PROVE  \/ status'[owner[s]] = "online"
                        \/ owner[s] \in torn'
                        \/ \E t \in Threads : InCall(t, owner[s])'
      BY DEF ConnectedOrInCall, Met
    <2>1. owner[s] # owner[cur[a]] BY DEF OfflineIsRight, ValidOf
    <2>2. \A t \in Threads : InCall(t, owner[s]) => InCall(t, owner[s])'
      BY DEF InCall, Busy, Reading, Writing, TypeOK
    <2>3. owner[s] \in Boards BY DEF Ownership
    <2> QED BY <2>1, <2>2, <2>3 DEF ConnectedOrInCall, TypeOK
  <1> QED BY <1>1, <1>2, <1>3, <1>4, <1>5

(* The session may be gone already: its leave event follows the call.       *)
LEMMA ConnectionConn ==
  ASSUME IInv, IInv', ConnInv, NEW a \in Agents, NEW s \in Sessions, Connection(a, s)
  PROVE  ConnInv'
  <1> USE ConstantsAssumption DEF IInv, ConnInv, dbVars, boardVars, routerVars, linkVars, localVars,
      ghostVars
  <1>a. /\ pc[a] = "idle" /\ s \in calls /\ s \notin registering /\ router[s] = a
        /\ calls' = calls \ {s}
        /\ pc' \in [Threads -> Labels] /\ pc'[a] \in {"invalidate_old", "create"}
        /\ cur' \in [Threads -> Sessions \cup {NULL}] /\ cur'[a] = s
        /\ \A t \in Threads \ {a} : pc'[t] = pc[t] /\ cur'[t] = cur[t]
        /\ UNCHANGED <<status, agent, valid, owner, router, registering, live, leaves, link,
                       snap, todo, torn>>
        /\ met' = Recorded(owner[s], MetByCall(a, owner[s]))
        /\ late' = IF link[a] = "listed" THEN late \cup {s} ELSE late
    BY DEF Connection, ReadOld, TypeOK, Threads, Labels
  <1>b. owner[s] \in Boards BY <1>a DEF TypeOK, Ownership
  <1>h. \A c \in Boards :
          /\ c \in met["reading"] => c \in met'["reading"]
          /\ c \in met["writing"] => c \in met'["writing"]
          /\ c \in met["leaving"] => c \in met'["leaving"]
          /\ c \in met["assigning"] => c \in met'["assigning"]
    BY <1>a, <1>b, RecordedGrows DEF MetByCall
  <1>m. \A c \in Boards : Met(c) => Met(c)' BY <1>h DEF Met, Meetings
  <1>1. DeadSessionCovered'
    <2>1. \A r \in valid : owner[r] \in Boards /\ router[r] \in Threads
      BY DEF TypeOK, Ownership, Routing, Threads
    <2>2. \A t \in Threads : pc[t] = "invalidate" => pc'[t] = pc[t] /\ cur'[t] = cur[t]
      BY <1>a
    <2> QED BY <1>a, <1>h, <2>1, <2>2 DEF DeadSessionCovered
  <1>2. LeaveFollows'
    <2>1. \A r \in calls' : link[router[r]] # "down" /\ r \in live \cup leaves
      BY <1>a DEF LeaveFollows
    <2>2. ASSUME NEW c \in Agents, pc'[c] \in {"invalidate_old", "create"}
          PROVE  link[c] # "down" /\ cur'[c] \in live \cup leaves
      BY <1>a, <2>2 DEF LeaveFollows, Threads
    <2>3. ASSUME NEW v \in Workers, pc'[v] # "idle" PROVE cur'[v] \in registering
      BY <1>a, <2>3 DEF LeaveFollows, Threads
    <2>4. ASSUME NEW c \in Agents, pc'[c] \notin {"sync", "invalidate", "offline"}
          PROVE  todo[c] = {}
      BY <1>a, <2>4 DEF LeaveFollows, Threads
    <2> QED BY <1>a, <2>1, <2>2, <2>3, <2>4 DEF LeaveFollows
  <1>3. ListIsTrue'
    <2>1. \A c \in Agents : \A r \in todo[c] : owner[r] \in Boards BY DEF Ownership, Threads
    <2>2. \A c \in Agents : pc'[c] \in {"invalidate_old", "create"} =>
            \/ pc[c] = pc'[c] /\ cur'[c] = cur[c]
            \/ c = a /\ cur'[c] = s /\ (link[a] = "listed" => s \in late')
      BY <1>a DEF Threads
    <2> QED BY <1>a, <1>h, <2>1, <2>2 DEF ListIsTrue, Assigned
  <1>4. OfflineIsRight'
    <2>1. ASSUME NEW v \in Workers, pc'[v] = "configure"
          PROVE  pc[v] = "configure" /\ cur'[v] = cur[v] /\ owner[cur[v]] \in Boards
      BY <1>a, <2>1 DEF Ownership, Threads
    <2>2. ASSUME NEW c \in Agents, pc'[c] \in {"invalidate", "offline"}
          PROVE  pc[c] = pc'[c] /\ cur'[c] = cur[c] /\ owner[cur[c]] \in Boards
      BY <1>a, <2>2 DEF Ownership, Threads
    <2> QED BY <1>a, <1>m, <2>1, <2>2 DEF OfflineIsRight, ValidOf
  <1>5. ConnectedOrInCall'
    <2>1. \A t \in Threads, c \in Boards : InCall(t, c) => InCall(t, c)'
      BY <1>a DEF InCall, Busy, Reading, Writing
    <2> QED BY <1>a, <1>m, <2>1 DEF ConnectedOrInCall, Ownership
  <1> QED BY <1>1, <1>2, <1>3, <1>4, <1>5

(* The sessions of conductor threads are those opened to register.          *)
LEMMA RegistrationConn ==
  ASSUME IInv, IInv', ConnInv, NEW a \in Agents, NEW w \in Workers, NEW s \in Sessions, Registration(a, w, s)
  PROVE  ConnInv'
  <1> USE ConstantsAssumption DEF IInv, ConnInv, dbVars, boardVars, routerVars, linkVars, localVars,
      ghostVars
  <1>a. /\ pc[w] = "idle" /\ s \in calls /\ s \in registering /\ router[s] = a
        /\ calls' = calls \ {s}
        /\ pc' \in [Threads -> Labels] /\ pc'[w] \in {"invalidate_old", "create"}
        /\ cur' \in [Threads -> Sessions \cup {NULL}] /\ cur'[w] = s
        /\ pc[a] = "idle" /\ pc'[a] = "await" /\ w # a
        /\ \A t \in Threads \ {a, w} : pc'[t] = pc[t] /\ cur'[t] = cur[t]
        /\ UNCHANGED <<status, agent, valid, owner, router, registering, live, leaves, link,
                       snap, todo, torn, late>>
        /\ met' = Recorded(owner[s], MetByCall(w, owner[s]))
    BY DEF Registration, ReadOld, TypeOK, Threads, Labels
  <1>b. owner[s] \in Boards BY <1>a DEF TypeOK, Ownership
  <1>h. \A c \in Boards :
          /\ c \in met["reading"] => c \in met'["reading"]
          /\ c \in met["writing"] => c \in met'["writing"]
          /\ c \in met["leaving"] => c \in met'["leaving"]
          /\ c \in met["assigning"] => c \in met'["assigning"]
    BY <1>a, <1>b, RecordedGrows DEF MetByCall
  <1>m. \A c \in Boards : Met(c) => Met(c)' BY <1>h DEF Met, Meetings
  <1>1. DeadSessionCovered'
    <2>1. \A r \in valid : owner[r] \in Boards /\ router[r] \in Threads
      BY DEF TypeOK, Ownership, Routing, Threads
    <2>2. \A t \in Threads : pc[t] = "invalidate" => pc'[t] = pc[t] /\ cur'[t] = cur[t]
      BY <1>a
    <2> QED BY <1>a, <1>h, <2>1, <2>2 DEF DeadSessionCovered
  <1>2. LeaveFollows'
    <2>1. \A r \in calls' : link[router[r]] # "down" /\ r \in live \cup leaves
      BY <1>a DEF LeaveFollows
    <2>2. ASSUME NEW c \in Agents, pc'[c] \in {"invalidate_old", "create"}
          PROVE  link[c] # "down" /\ cur'[c] \in live \cup leaves
      BY <1>a, <2>2 DEF LeaveFollows, Threads
    <2>3. ASSUME NEW v \in Workers, pc'[v] # "idle" PROVE cur'[v] \in registering
      BY <1>a, <2>3 DEF LeaveFollows, Threads
    <2>4. ASSUME NEW c \in Agents, pc'[c] \notin {"sync", "invalidate", "offline"}
          PROVE  todo[c] = {}
      BY <1>a, <2>4 DEF LeaveFollows, Threads
    <2> QED BY <1>a, <2>1, <2>2, <2>3, <2>4 DEF LeaveFollows
  <1>3. ListIsTrue'
    <2>1. \A c \in Agents : \A r \in todo[c] : owner[r] \in Boards BY DEF Ownership, Threads
    <2>2. \A c \in Agents : pc'[c] \in {"invalidate_old", "create"} =>
            \/ pc[c] = pc'[c] /\ cur'[c] = cur[c]
            \/ c = a /\ cur'[c] = s /\ (link[a] = "listed" => s \in late')
      BY <1>a DEF Threads
    <2> QED BY <1>a, <1>h, <2>1, <2>2 DEF ListIsTrue, Assigned
  <1>4. OfflineIsRight'
    <2>1. ASSUME NEW v \in Workers, pc'[v] = "configure"
          PROVE  pc[v] = "configure" /\ cur'[v] = cur[v] /\ owner[cur[v]] \in Boards
      BY <1>a, <2>1 DEF Ownership, Threads
    <2>2. ASSUME NEW c \in Agents, pc'[c] \in {"invalidate", "offline"}
          PROVE  pc[c] = pc'[c] /\ cur'[c] = cur[c] /\ owner[cur[c]] \in Boards
      BY <1>a, <2>2 DEF Ownership, Threads
    <2> QED BY <1>a, <1>m, <2>1, <2>2 DEF OfflineIsRight, ValidOf
  <1>5. ConnectedOrInCall'
    <2>1. \A t \in Threads, c \in Boards : InCall(t, c) => InCall(t, c)'
      BY <1>a DEF InCall, Busy, Reading, Writing
    <2> QED BY <1>a, <1>m, <2>1 DEF ConnectedOrInCall, Ownership
  <1> QED BY <1>1, <1>2, <1>3, <1>4, <1>5

(* The agent stops waiting for the conductor.                               *)
LEMMA RpcTimeoutConn ==
  ASSUME IInv, IInv', ConnInv, NEW a \in Agents, RpcTimeout(a)
  PROVE  ConnInv'
  <1> USE ConstantsAssumption DEF IInv, ConnInv, dbVars, boardVars, routerVars, linkVars, localVars,
      ghostVars, RpcTimeout
  <1>1. DeadSessionCovered' BY DEF TypeOK, Ownership, Roles, Routing, Assigned, LeaveFollows,
      DeadSessionCovered
  <1>2. LeaveFollows' BY DEF TypeOK, Ownership, Roles, LeaveFollows, Threads
  <1>3. ListIsTrue' BY DEF TypeOK, Ownership, Roles, ListIsTrue, Assigned, Threads
  <1>4. OfflineIsRight'
    <2>1. \A r \in leaves' : r \notin live' /\ owner'[r] \in Boards
      BY DEF OfflineIsRight, TypeOK, Ownership
    <2>2. \A u \in Threads :
            pc'[u] \in {"configure", "invalidate", "offline"} => pc[u] = pc'[u] /\ cur'[u] = cur[u]
      BY DEF TypeOK, Roles, Threads
    <2>3. \A r \in Sessions : owner[r] # NULL => owner'[r] = owner[r]
      BY DEF TypeOK
    <2> QED BY <2>1, <2>2, <2>3, OfflineKept
  <1>5. ConnectedOrInCall' BY DEF TypeOK, Ownership, ConnectedOrInCall, Met, InCall, Busy,
      Reading, Writing, Threads
  <1> QED BY <1>1, <1>2, <1>3, <1>4, <1>5

(* connection or registration invalidates the old session.                  *)
LEMMA InvalidateOldConn ==
  ASSUME IInv, IInv', ConnInv, NEW t \in Threads, InvalidateOld(t)
  PROVE  ConnInv'
  <1> USE ConstantsAssumption DEF IInv, ConnInv, dbVars, boardVars, routerVars, linkVars, localVars,
      ghostVars, InvalidateOld
  <1>1. DeadSessionCovered' BY DEF TypeOK, Ownership, Roles, Routing, Assigned, LeaveFollows,
      DeadSessionCovered
  <1>2. LeaveFollows' BY DEF TypeOK, Ownership, Roles, LeaveFollows, Threads
  <1>3. ListIsTrue' BY DEF TypeOK, Ownership, Roles, ListIsTrue, Assigned, Threads
  <1>4. OfflineIsRight'
    <2>1. \A r \in leaves' : r \notin live' /\ owner'[r] \in Boards
      BY DEF OfflineIsRight, TypeOK, Ownership
    <2>2. \A u \in Threads :
            pc'[u] \in {"configure", "invalidate", "offline"} => pc[u] = pc'[u] /\ cur'[u] = cur[u]
      BY DEF TypeOK, Roles, Threads
    <2>3. \A r \in Sessions : owner[r] # NULL => owner'[r] = owner[r]
      BY DEF TypeOK
    <2> QED BY <2>1, <2>2, <2>3, OfflineKept
  <1>5. ConnectedOrInCall' BY DEF TypeOK, Ownership, ConnectedOrInCall, Met, InCall, Busy,
      Reading, Writing, Threads
  <1> QED BY <1>1, <1>2, <1>3, <1>4, <1>5

(* A created session is live and listed, or has its leave event waiting.    *)
LEMMA CreateSessionConn ==
  ASSUME IInv, IInv', ConnInv, NEW t \in Threads, CreateSession(t)
  PROVE  ConnInv'
  <1> USE ConstantsAssumption DEF IInv, ConnInv, dbVars, boardVars, routerVars, linkVars, localVars,
      ghostVars, CreateSession
  <1>a. /\ pc[t] = "create" /\ valid' = valid \cup {cur[t]} /\ cur[t] \in Sessions
        /\ owner[cur[t]] \in Boards
        /\ \A u \in Threads : u # t => pc'[u] = pc[u]
        /\ pc'[t] = IF t \in Agents THEN "online" ELSE "configure"
        /\ t \in Agents => router[cur[t]] = t
        /\ ValidOf(owner[cur[t]]) = {} \/ owner[cur[t]] \in met["reading"]
        /\ UNCHANGED <<status, agent, owner, router, registering, live, leaves, link, snap,
                       calls, todo, cur, torn, met, late>>
    <2>1. /\ pc[t] = "create" /\ pc' = [pc EXCEPT ![t] = IF t \in Agents THEN "online" ELSE "configure"]
          /\ pc \in [Threads -> Labels]
      BY DEF TypeOK
    <2>2. /\ \A u \in Threads : u # t => pc'[u] = pc[u]
          /\ pc'[t] = IF t \in Agents THEN "online" ELSE "configure"
      BY <2>1
    <2>3. cur[t] \in Sessions /\ owner[cur[t]] \in Boards BY <2>1 DEF Ownership
    <2>4. t \in Agents => router[cur[t]] = t BY <2>1 DEF Roles
    <2>5. ValidOf(owner[cur[t]]) = {} \/ owner[cur[t]] \in met["reading"] BY <2>1 DEF Progress
    <2> QED BY <2>1, <2>2, <2>3, <2>4, <2>5
  <1>1. DeadSessionCovered'
    <2> SUFFICES ASSUME NEW s \in valid' \ (live \cup registering)
                 PROVE  \/ s \in leaves
                        \/ link[router[s]] \in {"down", "joined"}
                        \/ link[router[s]] = "listed" /\ s \notin snap[router[s]] /\ agent[owner[s]] = router[s]
                        \/ s \in todo[router[s]]
                        \/ pc'[router[s]] = "invalidate" /\ cur[router[s]] = s
                        \/ owner[s] \in met["assigning"]
      BY <1>a DEF DeadSessionCovered
    <2>1. CASE s = cur[t] BY <1>a, <2>1 DEF LeaveFollows, Threads
    <2>2. CASE s # cur[t]
      <3>1. router[s] \in Threads BY <1>a, <2>2 DEF TypeOK, Ownership, Routing, Threads
      <3> QED BY <1>a, <2>2, <3>1 DEF DeadSessionCovered
    <2> QED BY <2>1, <2>2
  <1>2. LeaveFollows' BY DEF TypeOK, Ownership, Roles, LeaveFollows, Threads
  <1>3. ListIsTrue'
    <2>1. ASSUME NEW a \in Agents, NEW s \in (valid' \cap live) \ registering,
                 link[a] = "listed", router[s] = a
          PROVE  s \in snap[a] \cup late
      <3>1. CASE s = cur[t]
        <4>1. t \in Agents BY <1>a, <2>1, <3>1 DEF LeaveFollows, Threads
        <4> QED BY <1>a, <2>1, <3>1, <4>1 DEF ListIsTrue
      <3>2. CASE s # cur[t] BY <1>a, <2>1, <3>2 DEF ListIsTrue
      <3> QED BY <3>1, <3>2
    <2>2. \A a \in Agents : pc'[a] \in {"invalidate_old", "create"} => pc'[a] = pc[a]
      BY <1>a DEF Threads
    <2> QED BY <1>a, <2>1, <2>2 DEF ListIsTrue, Assigned
  <1>4. OfflineIsRight'
    <2>a. InCall(t, owner[cur[t]]) BY <1>a DEF InCall, Busy, Reading
    <2>b. \A c \in Boards : owner[cur[t]] # c => ValidOf(c)' = ValidOf(c)
      BY <1>a DEF ValidOf
    <2>1. ASSUME NEW w \in Workers, pc'[w] = "configure"
          PROVE  ValidOf(owner[cur[w]])' \subseteq {cur[w]} \/ Met(owner[cur[w]])
      <3>1. CASE w = t BY <1>a, <3>1 DEF ValidOf, Met, Meetings
      <3>2. CASE w # t
        <4>1. pc[w] = "configure" /\ owner[cur[w]] \in Boards /\ w \in Threads
          BY <1>a, <2>1, <3>2 DEF Ownership, Threads
        <4>2. CASE owner[cur[w]] = owner[cur[t]]
          <5>1. InCall(w, owner[cur[t]]) BY <4>1, <4>2 DEF InCall, Busy, Writing
          <5> QED BY <2>a, <3>2, <4>1, <4>2, <5>1 DEF Meeting, CallsMet, Met, Meetings
        <4>3. CASE owner[cur[w]] # owner[cur[t]] BY <1>a, <4>1, <4>3 DEF OfflineIsRight, ValidOf
        <4> QED BY <4>2, <4>3
      <3> QED BY <3>1, <3>2
    <2>2. ASSUME NEW a \in Agents, pc'[a] \in {"invalidate", "offline"}
          PROVE  /\ pc[a] = pc'[a]
                 /\ ValidOf(owner[cur[a]])' = ValidOf(owner[cur[a]]) \/ Met(owner[cur[a]])
      <3>1. pc[a] = pc'[a] /\ a # t /\ owner[cur[a]] \in Boards /\ a \in Threads
        BY <1>a, <2>2 DEF Ownership, Threads
      <3>2. CASE owner[cur[a]] = owner[cur[t]]
        <4>1. Busy(a, owner[cur[t]], Leaving) BY <2>2, <3>1, <3>2 DEF Busy, Leaving
        <4> QED BY <2>a, <3>1, <3>2, <4>1 DEF Meeting, Met, Meetings
      <3>3. CASE owner[cur[a]] # owner[cur[t]] BY <1>a, <3>1, <3>3 DEF ValidOf
      <3> QED BY <3>1, <3>2, <3>3
    <2> QED BY <1>a, <2>1, <2>2 DEF OfflineIsRight, Met
  <1>5. ConnectedOrInCall'
    <2>1. \A u \in Threads, c \in Boards : InCall(u, c) => InCall(u, c)'
      BY <1>a DEF InCall, Busy, Reading, Writing
    <2>2. InCall(t, owner[cur[t]])' BY <1>a DEF InCall, Busy, Writing
    <2> QED BY <1>a, <2>1, <2>2 DEF ConnectedOrInCall, Met, Ownership
  <1> QED BY <1>1, <1>2, <1>3, <1>4, <1>5

(* connection sets the board ONLINE.                                        *)
LEMMA SetOnlineConn ==
  ASSUME IInv, IInv', ConnInv, NEW a \in Agents, SetOnline(a)
  PROVE  ConnInv'
  <1> USE ConstantsAssumption DEF IInv, ConnInv, dbVars, boardVars, routerVars, linkVars, localVars,
      ghostVars, SetOnline
  <1>1. DeadSessionCovered' BY DEF TypeOK, Ownership, Roles, Routing, Assigned, LeaveFollows,
      DeadSessionCovered
  <1>2. LeaveFollows' BY DEF TypeOK, Ownership, Roles, LeaveFollows, Threads
  <1>3. ListIsTrue' BY DEF TypeOK, Ownership, Roles, ListIsTrue, Assigned, Threads
  <1>4. OfflineIsRight'
    <2>1. \A r \in leaves' : r \notin live' /\ owner'[r] \in Boards
      BY DEF OfflineIsRight, TypeOK, Ownership
    <2>2. \A u \in Threads :
            pc'[u] \in {"configure", "invalidate", "offline"} => pc[u] = pc'[u] /\ cur'[u] = cur[u]
      BY DEF TypeOK, Roles, Threads
    <2>3. \A r \in Sessions : owner[r] # NULL => owner'[r] = owner[r]
      BY DEF TypeOK
    <2> QED BY <2>1, <2>2, <2>3, OfflineKept
  <1>5. ConnectedOrInCall'
    <2>1. \A t \in Threads, c \in Boards : InCall(t, c) /\ t # a => InCall(t, c)'
      BY DEF TypeOK, InCall, Busy, Reading, Writing
    <2>2. \A c \in Boards : InCall(a, c) => status'[c] = "online"
      BY DEF TypeOK, InCall, Busy
    <2>3. \A c \in Boards : status[c] = "online" => status'[c] = "online"
      BY DEF TypeOK
    <2>4. \A c \in Boards : c \in torn => c \in torn' \/ status'[c] = "online"
      BY DEF TypeOK
    <2> QED BY <2>1, <2>2, <2>3, <2>4 DEF ConnectedOrInCall, Met, Ownership
  <1> QED BY <1>1, <1>2, <1>3, <1>4, <1>5

(* The only valid session of the board is the one opened to register.       *)
LEMMA ConfigureConn ==
  ASSUME IInv, IInv', ConnInv, NEW w \in Workers, Configure(w)
  PROVE  ConnInv'
  <1> USE ConstantsAssumption DEF IInv, ConnInv, dbVars, boardVars, routerVars, linkVars, localVars,
      ghostVars
  <1>a. /\ pc[w] = "configure" /\ cur[w] \in Sessions /\ owner[cur[w]] \in Boards
        /\ status' = [status EXCEPT ![owner[cur[w]]] = "offline"]
        /\ torn' = torn \ {owner[cur[w]]}
        /\ UNCHANGED <<valid, owner, router, registering, live, leaves, link, snap, calls, todo, met, late>>
    BY DEF Configure, Ownership, Threads
  <1>b. /\ pc' \in [Threads -> Labels]
        /\ \A t \in Threads :
             \/ pc'[t] = "idle" /\ (t = w \/ pc[t] = "await")
             \/ t # w /\ pc'[t] = pc[t] /\ cur'[t] = cur[t]
    <2>t. RegAgent \in Threads /\ w \in Threads /\ w # RegAgent BY DEF Threads
    <2>0. /\ pc \in [Threads -> Labels] /\ "idle" \in Labels
          /\ cur \in [Threads -> Sessions \cup {NULL}]
      BY DEF TypeOK, Labels
    <2> HIDE DEF IInv, ConnInv
    <2>1. CASE /\ pc[RegAgent] = "await"
               /\ pc' = [pc EXCEPT ![w] = "idle", ![RegAgent] = "idle"]
               /\ cur' = [cur EXCEPT ![w] = NULL, ![RegAgent] = NULL]
      BY <2>t, <2>0, <2>1
    <2>2. CASE /\ pc' = [pc EXCEPT ![w] = "idle"]
               /\ cur' = [cur EXCEPT ![w] = NULL]
      BY <2>t, <2>0, <2>2
    <2> QED BY <2>1, <2>2 DEF Configure
  <1>1. DeadSessionCovered'
    <2> SUFFICES ASSUME NEW s \in valid \ (live \cup registering)
                 PROVE  \/ s \in leaves
                        \/ link[router[s]] \in {"down", "joined"}
                        \/ link[router[s]] = "listed" /\ s \notin snap[router[s]] /\ agent'[owner[s]] = router[s]
                        \/ s \in todo[router[s]]
                        \/ pc'[router[s]] = "invalidate" /\ cur'[router[s]] = s
                        \/ owner[s] \in met["assigning"]
      BY <1>a DEF DeadSessionCovered
    <2>1. router[s] \in Threads /\ (agent'[owner[s]] = router[s] \/ owner[s] \in met["assigning"])
      BY <1>a DEF TypeOK, Ownership, Routing, Assigned, Threads
    <2>2. pc[router[s]] = "invalidate" /\ cur[router[s]] = s =>
            pc'[router[s]] = "invalidate" /\ cur'[router[s]] = s
      BY <1>a, <1>b, <2>1
    <2> QED BY <2>1, <2>2 DEF DeadSessionCovered
  <1>2. LeaveFollows' BY <1>a, <1>b DEF TypeOK, Ownership, Roles, LeaveFollows, Threads
  <1>3. ListIsTrue'
    BY <1>a, <1>b DEF TypeOK, Ownership, Roles, ListIsTrue, Assigned, Threads
  <1>4. OfflineIsRight'
    <2>1. \A r \in leaves' : r \notin live' /\ owner'[r] \in Boards
      BY <1>a DEF OfflineIsRight
    <2>2. \A u \in Threads :
            pc'[u] \in {"configure", "invalidate", "offline"} => pc[u] = pc'[u] /\ cur'[u] = cur[u]
      BY <1>b
    <2> QED BY <1>a, <2>1, <2>2, OfflineKept
  <1>5. ConnectedOrInCall'
    <2> SUFFICES ASSUME NEW s \in (valid \cap live) \ registering, ~Met(owner[s])
                 PROVE  \/ status'[owner[s]] = "online"
                        \/ owner[s] \in torn'
                        \/ \E t \in Threads : InCall(t, owner[s])'
      BY <1>a DEF ConnectedOrInCall, Met
    <2>1. owner[s] # owner[cur[w]]
      <3>1. s # cur[w] BY <1>a DEF LeaveFollows
      <3> QED BY <1>a, <3>1 DEF OfflineIsRight, ValidOf
    <2>2. \A t \in Threads : InCall(t, owner[s]) => InCall(t, owner[s])'
      BY <1>a, <1>b, <2>1 DEF InCall, Busy, Reading, Writing
    <2>3. owner[s] \in Boards BY DEF Ownership
    <2> QED BY <1>a, <2>1, <2>2, <2>3 DEF ConnectedOrInCall, TypeOK
  <1> QED BY <1>1, <1>2, <1>3, <1>4, <1>5

(* A step that changes no variable.                                          *)
LEMMA StutterConn == ConnInv /\ UNCHANGED vars => ConnInv'
  <1> SUFFICES ASSUME ConnInv, UNCHANGED vars PROVE ConnInv'
    OBVIOUS
  <1> USE DEF ConnInv, vars, dbVars, boardVars, routerVars, linkVars, localVars, ghostVars
  <1>1. DeadSessionCovered' BY DEF DeadSessionCovered
  <1>2. LeaveFollows' BY DEF LeaveFollows
  <1>3. ListIsTrue' BY DEF ListIsTrue, Assigned
  <1>4. OfflineIsRight' BY DEF OfflineIsRight, ValidOf, Met
  <1>5. ConnectedOrInCall' BY DEF ConnectedOrInCall, Met, InCall, Busy
  <1> QED BY <1>1, <1>2, <1>3, <1>4, <1>5

(* Every step of the system keeps ConnInv.                                   *)
LEMMA NextConn == ASSUME IInv, IInv', ConnInv, [Next]_vars PROVE ConnInv'
  <1>1. CASE UNCHANGED vars
    BY <1>1, StutterConn
  <1>2. ASSUME NEW b \in Boards, NEW s \in Sessions, OpenSession(b, s) \/ CallAgent(b, s)
        PROVE  ConnInv'
    BY <1>2, OpenSessionConn, CallAgentConn
  <1>3. ASSUME NEW s \in Sessions, DropSession(s) PROVE ConnInv'
    BY <1>3, DropSessionConn
  <1>4. ASSUME NEW b \in Boards, FactoryReset(b) PROVE ConnInv'
    BY <1>4, FactoryResetConn
  <1>5. ASSUME NEW a \in Agents, OnDisconnect(a) \/ SessionList(a) \/ AgentStep(a)
        PROVE  ConnInv'
    <2>1. ASSUME NEW s \in Sessions,
                 \/ VisitOld(a, s) \/ SkipOld(a, s) \/ BoardOnLeave(a, s)
                 \/ BoardOnLeaveIgnored(a, s) \/ Connection(a, s)
          PROVE  ConnInv'
      BY <2>1, VisitOldConn, SkipOldConn, BoardOnLeaveConn, BoardOnLeaveIgnoredConn, ConnectionConn
    <2>2. CASE \/ OnDisconnect(a) \/ SessionList(a) \/ OnJoin(a) \/ UpdateSessions(a)
               \/ Invalidate(a) \/ SetOffline(a) \/ SetOnline(a) \/ RpcTimeout(a)
      BY <2>2, OnDisconnectConn, SessionListConn, OnJoinConn, UpdateSessionsConn,
         InvalidateConn, SetOfflineConn, SetOnlineConn, RpcTimeoutConn
    <2> QED BY <1>5, <2>1, <2>2 DEF AgentStep
  <1>6. ASSUME NEW w \in Workers, WorkerStep(w) PROVE ConnInv'
    BY <1>6, RegistrationConn, ConfigureConn DEF WorkerStep
  <1>7. ASSUME NEW t \in Threads, CallStep(t) \/ Crash(t) PROVE ConnInv'
    BY <1>7, InvalidateOldConn, CreateSessionConn, CrashConn DEF CallStep
  <1> QED BY <1>1, <1>2, <1>3, <1>4, <1>5, <1>6, <1>7 DEF Next

(* Both invariants always hold.                                              *)
THEOREM ConnInductive == Spec => []ConnInv
  <1>1. IInv /\ IInv' /\ ConnInv /\ [Next]_vars => ConnInv'
    BY NextConn
  <1> QED BY <1>1, InitConn, Inductive, PTL DEF Spec

(* A valid session the router no longer lists is never forgotten, for any    *)
(* number of boards, agents and lost transports, and although a call may be  *)
(* handled after its session is gone: on_leave or update_sessions is still   *)
(* to see it, unless two registrations at once gave its board another agent. *)
THEOREM NoDeadSessionForgotten == Spec => []DeadSessionCovered
  <1>1. ConnInv => DeadSessionCovered
    BY DEF ConnInv
  <1> QED BY <1>1, ConnInductive, PTL

(* update_sessions never sets out to invalidate a session the router lists,  *)
(* but for those connected between the router's answer and its use (which    *)
(* sessions_stale shows), and boards given another agent.                    *)
THEOREM OldConnectedAreLate == Spec => OldConnectedIsLate
  <1>1. ASSUME ConnInv', [Next]_vars
        PROVE  [\A a \in Agents : UpdateSessions(a) =>
                  \A s \in todo'[a] \cap (live \ registering) :
                    s \in late \/ owner[s] \in met["assigning"]]_vars
    <2>1. ASSUME NEW a \in Agents, UpdateSessions(a)
          PROVE  \A s \in todo'[a] \cap (live \ registering) :
                   s \in late \/ owner[s] \in met["assigning"]
      BY <1>1, <2>1 DEF ConnInv, ListIsTrue, Assigned, UpdateSessions, routerVars, ghostVars
    <2> QED BY <2>1
  <1>2. ConnInv' /\ [Next]_vars =>
          [\A a \in Agents : UpdateSessions(a) =>
             \A s \in todo'[a] \cap (live \ registering) :
               s \in late \/ owner[s] \in met["assigning"]]_vars
    BY <1>1
  <1> QED BY <1>2, ConnInductive, PTL DEF Spec, OldConnectedIsLate

(* With any number of agents a connected board is ONLINE unless a handler is *)
(* busy with it, was killed halfway, or handlers for it have met: the leave  *)
(* event of an old session never takes a board OFFLINE that has connected    *)
(* again.                                                                    *)
THEOREM ConnectedBoardIsOnline == Spec => []ConnectedIsOnline
  <1>1. ASSUME IInv, ConnInv PROVE ConnectedIsOnline
    <2>1. \A t \in Threads : pc[t] \notin {"idle", "sync"} => cur[t] # NULL
      BY <1>1, ConstantsAssumption DEF IInv, Ownership
    <2> QED BY <1>1, <2>1 DEF ConnInv, ConnectedOrInCall, ConnectedIsOnline, InCall, Busy,
         Reading, Writing
  <1>2. IInv /\ ConnInv => ConnectedIsOnline
    BY <1>1
  <1> QED BY <1>2, Inductive, ConnInductive, PTL
=============================================================================
