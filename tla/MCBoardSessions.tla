--------------------------- MODULE MCBoardSessions ---------------------------
(* Instances of BoardSessions for TLC: small sets of model values. *)
EXTENDS BoardSessions, FiniteSets, TLC

CONSTANT w1

(* Nothing tells the sessions apart. *)
Symmetry == Permutations(Sessions)

(* Two instances in one: registrations run at once, and two sessions are    *)
(* opened; or one thread runs them, with as many sessions as there are.     *)
VARIABLE overlap

Opened == {s \in Sessions : owner[s] # NULL}
WithinMix ==
  IF overlap THEN Cardinality(Opened) <= 2 ELSE \A w \in Workers \ {w1} : pc[w] = "idle"

MixInit == Init /\ overlap \in BOOLEAN
MixNext == Next /\ UNCHANGED overlap /\ WithinMix'
MixSpec == MixInit /\ [][MixNext]_<<vars, overlap>>
=============================================================================
