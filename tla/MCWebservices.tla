--------------------------- MODULE MCWebservices ---------------------------
(* Instances of Webservices for TLC. *)
EXTENDS Webservices, TLC

CONSTANT a1

(* All boards are on one agent. *)
OneAgent == [b \in Boards |-> a1]

(* Nothing tells workers, boards, names of boards or public ports apart. *)
Symmetry == Permutations(Workers) \cup Permutations(Boards)
            \cup Permutations(Dns) \cup Permutations(Ports)

(* Four instances in one: two operations at once that enable and disable   *)
(* the module; two that enable one name at once; one at a time of which any *)
(* step may raise; and one of any kind at a time on one board. `mix` says   *)
(* which a behaviour is made of.                                            *)
VARIABLE mix

Mixes ==
  LET module == {"enable", "disable"} IN
  {[kinds |-> module, workers |-> Workers, boards |-> Boards, dns |-> Dns, dirty |-> 0]}
  \cup {[kinds |-> module, workers |-> Workers, boards |-> Boards, dns |-> {d},
         dirty |-> 1] : d \in Dns}
  \cup {[kinds |-> module, workers |-> {w}, boards |-> Boards, dns |-> Dns,
         dirty |-> MaxDirty] : w \in Workers}
  \cup {[kinds |-> module \cup {"expose", "unexpose"}, workers |-> {w},
         boards |-> {b}, dns |-> {d}, dirty |-> 0] : w \in Workers, b \in Boards, d \in Dns}

WithinMix ==
  /\ Cardinality(dirty) <= mix.dirty
  /\ \A w \in mix.workers : op[w] # NULL =>
       op[w].kind \in mix.kinds /\ op[w].board \in mix.boards /\ op[w].dns \in mix.dns

MixInit == Init /\ mix \in Mixes
MixNext == (\E w \in mix.workers : Step(w) \/ Call(w)) /\ UNCHANGED mix /\ WithinMix'
MixSpec == MixInit /\ [][MixNext]_<<vars, mix>>
=============================================================================
