--------------------------- MODULE MCServicePorts ---------------------------
(* Instances of ServicePorts for TLC. *)
EXTENDS ServicePorts, TLC

(* Nothing tells boards, services, ports or workers apart. *)
Symmetry == Permutations(Boards) \cup Permutations(Services)
            \cup Permutations(Ports) \cup Permutations(Workers)

(* Two instances in one: one service on each board, and all services on one *)
(* board. `catalogue` holds what may be exposed.                            *)
VARIABLE catalogue

MixInit == Init /\ catalogue \in {Boards \X {s} : s \in Services} \cup {{b} \X Services : b \in Boards}
MixNext == Next /\ UNCHANGED catalogue /\ \A w \in Workers : job'[w] \in catalogue \cup {NULL}
MixSpec == MixInit /\ [][MixNext]_<<vars, catalogue>>
=============================================================================
