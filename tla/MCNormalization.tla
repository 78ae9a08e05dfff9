---------------------------- MODULE MCNormalization ----------------------------
(* Instances of Normalization for TLC. *)
EXTENDS Normalization, TLC

CONSTANTS deals, deal_associations, w1, w2, r1

OneType == { << deals >> }

DealTables == [o \in ObjectTypes |-> { deals, deal_associations }]

SavingOptions == { { "save" }, { "save", "upload" } }

SaveOnly == { { "save" } }

\* Bounds of the races: of the handlers only those that make a second thread and that
\* of removal, the request comes when both threads are there and a raw file has been
\* written, with no handler at work but a removal, a second one when one of the threads has
\* ended too, and no heartbeat ages, which only crash detection looks at.
Races ==
    /\ \A h \in Handlers : hpc[h] \notin { "cancel", "detect" }
    /\ heartbeat # "stale"
    /\ asked > 1 => \E w \in Workers : pc[w] = "done"
    /\ asked > 0 => /\ \A w \in Workers : pc[w] # "idle"
                    /\ \A h \in Handlers : hpc[h] \in { "idle", "remove", "rmtree" }
                    /\ ~RowExists \/ \E t \in ObjectTypes : raw[t] # {}

RacesSpec == NInit /\ [][NNext /\ Races']_nvars

Symmetry == Permutations(Workers)
===============================================================================
