---------------------------- MODULE UnlockedProofs ----------------------------
(***************************************************************************)
(* Theorems about UnlockedLifecycle, for any set of agents: what the row   *)
(* of a job keeps of its state machine under any interleaving, and all of  *)
(* it when operations do not overlap.                                      *)
(***************************************************************************)
EXTENDS UnlockedLifecycle, TLAPS

\* No move leads to PENDING.
Intents == (JobStatus \ { "PENDING" }) \cup {"none"}

\* Types of the row.
RowTypeOK ==
    /\ state \in JobStatus \cup { "NONE", "GONE" }
    /\ intent \in [Agents -> Intents]

\* Before there is a job nobody has looked at it, and at a new one everybody has found
\* one of the first moves.
Beginning ==
    /\ state = "NONE" => Quiet
    /\ state = "PENDING" => \A a \in Agents : intent[a] \in VALID_TRANSITIONS.PENDING \cup {"none"}

RowInv == RowTypeOK /\ Beginning

\* The allowed moves are into statuses, never into PENDING and never out of a terminal one.
LEMMA MovesLemma ==
    ASSUME NEW from \in JobStatus, NEW to, CanMove(from, to)
    PROVE  /\ to \in JobStatus \ { "PENDING" }
           /\ from \notin TERMINAL_STATES
           /\ from = "PENDING" => to \in VALID_TRANSITIONS.PENDING
  BY DEF CanMove, JobStatus, VALID_TRANSITIONS, TERMINAL_STATES

\* The strings of the model that are no statuses.
LEMMA NoStatus == { "NONE", "GONE", "none" } \cap JobStatus = {}
  BY DEF JobStatus

\* Each step, by what becomes of the row and of the intents.
LEMMA UnlockedSteps ==
    ASSUME RowTypeOK, [Next]_uvars
    PROVE  \/ state = "NONE" /\ state' = "PENDING" /\ intent' = intent
           \/ state \in JobStatus /\ state' = "GONE" /\ intent' = intent
           \/ /\ state' = state
              /\ intent' \in [Agents -> Intents]
              /\ \A a \in Agents : intent'[a] \in { intent[a], "none" }
           \/ /\ state \in JobStatus /\ state' = state
              /\ \E a \in Agents, to \in Intents :
                   CanMove(state, to) /\ intent' = [intent EXCEPT ![a] = to]
           \/ /\ state \in JobStatus
              /\ \E a \in Agents, next \in Intents :
                   /\ intent[a] # "none" /\ state' = intent[a]
                   /\ next # "none" => CanMove(state', next)
                   /\ intent' = [intent EXCEPT ![a] = next]
<1>1. CASE Create \/ Delete
  BY <1>1 DEF Create, Delete
<1>2. CASE \E a \in Agents : Check(a)
  BY <1>2, MovesLemma DEF Check, Intents
<1>3. CASE \E a \in Agents : Write(a)
  <2>1. PICK a \in Agents : Write(a)
    BY <1>3
  <2>2. PICK next \in JobStatus \cup {"none"} :
          /\ next # "none" => CanMove(state', next)
          /\ intent' = [intent EXCEPT ![a] = next]
    BY <2>1 DEF Write
  <2>3. state' \in JobStatus
    BY <2>1 DEF Write, RowTypeOK, Intents
  <2>4. next \in Intents
    BY <2>2, <2>3, MovesLemma DEF Intents
  <2> QED
    BY <2>1, <2>2, <2>4 DEF Write
<1>4. ASSUME NEW S \in SUBSET Agents, GiveUp(S)
      PROVE  /\ state' = state
             /\ intent' \in [Agents -> Intents]
             /\ \A a \in Agents : intent'[a] \in { intent[a], "none" }
  BY <1>4 DEF GiveUp, RowTypeOK, Intents
<1>5. CASE UNCHANGED uvars
  BY <1>5 DEF uvars, RowTypeOK
<1> QED
  BY <1>1, <1>2, <1>3, <1>4, <1>5 DEF Next

\* Every step keeps the types and the beginning.
LEMMA RowStep == RowInv /\ [Next]_uvars => RowInv'
<1> SUFFICES ASSUME RowInv, [Next]_uvars PROVE RowInv'
  OBVIOUS
<1>t. RowTypeOK /\ Beginning
  BY DEF RowInv
<1>1. CASE state = "NONE" /\ state' = "PENDING" /\ intent' = intent
  BY <1>1, <1>t, NoStatus DEF RowInv, RowTypeOK, Beginning, Quiet, JobStatus
<1>2. CASE state \in JobStatus /\ state' = "GONE" /\ intent' = intent
  BY <1>2, <1>t DEF RowInv, RowTypeOK, Beginning
<1>3. CASE /\ state' = state
           /\ intent' \in [Agents -> Intents]
           /\ \A a \in Agents : intent'[a] \in { intent[a], "none" }
  BY <1>3, <1>t DEF RowInv, RowTypeOK, Beginning, Quiet
<1>4. ASSUME state \in JobStatus, state' = state,
             NEW a \in Agents, NEW to \in Intents,
             CanMove(state, to), intent' = [intent EXCEPT ![a] = to]
      PROVE  RowInv'
  <2>1. state # "NONE" /\ (state = "PENDING" => to \in VALID_TRANSITIONS.PENDING)
    BY <1>4, MovesLemma, NoStatus
  <2> QED
    BY <1>4, <1>t, <2>1 DEF RowInv, RowTypeOK, Beginning
<1>5. ASSUME state \in JobStatus,
             NEW a \in Agents, NEW next \in Intents,
             intent[a] # "none", state' = intent[a],
             next # "none" => CanMove(state', next),
             intent' = [intent EXCEPT ![a] = next]
      PROVE  RowInv'
  <2>1. state' \in JobStatus \ { "PENDING" }
    BY <1>5, <1>t DEF RowTypeOK, Intents
  <2> QED
    BY <1>5, <1>t, <2>1, NoStatus DEF RowInv, RowTypeOK, Beginning
<1> QED
  BY <1>t, <1>1, <1>2, <1>3, <1>4, <1>5, UnlockedSteps

\* RowInv, for the proofs that cite it in every state.
LEMMA RowInvariance == Spec => []RowInv
<1>1. Init => RowInv
  BY NoStatus DEF Init, RowInv, RowTypeOK, Beginning, Intents, Quiet
<1> QED
  BY <1>1, RowStep, PTL DEF Spec

-------------------------------------------------------------------------------
\* A terminal status that nobody is about to overwrite stands until the row is deleted,
\* although every function writes without looking again.
THEOREM SettledStays == Spec => SettledIsFinal
<1>1. ASSUME RowInv, [Next]_uvars
      PROVE  [Settled => state' = "GONE" \/ (Settled' /\ state' = state)]_uvars
  <2> SUFFICES ASSUME Settled PROVE state' = "GONE" \/ (Settled' /\ state' = state)
    OBVIOUS
  <2>1. /\ state \in TERMINAL_STATES /\ state # "NONE"
        /\ \A a \in Agents : intent[a] = "none"
    BY DEF Settled, Quiet, TERMINAL_STATES
  <2>2. ~ \E to : CanMove(state, to)
    BY <2>1 DEF CanMove
  <2> QED
    BY <1>1, <2>1, <2>2, UnlockedSteps DEF RowInv, Settled, Quiet
<1> QED
  BY <1>1, RowInvariance, PTL DEF Spec, SettledIsFinal

\* Whatever races for a new job, what follows PENDING is a status the table has after it.
THEOREM FirstMoves == Spec => FirstMoveIsLegal
<1>1. ASSUME RowInv, [Next]_uvars
      PROVE  [state = "PENDING" =>
                state' \in VALID_TRANSITIONS.PENDING \cup { "PENDING", "GONE" }]_uvars
  <2> SUFFICES ASSUME state = "PENDING"
               PROVE  state' \in VALID_TRANSITIONS.PENDING \cup { "PENDING", "GONE" }
    OBVIOUS
  <2>1. \A a \in Agents : intent[a] \in VALID_TRANSITIONS.PENDING \cup {"none"}
    BY <1>1 DEF RowInv, Beginning
  <2> QED
    BY <1>1, <2>1, UnlockedSteps DEF RowInv
<1> QED
  BY <1>1, RowInvariance, PTL DEF Spec, FirstMoveIsLegal

-------------------------------------------------------------------------------
\* Nobody's check is out of date.
Fresh == \A a \in Agents : intent[a] # "none" /\ state \in JobStatus => CanMove(state, intent[a])

\* As long as operations do not overlap, each finds the row as it has checked it.
LEMMA FreshStep == RowInv /\ Alone /\ Fresh /\ [Next]_uvars => Fresh'
<1> SUFFICES ASSUME RowInv, Alone, Fresh, [Next]_uvars PROVE Fresh'
  OBVIOUS
<1>t. RowTypeOK /\ Beginning
  BY DEF RowInv
<1>1. CASE state = "NONE" /\ state' = "PENDING" /\ intent' = intent
  BY <1>1, <1>t DEF Fresh, Beginning, Quiet
<1>2. CASE state \in JobStatus /\ state' = "GONE" /\ intent' = intent
  BY <1>2, NoStatus DEF Fresh
<1>3. CASE /\ state' = state
           /\ intent' \in [Agents -> Intents]
           /\ \A a \in Agents : intent'[a] \in { intent[a], "none" }
  BY <1>3 DEF Fresh
<1>4. ASSUME state \in JobStatus, state' = state,
             NEW a \in Agents, NEW to \in Intents,
             CanMove(state, to), intent' = [intent EXCEPT ![a] = to]
      PROVE  Fresh'
  BY <1>4, <1>t DEF Fresh, RowTypeOK
<1>5. ASSUME state \in JobStatus,
             NEW a \in Agents, NEW next \in Intents,
             intent[a] # "none", state' = intent[a],
             next # "none" => CanMove(state', next),
             intent' = [intent EXCEPT ![a] = next]
      PROVE  Fresh'
  <2>1. \A b \in Agents : b # a => intent[b] = "none"
    BY <1>5 DEF Alone
  <2> QED
    BY <1>5, <1>t, <2>1 DEF Fresh, RowTypeOK
<1> QED
  BY <1>t, <1>1, <1>2, <1>3, <1>4, <1>5, UnlockedSteps

\* The names of the lifecycle are those of the row's own state machine.
LEMMA SameFsm ==
    /\ Lifecycle!JobStatus = JobStatus
    /\ \A from, to : CanMove(from, to) => Lifecycle!CanMove(from, to)
  BY DEF JobStatus, CanMove, TERMINAL_STATES, VALID_TRANSITIONS,
         Lifecycle!JobStatus, Lifecycle!CanMove, Lifecycle!TERMINAL_STATES,
         Lifecycle!VALID_TRANSITIONS

\* The row as a table of one job.
JobTable == [s \in { "job" } |-> state]

\* A write whose check is not out of date is a move of the lifecycle.
LEMMA FreshFollows == RowInv /\ Fresh /\ [Next]_uvars => [Lifecycle!Next]_JobTable
<1> SUFFICES ASSUME RowInv, Fresh, [Next]_uvars PROVE Lifecycle!Next \/ state' = state
  BY DEF JobTable
<1>t. RowTypeOK
  BY DEF RowInv
<1>1. CASE state = "NONE" /\ state' = "PENDING"
  BY <1>1 DEF Lifecycle!Next, Lifecycle!Create, Lifecycle!Set
<1>2. CASE state \in JobStatus /\ state' = "GONE"
  <2>1. { "job" } \in SUBSET Lifecycle!Jobs
    BY <1>2, SameFsm DEF Lifecycle!Jobs
  <2> QED
    BY <1>2, <2>1 DEF Lifecycle!Next, Lifecycle!Delete, Lifecycle!Set
<1>3. CASE state \in JobStatus /\ \E a \in Agents : intent[a] # "none" /\ state' = intent[a]
  <2>1. /\ state' \in Lifecycle!JobStatus /\ Lifecycle!CanMove(state, state')
        /\ state \in Lifecycle!JobStatus
    BY <1>3, <1>t, SameFsm DEF Fresh, RowTypeOK, Intents
  <2>2. { "job" } \in SUBSET Lifecycle!Jobs
    BY <2>1 DEF Lifecycle!Jobs
  <2>3. Lifecycle!Move
    BY <2>1, <2>2 DEF Lifecycle!Move, Lifecycle!Set
  <2> QED
    BY <2>3 DEF Lifecycle!Next
<1> QED
  BY <1>t, <1>1, <1>2, <1>3, UnlockedSteps

\* Operations that do not overlap keep the job to the table of allowed moves: that a
\* check may be out of date is all that the missing lock costs.
THEOREM SerialIsLifecycle == Spec /\ []Alone => Lifecycle!Spec
<1>1. Init => Fresh /\ Lifecycle!Init
  BY DEF Init, Fresh, Lifecycle!Init
<1> QED
  BY <1>1, RowInvariance, FreshStep, FreshFollows, PTL DEF Spec, Lifecycle!Spec, JobTable
===============================================================================
