---------------------------- MODULE JobPlacement ----------------------------
(***************************************************************************)
(* What a scheduler of jobs on executors promises about where jobs run: a  *)
(* job is placed on one executor at a time, runs nowhere else, and is      *)
(* placed again only when it no longer runs where it was.                  *)
(***************************************************************************)
EXTENDS TLAPS

CONSTANTS Jobs, Executors, NoExecutor

VARIABLES
    place,  \* the executor each job is placed on, or NoExecutor
    live    \* the <<job, executor>> where a job runs

Init ==
    /\ place = [j \in Jobs |-> NoExecutor]
    /\ live = {}

Place(j, e) ==
    /\ place[j] = NoExecutor
    /\ place' = [place EXCEPT ![j] = e]
    /\ UNCHANGED live

Begin(j) ==
    /\ place[j] # NoExecutor
    /\ live' = live \cup {<<j, place[j]>>}
    /\ UNCHANGED place

End(j) ==
    /\ live' = live \ {<<j, place[j]>>}
    /\ UNCHANGED place

Release(j) ==
    /\ \A e \in Executors : <<j, e>> \notin live
    /\ place' = [place EXCEPT ![j] = NoExecutor]
    /\ UNCHANGED live

Next == \E j \in Jobs : \/ \E e \in Executors : Place(j, e)
                        \/ Begin(j) \/ End(j) \/ Release(j)

Spec == Init /\ [][Next]_<<place, live>>

-----------------------------------------------------------------------------

TypeOK ==
    /\ place \in [Jobs -> Executors \cup {NoExecutor}]
    /\ live \subseteq Jobs \X Executors

\* A job runs on at most one executor, the one it is placed on.
RunsWherePlaced == \A p \in live : place[p[1]] = p[2]

-----------------------------------------------------------------------------
(* What follows, and so for whatever implements this. *)

\* Each step keeps the types.
LEMMA TypeOKStep == TypeOK /\ [Next]_<<place, live>> => TypeOK'
<1> SUFFICES ASSUME TypeOK, [Next]_<<place, live>> PROVE TypeOK'
  OBVIOUS
<1>1. ASSUME NEW j \in Jobs, NEW e \in Executors, Place(j, e) PROVE TypeOK'
  BY <1>1 DEF TypeOK, Place
<1>2. ASSUME NEW j \in Jobs, Begin(j) \/ End(j) PROVE TypeOK'
  BY <1>2 DEF TypeOK, Begin, End
<1>3. ASSUME NEW j \in Jobs, Release(j) PROVE TypeOK'
  BY <1>3 DEF TypeOK, Release
<1>4. CASE UNCHANGED <<place, live>>
  BY <1>4 DEF TypeOK
<1>5. QED BY <1>1, <1>2, <1>3, <1>4 DEF Next

\* A job is started where it is placed, and is placed again when it no longer runs.
LEMMA RunsWherePlacedStep ==
    ASSUME NoExecutor \notin Executors
    PROVE  TypeOK /\ RunsWherePlaced /\ [Next]_<<place, live>> => RunsWherePlaced'
<1> SUFFICES ASSUME TypeOK, RunsWherePlaced, [Next]_<<place, live>> PROVE RunsWherePlaced'
  OBVIOUS
<1>1. \A p \in live : p = <<p[1], p[2]>> /\ p[1] \in Jobs /\ p[2] \in Executors
  BY DEF TypeOK
<1>2. ASSUME NEW j \in Jobs, NEW e \in Executors, Place(j, e) PROVE RunsWherePlaced'
  BY <1>1, <1>2 DEF Place, RunsWherePlaced, TypeOK
<1>3. ASSUME NEW j \in Jobs, Begin(j) PROVE RunsWherePlaced'
  BY <1>3 DEF Begin, RunsWherePlaced
<1>4. ASSUME NEW j \in Jobs, End(j) PROVE RunsWherePlaced'
  BY <1>4 DEF End, RunsWherePlaced
<1>5. ASSUME NEW j \in Jobs, Release(j) PROVE RunsWherePlaced'
  BY <1>1, <1>5 DEF Release, RunsWherePlaced, TypeOK
<1>6. CASE UNCHANGED <<place, live>>
  BY <1>6 DEF RunsWherePlaced
<1>7. QED BY <1>2, <1>3, <1>4, <1>5, <1>6 DEF Next

\* A job runs on one executor at most, the one it is placed on: a scheduler that
\* frees the place of a job only when it no longer runs there needs nothing else.
THEOREM JobsRunWherePlaced ==
    ASSUME NoExecutor \notin Executors
    PROVE  Spec => []RunsWherePlaced
<1>1. Init => TypeOK /\ RunsWherePlaced
  BY DEF Init, TypeOK, RunsWherePlaced
<1>2. TypeOK /\ RunsWherePlaced /\ [Next]_<<place, live>> => (TypeOK /\ RunsWherePlaced)'
  BY TypeOKStep, RunsWherePlacedStep
<1>3. QED BY <1>1, <1>2, PTL DEF Spec
=============================================================================
