---------------------------- MODULE ChainScheduler ----------------------------
(***************************************************************************)
(* td::ChainScheduler (tdutils/td/utils/ChainScheduler.h): tasks belong to *)
(* chains and are started in the order of each chain, without waiting for  *)
(* the task before to finish.  When a task fails, those behind it in a     *)
(* chain fail too; the generation of the chain keeps them from being       *)
(* started again before the task in front of them was.                     *)
(*                                                                         *)
(* An operation is a function from the object's fields, a record s, to the *)
(* new ones; s may have further fields of the scheduler's owner.           *)
(***************************************************************************)
EXTENDS Naturals, FiniteSets, SequencesExt

CONSTANTS
  ChainIds,
  MaxActive       \* the limit of active tasks in a chain, 10 in try_start_task

ASSUME ChainSchedulerAssumption == MaxActive \in Nat \ {0} /\ IsFiniteSet(ChainIds)

(* Every chain that is not in chains_ is an empty one: get_chain_info makes *)
(* it anew.  failed: one of the CHECKs has failed.                          *)
NewChainInfo == [chain |-> <<>>, active_tasks |-> 0, generation |-> 1]

EmptyScheduler ==
  [tasks_ |-> <<>>, chains_ |-> [c \in ChainIds |-> NewChainInfo],
   limited_tasks_ |-> [c \in ChainIds |-> 0], pending_tasks_ |-> <<>>, failed |-> FALSE]

Erased == [state |-> "Erased", chains |-> <<>>, generation |-> <<>>]

Alive(s) == {t \in DOMAIN s.tasks_ : s.tasks_[t] # Erased}

Chains(s, t) == s.tasks_[t].chains

InChain(s, t) == ToSet(Chains(s, t))

get_first(s, c) == LET l == s.chains_[c].chain IN IF l = <<>> THEN <<>> ELSE <<l[1]>>

Position(s, c, t) == CHOOSE i \in DOMAIN s.chains_[c].chain : s.chains_[c].chain[i] = t

get_parent(s, c, t) ==
  LET i == Position(s, c, t) IN IF i = 1 THEN {} ELSE {s.chains_[c].chain[i - 1]}

get_child(s, c, t) ==
  LET l == s.chains_[c].chain
      i == Position(s, c, t)
  IN  IF i = Len(l) THEN <<>> ELSE <<l[i + 1]>>

(* The children of a task, one for each of its chains.                      *)
for_each_child(s, t) == FlattenSeq([k \in DOMAIN Chains(s, t) |-> get_child(s, Chains(s, t)[k], t)])

(* The tasks behind t in each of its chains, and t itself, each once.       *)
for_each_dependent(s, t) ==
  LET From(c) == SubSeq(s.chains_[c].chain, Position(s, c, t), Len(s.chains_[c].chain))
      all == FlattenSeq([k \in DOMAIN Chains(s, t) |-> From(Chains(s, t)[k])])
      visited[i \in 0..Len(all)] ==
        IF i = 0 THEN <<>>
        ELSE IF all[i] \in ToSet(visited[i - 1]) THEN visited[i - 1] ELSE Append(visited[i - 1], all[i])
  IN  visited[Len(all)]

-----------------------------------------------------------------------------
(* try_start_task: the chains are looked at in their order.                 *)

ParentStarted(s, t, c) ==
  \A p \in get_parent(s, c, t) : s.tasks_[p].generation[c] = s.chains_[c].generation

Limited(s, c) == s.chains_[c].active_tasks >= MaxActive

(* What a chain says about starting t.                                      *)
Verdict(s, t, c) ==
  IF ~ParentStarted(s, t, c) THEN "wait" ELSE IF Limited(s, c) THEN "limited" ELSE "start"

do_start_task(s, t) ==
  [s EXCEPT
     !.chains_ = [c \in ChainIds |->
       IF c \in InChain(s, t) THEN [s.chains_[c] EXCEPT !.active_tasks = @ + 1] ELSE s.chains_[c]],
     !.tasks_[t].generation = [c \in InChain(s, t) |-> s.chains_[c].generation],
     !.tasks_[t].state = "Active",
     !.pending_tasks_ = Append(@, t)]

(* One task of a list of tasks to try, and the children that follow if it   *)
(* was started.                                                             *)
TryFirst(st) ==
  LET s    == st.s
      t    == Head(st.todo)
      rest == Tail(st.todo)
      refusals == {k \in DOMAIN Chains(s, t) : Verdict(s, t, Chains(s, t)[k]) # "start"}
      c    == Chains(s, t)[Min(refusals)]
  IN  IF t \notin Alive(s) THEN [s |-> [s EXCEPT !.failed = TRUE], todo |-> rest]
      ELSE IF s.tasks_[t].state # "Pending" THEN [s |-> s, todo |-> rest]
      ELSE IF refusals = {} THEN [s |-> do_start_task(s, t), todo |-> for_each_child(s, t) \o rest]
      ELSE [s |-> IF Verdict(s, t, c) = "limited" THEN [s EXCEPT !.limited_tasks_[c] = t] ELSE s,
            todo |-> rest]

(* try_start_task for a list of tasks.  A task is started at most once, so  *)
(* that many attempts are enough.                                           *)
try_start_tasks(s, todo) ==
  LET MaxTries == Len(todo) + Len(s.tasks_) * Cardinality(ChainIds)
      after[n \in 0..MaxTries] ==
        LET st == after[n - 1]
        IN  IF n = 0 THEN [s |-> s, todo |-> todo] ELSE IF st.todo = <<>> THEN st ELSE TryFirst(st)
  IN  after[MaxTries].s

-----------------------------------------------------------------------------
(* inactivate_task for the chains one by one, with the tasks to start later.*)
LimitedLater_Forgotten(s, t, c) == <<>>

LimitedLater(s, t, c) ==
  IF s.limited_tasks_[c] \in {0, t} THEN <<>> ELSE <<s.limited_tasks_[c]>>

FirstLater(s, t, c) == IF get_first(s, c) = <<t>> THEN <<>> ELSE get_first(s, c)

ToStart(s, t) ==
  FlattenSeq([k \in DOMAIN Chains(s, t) |->
                LimitedLater(s, t, Chains(s, t)[k]) \o FirstLater(s, t, Chains(s, t)[k])])

Generation(info, node_generation, failed) ==
  IF failed /\ node_generation >= info.generation THEN node_generation + 1 ELSE info.generation

inactivate_task_KeepsLimited(s, t, failed) ==
  LET was_active == s.tasks_[t].state = "Active"
  IN  [s EXCEPT
         !.tasks_[t].state = "Pending",
         !.chains_ = [c \in ChainIds |->
            IF c \in InChain(s, t) /\ was_active
              THEN [s.chains_[c] EXCEPT
                      !.active_tasks = @ - 1,
                      !.generation = Generation(s.chains_[c], s.tasks_[t].generation[c], failed)]
              ELSE s.chains_[c]]]

inactivate_task(s, t, failed) ==
  LET was_active == s.tasks_[t].state = "Active"
  IN  [s EXCEPT
         !.tasks_[t].state = "Pending",
         !.limited_tasks_ = [c \in ChainIds |-> IF c \in InChain(s, t) THEN 0 ELSE s.limited_tasks_[c]],
         !.chains_ = [c \in ChainIds |->
            IF c \in InChain(s, t) /\ was_active
              THEN [s.chains_[c] EXCEPT
                      !.active_tasks = @ - 1,
                      !.generation = Generation(s.chains_[c], s.tasks_[t].generation[c], failed)]
              ELSE s.chains_[c]]]

-----------------------------------------------------------------------------
(* The operations.                                                          *)

(* The next task is number Len(s.tasks_) + 1.                               *)
Added(s, chains) ==
  [s EXCEPT
     !.tasks_ = Append(@, [state |-> "Pending", chains |-> chains, generation |-> [c \in ToSet(chains) |-> 0]]),
     !.chains_ = [c \in ChainIds |->
       IF c \in ToSet(chains) THEN [s.chains_[c] EXCEPT !.chain = Append(@, Len(s.tasks_) + 1)] ELSE s.chains_[c]]]

create_task(s, chains) == try_start_tasks(Added(s, chains), <<Len(s.tasks_) + 1>>)

(* A chain that becomes empty is erased.                                    *)
FinishChain(s, c, t) ==
  LET l == RemoveAt(s.chains_[c].chain, Position(s, c, t))
  IN  IF l = <<>> THEN NewChainInfo ELSE [s.chains_[c] EXCEPT !.chain = l]

Removed(s, t) ==
  LET off == inactivate_task(s, t, FALSE)
  IN  [off EXCEPT
         !.chains_ = [c \in ChainIds |-> IF c \in InChain(s, t) THEN FinishChain(off, c, t) ELSE off.chains_[c]],
         !.tasks_[t] = Erased]

finish_task_NoChildren(s, t) == try_start_tasks(Removed(s, t), ToStart(s, t))

finish_task(s, t) == try_start_tasks(Removed(s, t), ToStart(s, t) \o for_each_child(s, t))

reset_task(s, t) == try_start_tasks(inactivate_task(s, t, TRUE), Append(ToStart(s, t), t))

pause_task(s, t) ==
  try_start_tasks([inactivate_task(s, t, TRUE) EXCEPT !.tasks_[t].state = "Paused"], ToStart(s, t))

(* start_next_task: the task it pops and the tasks before it in its chains. *)
NextTask(s) == Head(s.pending_tasks_)

Parents(s) == UNION {get_parent(s, c, NextTask(s)) : c \in InChain(s, NextTask(s))}
=============================================================================
