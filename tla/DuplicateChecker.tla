-------------------------- MODULE DuplicateChecker --------------------------
(***************************************************************************)
(* td::mtproto::MessageIdDuplicateChecker: messages of the server arrive   *)
(* in any order and some of them again.  The checker keeps the greatest    *)
(* identifiers in an array of 2 * MaxSize cells, sorted; saved is its used *)
(* part.                                                                   *)
(***************************************************************************)
EXTENDS Integers, Sequences, FiniteSets

CONSTANTS Ids,       \* message identifiers, which are compared as numbers
          MaxSize    \* max_size: 1000 for packets and updates, 100 for the recheck

ASSUME CheckerAssumption ==
  Ids \subseteq Nat /\ IsFiniteSet(Ids) /\ MaxSize \in Nat \ {0}

VARIABLES saved,   \* saved_message_ids_[0 .. end_pos_)
          result,  \* what the last call returned
          times    \* history: how often each identifier was accepted

checker_vars == <<saved, result, times>>

CheckerInit == saved = <<>> /\ result = [code |-> -1, id |-> -1] /\ times = [id \in Ids |-> 0]

-----------------------------------------------------------------------------
Compacted_TooLate(s) ==
  IF Len(s) > 2 * MaxSize THEN SubSeq(s, MaxSize + 2, 2 * MaxSize + 1) ELSE s

(* A full array keeps its second half.                                      *)
Compacted(s) == IF Len(s) = 2 * MaxSize THEN SubSeq(s, MaxSize + 1, 2 * MaxSize) ELSE s

(* std::lower_bound, for an identifier that is not above all of s.          *)
LowerBound(s, id) ==
  CHOOSE k \in 1..Len(s) : s[k] >= id /\ \A j \in 1..(k - 1) : s[j] < id

(* std::copy_backward and the assignment.                                   *)
Inserted(s, k, id) ==
  [i \in 1..(Len(s) + 1) |-> IF i < k THEN s[i] ELSE IF i = k THEN id ELSE s[i - 1]]

IsNewest(s, id) == s = <<>> \/ id > s[Len(s)]

IsVeryOld_Early(s, id) == Len(s) + 1 >= MaxSize /\ id < s[1]

IsVeryOld_Strict(s, id) == Len(s) > MaxSize /\ id < s[1]

IsVeryOld(s, id) == Len(s) >= MaxSize /\ id < s[1]

Verdict(s, id) ==
  CASE IsNewest(s, id) -> 0
    [] ~IsNewest(s, id) /\ IsVeryOld(s, id) -> 2
    [] OTHER -> IF s[LowerBound(s, id)] = id THEN 1 ELSE 0

(* check_message_id_duplicates.                                             *)
check(id) ==
  LET s    == Compacted(saved)
      code == Verdict(s, id)
  IN  /\ result' = [code |-> code, id |-> id]
      /\ saved' = CASE code # 0 -> s
                    [] code = 0 /\ IsNewest(s, id) -> Append(s, id)
                    [] OTHER -> Inserted(s, LowerBound(s, id), id)
      /\ times' = [times EXCEPT ![id] = IF code = 0 THEN @ + 1 ELSE @]

CheckerNext == \E id \in Ids : check(id)

CheckerSpec == CheckerInit /\ [][CheckerNext]_checker_vars

-----------------------------------------------------------------------------
(* The used part of the array is sorted and does not exceed the array, so   *)
(* that lower_bound and copy_backward stay inside it.                       *)
ArraySorted ==
  /\ saved \in Seq(Ids) /\ Len(saved) <= 2 * MaxSize
  /\ \A i, j \in 1..Len(saved) : i < j => saved[i] < saved[j]

(* check_message_id_duplicates: whatever the order and the repetitions,     *)
(* also after identifiers were forgotten, no message is accepted twice.     *)
AcceptedOnce == \A id \in Ids : times[id] <= 1

(* check_message_id_duplicates refuses a message that it never accepted     *)
(* only if max_size accepted ones are newer: no message that is merely late *)
(* is lost, whatever was forgotten when the array was cut.                  *)
RefusesOnlyOld ==
  result.code \in {1, 2} =>
    \/ times[result.id] = 1
    \/ Cardinality({id \in Ids : times[id] >= 1 /\ id > result.id}) >= MaxSize

(* "if a message comes in with msg_id lower than all or equal to any of the *)
(* stored values, that message is to be ignored": the one accepted last is  *)
(* not the lowest of several.  It does not hold while fewer than max_size   *)
(* are stored.                                                              *)
LowerThanAllIgnored == result.code = 0 /\ Len(saved) > 1 => saved[1] # result.id

-----------------------------------------------------------------------------
(* The inductive invariant: an accepted identifier is in the array, or      *)
(* below all of it while the array remembers at least MaxSize.              *)
Known(id) == \E i \in 1..Len(saved) : saved[i] = id

CheckerIInv ==
  /\ ArraySorted
  /\ times \in [Ids -> Nat]
  /\ AcceptedOnce
  /\ \A i \in 1..Len(saved) : times[saved[i]] = 1
  /\ \A id \in Ids : times[id] = 1 => Known(id) \/ IsVeryOld(saved, id)
  /\ RefusesOnlyOld
=============================================================================
