----------------------------- MODULE OncePerKey -----------------------------
(***************************************************************************)
(* What an Idempotency-Key promises, without requests, waiters or failures *)
(* of the store: the work behind a key is done at most once as long as the *)
(* key is taken, and once it is answered the answer is final.  A key is    *)
(* released, and the work may be done again, only without an answer.       *)
(***************************************************************************)
CONSTANTS
  Keys,
  Answers,    \* what can be recorded for a key
  Success     \* the answer that says the work is done

VARIABLES
  state,      \* "free", "taken" or the recorded answer
  done        \* has the work been done since the key was taken?

keyVars == <<state, done>>

Init == state = [k \in Keys |-> "free"] /\ done = [k \in Keys |-> FALSE]

Take(k) ==
  /\ state[k] = "free"
  /\ state' = [state EXCEPT ![k] = "taken"]
  /\ UNCHANGED done

Do(k) ==
  /\ state[k] = "taken" /\ ~done[k]
  /\ done' = [done EXCEPT ![k] = TRUE]
  /\ UNCHANGED state

Answer(k, a) ==
  /\ state[k] = "taken"
  /\ a = Success => done[k]
  /\ state' = [state EXCEPT ![k] = a]
  /\ UNCHANGED done

Release(k) ==
  /\ state[k] = "taken"
  /\ state' = [state EXCEPT ![k] = "free"]
  /\ done' = [done EXCEPT ![k] = FALSE]

Next == \E k \in Keys : Take(k) \/ Do(k) \/ Release(k) \/ \E a \in Answers : Answer(k, a)

Spec == Init /\ [][Next]_keyVars
=============================================================================
