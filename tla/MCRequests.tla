----------------------------- MODULE MCRequests -----------------------------
EXTENDS Requests, TLC
(* One call makes up to three attempts; another one, by a program that      *)
(* reuses the key for another body, may come before, between or after them. *)
MCKeyOf    == [c \in Callers |-> "key"]
MCBodyOf   == "a" :> 1 @@ "c" :> 2
MCMaxSends == "a" :> 3 @@ "c" :> 1
=============================================================================
