--------------------------- MODULE RequestService ---------------------------
(***************************************************************************)
(* What the gateway application promises to its HTTP side: a request comes *)
(* in once, waits, and is answered once.  FCGX_Finish_r frees the request, *)
(* so a second answer would also be a use of freed memory.                 *)
(***************************************************************************)
CONSTANT Request

VARIABLES waiting, done

Init == waiting = {} /\ done = {}

Accept(r) ==
  /\ r \notin waiting \cup done
  /\ waiting' = waiting \cup {r}
  /\ UNCHANGED done

Answer(r) ==
  /\ r \in waiting
  /\ waiting' = waiting \ {r}
  /\ done' = done \cup {r}

Next == \E r \in Request : Accept(r) \/ Answer(r)

Spec == Init /\ [][Next]_<<waiting, done>>
=============================================================================
