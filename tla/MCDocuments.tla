------------------------------ MODULE MCDocuments ------------------------------
(* Documents for TLC: documents and conversations are interchangeable.        *)
EXTENDS Documents, TLC

Symmetric == Permutations(Doc) \cup Permutations(Session)

\* Either the conversation on screen has no document yet, or all documents are
\* stored and the panel shows one: to close it takes the user a step.
InitStored ==
  /\ Init
  /\ \/ Live(session) = {}
     \/ page.open /\ \A d \in Doc : server[d].state = "live"
StoredSpec == InitStored /\ [][Next]_vars

================================================================================
