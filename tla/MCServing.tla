----------------------------- MODULE MCServing -----------------------------
(* Serving with a pool of two connections and three requests.               *)
EXTENDS Serving

CONSTANTS n1

CallOf(kind, name) == [kind |-> kind, name |-> name]

\* Two clients race to register and hold connections through a forecast, one
\* also probes, one reads, deletes and tries without a token.
ServingCalls ==
    <<{CallOf(kind, n1) : kind \in {"register", "evaluate"}},
      {CallOf(kind, n1) : kind \in {"register", "login", "health"}},
      {CallOf(kind, n1) : kind \in {"root", "read", "write", "delete"}}
          \cup {CallOf("write", BAD)}>>
=============================================================================
