-------------------------- MODULE MCTokenCacheClose --------------------------
(***************************************************************************)
(* TokenCache with one history variable: which calls began after           *)
(* Client.Close had returned.                                              *)
(***************************************************************************)
EXTENDS TokenCache

VARIABLE late   \* late[c]: c's current or last call began after Close

LateInit == Init /\ late = [c \in Callers |-> FALSE]

LateNext ==
    /\ Next
    /\ late' = [c \in Callers |->
                  IF pc[c] = "idle" /\ pc'[c] # "idle"
                    THEN closeOnce = "done"
                    ELSE late[c]]

LateSpec == LateInit /\ [][LateNext]_<<vars, late>>

\* token_cache.go:70-71 says that once the cache is closed Token returns an
\* error rather than asking IAM again.
ClosedCacheRefuses ==
    \A c \in Callers :
        late[c] /\ pc[c] = "idle" /\ op[c] = "token" => ans[c].err # "none"
=============================================================================
