---------------------------- MODULE TokenService ----------------------------
(***************************************************************************)
(* What an auth.Authenticator promises its callers, without the mutex, the *)
(* retry loop or the network: a register holding at most one token, each   *)
(* token stamped with its generation.  A call is answered                  *)
(*   - from the register, when the register holds a token newer than the   *)
(*     one the caller reports as stale (Token reports nothing stale);      *)
(*   - with a token never issued before, which also replaces the register, *)
(*     when the register holds nothing newer;                              *)
(*   - with a refusal, only when a fresh token would have been needed.     *)
(* TokenCache implements it.                                               *)
(***************************************************************************)
EXTENDS Integers

CONSTANT Callers

VARIABLES
    current,    \* token in the register, 0 when it is empty
    epoch,      \* generation of the last token put in the register
    issued,     \* number of tokens the IAM service ever issued
    request,    \* request[c]: the stale generation c reports, -1 for none,
                \* or Quiet when c has no call outstanding
    reply       \* reply[c]: what c's last call returned

svars == <<current, epoch, issued, request, reply>>

Quiet == -2
Refusal == [token |-> 0, gen |-> 0]

Init ==
    /\ current = 0
    /\ epoch = 0
    /\ issued = 0
    /\ request = [c \in Callers |-> Quiet]
    /\ reply = [c \in Callers |-> Refusal]

\* The register can answer a caller that reports generation g as stale.
Servable(g) == current # 0 /\ epoch > g

\* A caller asks for a token (g = -1) or reports generation g as stale.
Ask(c, g) ==
    /\ request[c] = Quiet
    /\ request' = [request EXCEPT ![c] = g]
    /\ reply' = [reply EXCEPT ![c] = Refusal]
    /\ UNCHANGED <<current, epoch, issued>>

Finish(c, r) ==
    /\ request' = [request EXCEPT ![c] = Quiet]
    /\ reply' = [reply EXCEPT ![c] = r]

Serve(c) ==
    /\ request[c] # Quiet
    /\ Servable(request[c])
    /\ Finish(c, [token |-> current, gen |-> epoch])
    /\ UNCHANGED <<current, epoch, issued>>

Renew(c) ==
    /\ request[c] # Quiet
    /\ ~Servable(request[c])
    /\ issued' = issued + 1
    /\ current' = issued'
    /\ epoch' = epoch + 1
    /\ Finish(c, [token |-> current', gen |-> epoch'])

Refuse(c) ==
    /\ request[c] # Quiet
    /\ ~Servable(request[c])
    /\ Finish(c, Refusal)
    /\ issued' \in {issued, issued + 1}
    /\ UNCHANGED <<current, epoch>>

\* The IAM service issued a token nobody received.
Waste ==
    /\ issued' = issued + 1
    /\ UNCHANGED <<current, epoch, request, reply>>

\* The register is emptied (Close).
Forget ==
    /\ current' = 0
    /\ UNCHANGED <<epoch, issued, request, reply>>

Next ==
    \/ \E c \in Callers :
          \/ \E g \in -1..epoch : Ask(c, g)
          \/ Serve(c) \/ Renew(c) \/ Refuse(c)
    \/ Waste
    \/ Forget

Spec == Init /\ [][Next]_svars
=============================================================================
