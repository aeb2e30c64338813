--------------------------- MODULE RequestService ---------------------------
(***************************************************************************)
(* What the rest of the system may rely on of the scheduler process: every *)
(* request is accepted or dropped once, an accepted one gets at most       *)
(* MaxTokens tokens, the last of them flagged, and nothing after that or   *)
(* after its abort.                                                        *)
(***************************************************************************)
EXTENDS Integers, Sequences, FiniteSets

CONSTANTS
  Uids,
  MaxTokens   \* the most tokens a request can get

VARIABLES
  status,  \* uid -> new, live, dropped, aborted or done
  sent     \* uid -> the finished flags of the tokens sent for it

ServiceInit ==
  /\ status = [u \in Uids |-> "new"]
  /\ sent = [u \in Uids |-> <<>>]

\* The UserMsg arrives; a prompt as long as the model allows is dropped.
Admit(u) ==
  /\ status[u] = "new"
  /\ \E s \in {"live", "dropped"} : status' = [status EXCEPT ![u] = s]
  /\ UNCHANGED sent

\* The AbortBackendMsg arrives; it means something for a live request only.
Withdraw(u) ==
  /\ status' = [status EXCEPT ![u] = IF @ = "live" THEN "aborted" ELSE @]
  /\ UNCHANGED sent

\* One iteration's replies: a token each for some requests, the last for some.
Emit(chosen, finished) ==
  /\ \A u \in chosen :
       /\ status[u] = "live" /\ Len(sent[u]) < MaxTokens
       /\ Len(sent[u]) + 1 = MaxTokens => u \in finished
  /\ finished \subseteq chosen
  /\ sent' = [u \in Uids |-> IF u \in chosen THEN Append(sent[u], u \in finished) ELSE sent[u]]
  /\ status' = [u \in Uids |-> IF u \in finished THEN "done" ELSE status[u]]

ServiceNext ==
  \/ \E u \in Uids : Admit(u) \/ Withdraw(u)
  \/ \E chosen \in (SUBSET Uids) \ {{}}, finished \in SUBSET Uids : Emit(chosen, finished)

ServiceSpec == ServiceInit /\ [][ServiceNext]_<<status, sent>>

-----------------------------------------------------------------------------
\* Types of what a user sees.
ServiceTypeOK ==
  /\ status \in [Uids -> {"new", "live", "dropped", "aborted", "done"}]
  /\ sent \in [Uids -> Seq(BOOLEAN)]

\* At most one finished flag per request and nothing behind it, a request is done
\* exactly when its flag is sent, and one that was dropped gets nothing.
StreamsWellFormed ==
  \A u \in Uids :
    /\ \A i \in DOMAIN sent[u] : sent[u][i] => i = Len(sent[u])
    /\ status[u] = "done" <=> \E i \in DOMAIN sent[u] : sent[u][i]
    /\ status[u] \in {"new", "dropped"} => sent[u] = <<>>

=============================================================================
