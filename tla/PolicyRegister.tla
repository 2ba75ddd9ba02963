--------------------------- MODULE PolicyRegister ---------------------------
(***************************************************************************)
(* What the policy service promises to its administrators, without saying  *)
(* how: a history of policies that only grows, where version n is the n-th *)
(* entry for ever; a request names the version it was based on, takes      *)
(* effect at most once, as the successor of exactly that version, and is   *)
(* acknowledged only after it took effect.  A rollback is a new version    *)
(* with the policy of an older one.                                        *)
(***************************************************************************)
EXTENDS Naturals, Sequences

CONSTANTS
  Requests,   \* publish and rollback requests
  Policies,   \* contents of a policy
  Baseline,   \* the policy the service is installed with
  NoRequest   \* the author of the baseline

VARIABLES
  history,    \* the policies committed so far; version n is history[n]
  asked,      \* what each request asked for
  acked       \* the requests answered with success

registerVars == <<history, asked, acked>>

\* base 0: the request has not been made; from 0: it is a publish.
NoAsk == [base |-> 0, policy |-> Baseline, from |-> 0]

Authors == {history[n].by : n \in 1..Len(history)}

Init ==
  /\ history = << [policy |-> Baseline, from |-> 0, by |-> NoRequest] >>
  /\ asked = [r \in Requests |-> NoAsk]
  /\ acked = {}

Ask(r) ==
  /\ asked[r] = NoAsk
  /\ \E base \in 1..Len(history), from \in 0..Len(history), policy \in Policies :
       asked' = [asked EXCEPT ![r] = [base |-> base, policy |-> policy, from |-> from]]
  /\ UNCHANGED <<history, acked>>

Commit(r) ==
  /\ asked[r].base = Len(history)
  /\ r \notin Authors
  /\ LET from == asked[r].from
         policy == IF from = 0 THEN asked[r].policy ELSE history[from].policy
     IN  history' = Append(history, [policy |-> policy, from |-> from, by |-> r])
  /\ UNCHANGED <<asked, acked>>

Acknowledge(r) ==
  /\ r \in Authors
  /\ acked' = acked \cup {r}
  /\ UNCHANGED <<history, asked>>

Next == \E r \in Requests : Ask(r) \/ Commit(r) \/ Acknowledge(r)

Spec == Init /\ [][Next]_registerVars
=============================================================================
