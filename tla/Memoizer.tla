------------------------------ MODULE Memoizer ------------------------------
(***************************************************************************)
(* What the schema cache promises to its callers, without saying how: a    *)
(* call about a key is answered from memory when there is something to     *)
(* remember, at once; otherwise the call goes and finds out, and it either *)
(* learns a value, which is then remembered, or gives up, which is not.    *)
(* How long finding out takes, what it looks at and what happens to that   *)
(* meanwhile is not seen here.                                             *)
(***************************************************************************)
CONSTANTS
  Callers,
  Keys,
  Values,     \* what can be remembered
  Refusals,   \* answers that are not
  Nothing,    \* nothing remembered; no call, where it is a reply
  Waiting,    \* the reply of a call that is finding out
  NoKey

VARIABLES
  memo,       \* what is remembered of each key
  asked,      \* the key each caller asks for
  reply       \* Nothing between calls, Waiting, or the answer of the call

vars == <<memo, asked, reply>>

Init ==
  /\ memo = [k \in Keys |-> Nothing]
  /\ asked = [c \in Callers |-> NoKey]
  /\ reply = [c \in Callers |-> Nothing]

Recall(c, k) ==
  /\ reply[c] = Nothing
  /\ memo[k] # Nothing
  /\ asked' = [asked EXCEPT ![c] = k]
  /\ reply' = [reply EXCEPT ![c] = memo[k]]
  /\ UNCHANGED memo

(* Only a key nothing is remembered of is worth finding out about. *)
Ask(c, k) ==
  /\ reply[c] = Nothing
  /\ memo[k] = Nothing
  /\ asked' = [asked EXCEPT ![c] = k]
  /\ reply' = [reply EXCEPT ![c] = Waiting]
  /\ UNCHANGED memo

(* Of calls that asked together each remembers what it learned itself. *)
Learn(c) ==
  /\ reply[c] = Waiting
  /\ \E v \in Values :
       /\ memo' = [memo EXCEPT ![asked[c]] = v]
       /\ reply' = [reply EXCEPT ![c] = v]
  /\ UNCHANGED asked

GiveUp(c) ==
  /\ reply[c] = Waiting
  /\ \E r \in Refusals : reply' = [reply EXCEPT ![c] = r]
  /\ UNCHANGED <<memo, asked>>

Return(c) ==
  /\ reply[c] \notin {Nothing, Waiting}
  /\ asked' = [asked EXCEPT ![c] = NoKey]
  /\ reply' = [reply EXCEPT ![c] = Nothing]
  /\ UNCHANGED memo

Next ==
  \E c \in Callers :
    \/ \E k \in Keys : Recall(c, k) \/ Ask(c, k)
    \/ Learn(c) \/ GiveUp(c) \/ Return(c)

Spec == Init /\ [][Next]_vars
=============================================================================
