---------------------------- MODULE ChatPromise ----------------------------
(***************************************************************************)
(* What the hub promises about the chat of one passenger: a history of at  *)
(* most Cap messages that grows by what is sent, may be forgotten and may  *)
(* be replaced by an older one, but never holds what was not sent.         *)
(***************************************************************************)
EXTENDS Naturals, FiniteSets

CONSTANTS
  Texts,            \* what the passenger writes
  Other,            \* a message of the console, of the agent or of the system
  MaxSent,          \* bound of the model: messages ever sent
  Cap               \* MAX_CHAT_HISTORY

ASSUME ChatAssumption ==
  /\ Other \notin Texts
  /\ "none" \notin Texts \cup {Other}
  /\ MaxSent \in Nat
  /\ Cap \in Nat \ {0}

VARIABLES
  text,             \* what was sent, in order
  hist              \* the history the hub would answer with

promiseVars == <<text, hist>>

Msg == 1..MaxSent
Sent == {m \in Msg : text[m] # "none"}
Newest(S) == {m \in S : Cardinality({n \in S : n > m}) < Cap}

PromiseInit ==
  /\ text = [m \in Msg |-> "none"]
  /\ hist = {}

Say(m, t) ==
  /\ m \notin Sent /\ \A n \in Msg : n < m => n \in Sent
  /\ text' = [text EXCEPT ![m] = t]
  /\ hist' = Newest(hist \cup {m})

(* Eviction, purge, restart                                                *)
Forgotten ==
  /\ hist' = {}
  /\ UNCHANGED text

(* A load has ended.                                                       *)
Reloaded ==
  /\ hist' \in (SUBSET Sent) \ {{}}
  /\ Newest(hist') = hist'
  /\ UNCHANGED text

PromiseNext ==
  \/ Forgotten \/ Reloaded
  \/ \E m \in Msg, t \in Texts \cup {Other} : Say(m, t)

ChatPromiseSpec == PromiseInit /\ [][PromiseNext]_promiseVars

=============================================================================
