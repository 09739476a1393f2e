------------------------- MODULE RevocationRegister -------------------------
(***************************************************************************)
(* What the revocation service promises its administrators: for every      *)
(* target an append-only history of legal transitions, each accepted once, *)
(* and answers that describe an accepted transition, always the same way.  *)
(* There is no store, no revision, no retry and no clock in it.            *)
(***************************************************************************)
EXTENDS Naturals, Sequences

CONSTANTS
  Targets,
  Capacity,   \* transitions a target can take
  Entries     \* transitions that may be asked for

VARIABLES
  history,    \* history[t]: the transitions of t, oldest first
  answers     \* the answers given

vars == <<history, answers>>

Last(h) == h[Len(h)]

\* A transition may follow h: it is new, it is not older than what h ends with,
\* and a lift ends a revocation that is in force at that time.
Legal(h, e) ==
  /\ Len(h) < Capacity
  /\ \A i \in 1 .. Len(h) : h[i].idem # e.idem
  /\ h # <<>> => Last(h).at <= e.at
  /\ e.action = "revoke" => e.at < e.expires_at
  /\ e.action = "lift" =>
       h # <<>> /\ Last(h).action = "revoke" /\ e.at < Last(h).expires_at

\* The answer about the n-th transition of t.
Description(t, h, n) ==
  [idem |-> h[n].idem, req |-> h[n].req, target |-> t, generation |-> n,
   status |-> IF h[n].action = "revoke" THEN "active" ELSE "lifted",
   expires_at |-> IF h[n].action = "revoke" THEN h[n].expires_at
                  ELSE h[n - 1].expires_at]

Init ==
  /\ history = [t \in Targets |-> <<>>]
  /\ answers = {}

\* A transition is accepted; its client may or may not get the answer.
Accept(t, e) ==
  /\ Legal(history[t], e)
  /\ history' = [history EXCEPT ![t] = Append(@, e)]
  /\ answers' \in {answers,
       answers \union {Description(t, history'[t], Len(history'[t]))}}

\* An answer about a transition that was accepted before.
Repeat(t, n) ==
  /\ n \in 1 .. Len(history[t])
  /\ answers' = answers \union {Description(t, history[t], n)}
  /\ UNCHANGED history

Next ==
  \E t \in Targets :
    \/ \E e \in Entries : Accept(t, e)
    \/ \E n \in 1 .. Capacity : Repeat(t, n)

Spec == Init /\ [][Next]_vars
=============================================================================
