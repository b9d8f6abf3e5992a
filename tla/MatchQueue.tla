----------------------------- MODULE MatchQueue -----------------------------
(***************************************************************************)
(* What a matchmaking queue promises, whatever its workers, locks and      *)
(* scans: a ticket that waits is cancelled or becomes part of one match,   *)
(* and a match is a set of tickets with exactly the players the rule asks  *)
(* for.  SoloQueue and PartyQueue implement it.                            *)
(***************************************************************************)
CONSTANTS
  Tickets,
  FullMatches   \* the sets of tickets with the player count of the rule

VARIABLES
  state,    \* new, waiting, cancelled, refused or matched
  matches   \* the matches handed to the session manager

queueVars == <<state, matches>>

Init ==
  /\ state = [t \in Tickets |-> "new"]
  /\ matches = {}

Move(t, from, to) ==
  /\ state[t] \in from
  /\ state' = [state EXCEPT ![t] = to]
  /\ UNCHANGED matches

Queue(t) == Move(t, {"new"}, "waiting")

\* A ticket can be cancelled before it waits: its manager knows it earlier.
Cancel(t) == Move(t, {"new", "waiting"}, "cancelled")

Refuse(t) == Move(t, {"new"}, "refused")

Match(S) ==
  /\ S \in FullMatches
  /\ \A t \in S : state[t] = "waiting"
  /\ state' = [t \in Tickets |-> IF t \in S THEN "matched" ELSE state[t]]
  /\ matches' = matches \cup {S}

Next ==
  \/ \E t \in Tickets : Queue(t) \/ Cancel(t) \/ Refuse(t)
  \/ \E S \in FullMatches : Match(S)

Spec == Init /\ [][Next]_queueVars

\* A ticket is in a match exactly if it is matched, in one match only, and
\* each match has the player count of the rule.
MatchedOnce ==
  /\ \A t \in Tickets : state[t] = "matched" <=> t \in UNION matches
  /\ \A S, T \in matches : S # T => S \cap T = {}
  /\ matches \subseteq FullMatches

=============================================================================
