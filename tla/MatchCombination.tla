-------------------------- MODULE MatchCombination --------------------------
(***************************************************************************)
(* The combinations of party sizes that fill a match (MatchmakingRule and  *)
(* Number::MakeCombination).  A combination says how many parties of each  *)
(* size it takes; the rule keeps, under each size, the list of the         *)
(* combinations that have a party of it.                                   *)
(***************************************************************************)
EXTENDS Integers, SequencesExt

Least(i, j) == IF i < j THEN i ELSE j

\* A part put before each of the lists.
Prefixed(part, lists) == [j \in DOMAIN lists |-> <<part>> \o lists[j]]

\* A variant with a bug: the next part is larger than the last one.
PartsOfGrowingSize(count, max) ==
  LET lists[r \in 0 .. count] ==
        [next \in 1 .. count + 1 |->
           IF r = 0 THEN << <<>> >>
           ELSE IF next > Least(r, max) THEN <<>>
           ELSE FlattenSeq([i \in 1 .. Least(r, max) - next + 1 |->
                  LET part == next + i - 1 IN Prefixed(part, lists[r - part][part + 1])])]
  IN lists[count][1]

\* The lists of parts in the order the stack of MakeCombination finishes them.
\* A frame has the count that remains and the part size it tries next; the frame
\* of a part begins with the size of that part, so parts never get smaller.
PartLists(count, max) ==
  LET lists[r \in 0 .. count] ==
        [next \in 1 .. count |->
           IF r = 0 THEN << <<>> >>
           ELSE IF next > Least(r, max) THEN <<>>
           ELSE FlattenSeq([i \in 1 .. Least(r, max) - next + 1 |->
                  LET part == next + i - 1 IN Prefixed(part, lists[r - part][part])])]
  IN lists[count][1]

\* grouped_combination: a list of parts as a count for each size.
Grouped(parts) ==
  [size \in Range(parts) |-> Cardinality({i \in DOMAIN parts : parts[i] = size})]

\* m_Combination of a rule: a finished combination goes to the end of the list of
\* each of its sizes; sizes that are not positive have none.
MakeCombination(matchPlayerCount, partyMax) ==
  IF matchPlayerCount <= 0 \/ partyMax <= 0 THEN <<>>
  ELSE LET lists == PartLists(matchPlayerCount, partyMax)
           all == [i \in DOMAIN lists |-> Grouped(lists[i])]
       IN  [size \in UNION {DOMAIN all[i] : i \in DOMAIN all} |->
              FlattenSeq([i \in DOMAIN all |->
                            IF size \in DOMAIN all[i] THEN <<all[i]>> ELSE <<>>])]

GetCombination(combination, size) ==
  IF size \in DOMAIN combination THEN combination[size] ELSE <<>>

-----------------------------------------------------------------------------
(* What the combinations should be.                                        *)

\* Every choice of a positive number of parties for some of the sizes.
PartyCounts(n, max) == UNION {[sizes -> 1 .. n] : sizes \in SUBSET (1 .. Least(n, max))}

Total(c) == MapThenSumSet(LAMBDA size : size * c[size], DOMAIN c)

\* Those that have the number of players of a match.
FullCounts(n, max) == {c \in PartyCounts(n, max) : n > 0 /\ Total(c) = n}

\* The rule has a list for each size that has room in a match, and its list for
\* this size has exactly the choices that have the size and fill the match, each
\* once.
HasSizes(n, max) == DOMAIN MakeCombination(n, max) = 1 .. Least(n, max)

HasCounts(n, max, size) ==
  LET list == GetCombination(MakeCombination(n, max), size) IN
  /\ Range(list) = {c \in FullCounts(n, max) : size \in DOMAIN c}
  /\ Len(list) = Cardinality(Range(list))

\* The sizes tried include zero, a negative one and parties larger than the match.
MaxMatch == 5
MaxParty == 6

CompleteRules ==
  {rule \in (-1 .. MaxMatch) \X (-1 .. MaxParty) :
     /\ HasSizes(rule[1], rule[2])
     /\ \A size \in -1 .. MaxParty + 1 : HasCounts(rule[1], rule[2], size)}

\* The stack of MakeCombination visits every way to fill a match, and none twice:
\* a worker that finds no candidate has not overlooked one, and a party is refused
\* only if no match has room for it.
CombinationsAreAll == CompleteRules = (-1 .. MaxMatch) \X (-1 .. MaxParty)

=============================================================================
