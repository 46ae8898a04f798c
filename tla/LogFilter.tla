------------------------------ MODULE LogFilter ------------------------------
(***************************************************************************)
(* How get_logs turns the topics of an Ethereum filter into a MongoDB      *)
(* query.  A filter has a position per topic: nothing (any topic), a topic *)
(* or a set of alternatives.  The code walks the positions, drops the      *)
(* empty ones and strings the others together into one list, alternatives  *)
(* in the order a hash set yields them; the query compares that list with  *)
(* a prefix ($slice) of the topics of each log.                            *)
(***************************************************************************)
EXTENDS Naturals, Sequences, FiniteSets

CONSTANTS Topic,         \* the topics
          MaxPositions   \* a filter's positions, and the most topics of a log

ASSUME PositionsAssumption == MaxPositions \in Nat \ {0} /\ IsFiniteSet(Topic)

VARIABLES filter,   \* the positions asked for
          log,      \* the topics of a stored log
          position, \* the positions walked so far
          topics,   \* the list the code has collected
          verdict   \* whether the query returned the log

filterVars == <<filter, log, position, topics, verdict>>

FilterInit ==
  /\ filter \in [1..MaxPositions -> SUBSET Topic]
  /\ log \in UNION {[1..n -> Topic] : n \in 0..MaxPositions}
  /\ position = 0
  /\ topics = <<>>
  /\ verdict = "none"

(***************************************************************************)
(* The orders a hash set may be iterated in.                               *)
(***************************************************************************)
Orders(S) == {s \in [1..Cardinality(S) -> S] : {s[i] : i \in DOMAIN s} = S}

Flatten ==
  /\ position < MaxPositions
  /\ position' = position + 1
  /\ \E order \in Orders(filter[position + 1]) : topics' = topics \o order
  /\ UNCHANGED <<filter, log, verdict>>

Whole(n) == log   \* a mutant of Slice: no $slice

(***************************************************************************)
(* {"$eq": [{"$slice": ["$log.topics", n]}, topics]}, n the list's length  *)
(***************************************************************************)
Slice(n) == SubSeq(log, 1, IF n < Len(log) THEN n ELSE Len(log))

RunQuery ==
  /\ position = MaxPositions
  /\ verdict = "none"
  /\ verdict' = IF Slice(Len(topics)) = topics THEN "returned" ELSE "left out"
  /\ UNCHANGED <<filter, log, position, topics>>

Finished == verdict # "none" /\ UNCHANGED filterVars

FilterNext == Flatten \/ RunQuery \/ Finished

FilterSpec == FilterInit /\ [][FilterNext]_filterVars

-----------------------------------------------------------------------------
(***************************************************************************)
(* What the filter asks for: at each position that names topics, one of    *)
(* them.                                                                   *)
(***************************************************************************)
AskedFor ==
  \A i \in 1..MaxPositions :
    filter[i] # {} => i <= Len(log) /\ log[i] \in filter[i]

(***************************************************************************)
(* A plain filter: one topic in each of the first positions, none after.   *)
(***************************************************************************)
Plain ==
  /\ \A i \in 1..MaxPositions : Cardinality(filter[i]) <= 1
  /\ \A i, j \in 1..MaxPositions : i < j /\ filter[i] = {} => filter[j] = {}

(***************************************************************************)
(* A plain filter, of any length and for logs with more, fewer or no       *)
(* topics, returns exactly the logs it asks for.                           *)
(***************************************************************************)
PlainFilterExact == Plain /\ verdict # "none" => (verdict = "returned" <=> AskedFor)

(***************************************************************************)
(* get_logs "Returns the logs for the given filter": any filter returns    *)
(* the logs it asks for and no other.  Alternatives are strung together    *)
(* and so required one after the other, and a position left open shifts    *)
(* the ones after it.                                                      *)
(***************************************************************************)
FilterExact == verdict # "none" => (verdict = "returned" <=> AskedFor)
=============================================================================
