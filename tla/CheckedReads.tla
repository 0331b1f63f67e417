---------------------------- MODULE CheckedReads ----------------------------
(***************************************************************************)
(* How the asset decoders are written: a run of checks, each returning its *)
(* own status when it does not hold, with reads between them.  A decoder   *)
(* is a sequence of steps; a step is a check and the reads made once it    *)
(* holds, a read is <<range, capacity>> with range = <<offset, size>> in a *)
(* buffer, table or vector of that many bytes or elements.                 *)
(***************************************************************************)
EXTENDS Integers, Sequences, SequencesExt

\* Of what parsers are given: fields read as signed may be negative.
IsSequence(s) == s \in Seq(Range(s))

\* fits, byteRangeFits: no offset the code adds up can overflow 64 bits.
RangeFits(range, capacity) == range[1] + range[2] <= capacity

\* arrayRangeFits: an empty table may be anywhere.
TableFits(range, capacity) == range[2] = 0 \/ RangeFits(range, capacity)

Require(failure, holds, reads) ==
  [failure |-> failure, holds |-> holds, reads |-> IF holds THEN reads ELSE {}]

\* Reads behind no check of their own.
Reading(reads) == Require("none", TRUE, reads)

FirstFailure(steps) ==
  LET failing == {i \in DOMAIN steps : ~steps[i].holds} IN
  IF failing = {} THEN 0 ELSE Min(failing)

Outcome(steps) ==
  IF FirstFailure(steps) = 0 THEN "Ok" ELSE steps[FirstFailure(steps)].failure

\* The reads made before the decoder returned, whatever it returned.
ReadsOf(steps) ==
  LET made == IF FirstFailure(steps) = 0 THEN steps
              ELSE SubSeq(steps, 1, FirstFailure(steps) - 1)
  IN UNION {s.reads : s \in Range(made)}

\* What comes after steps that all hold; looked at only then.
Then(steps, more) == IF FirstFailure(steps) = 0 THEN steps \o more ELSE steps

\* A loop: the steps of each turn of it, up to the first that fails.
ForEach(turns) ==
  LET upTo[i \in 0 .. Len(turns)] ==
        IF i = 0 THEN <<>> ELSE Then(upTo[i - 1], turns[i])
  IN upTo[Len(turns)]

\* The steps of a call inside another decoder, seen there as one status.
Within(status, steps) ==
  [i \in DOMAIN steps |-> Require(status, steps[i].holds, steps[i].reads)]

\* The elements of s at those places, in order, and each value of s once.
Select(s, places) ==
  LET upTo[i \in 0 .. Len(s)] ==
        IF i = 0 THEN <<>> ELSE IF i \in places THEN Append(upTo[i - 1], s[i]) ELSE upTo[i - 1]
  IN upTo[Len(s)]

FirstOfEach(s) == Select(s, {i \in DOMAIN s : \A j \in 1 .. i - 1 : s[j] # s[i]})

\* A finite set of numbers, the smallest first.
Ascending(S) ==
  [n \in 1 .. Cardinality(S) |-> CHOOSE c \in S : Cardinality({d \in S : d < c}) = n - 1]

\* Element number i, counted from zero, of a table, and a whole range of it.
Element(i, count) == <<<<i, 1>>, count>>
Bytes(offset, size, capacity) == <<<<offset, size>>, capacity>>
=============================================================================
