----------------------------- MODULE Aggregates -----------------------------
(***************************************************************************)
(* aggregate of MongooseResourceService and of TypeOrmResourceService      *)
(* (lib/resource/services): the count of the documents that a filter       *)
(* selects, in total and for each step of a range of time.  The items of   *)
(* the answer carry no date: a client knows which step an item is about    *)
(* only by its place.                                                      *)
(*                                                                         *)
(* Time is in half seconds, and the origin of $dateTrunc is 0.  A filter   *)
(* is a set of conditions: flag, on another field, and since, on the field *)
(* that the range is about.                                                *)
(***************************************************************************)
EXTENDS Integers, Sequences, FiniteSets

CONSTANTS
  Since,    \* the date that the condition since asks for
  NoRange

VARIABLE summary  \* an aggregation: the documents and the request, then the answer

Second == 2

Dated == [date : Nat, flag : BOOLEAN]
TimeRange == [start : Nat, end : Nat, step : Nat \ {0}]   \* step in seconds
NoSummary ==
  [pc |-> "none", orm |-> "mongoose", documents |-> <<>>, filter |-> {}, range |-> NoRange,
   total |-> 0, items |-> <<>>]

Meet(documents, filter) ==
  {i \in DOMAIN documents : /\ "flag" \in filter => documents[i].flag
                            /\ "since" \in filter => documents[i].date >= Since}

\* start, start + step, ... before end
Dates(range) ==
  {date \in range.start .. range.end - 1 : (date - range.start) % (Second * range.step) = 0}

\* Each date comes at the place that counts those up to it.
InOrder(dates) ==
  [place \in 1 .. Cardinality(dates) |->
     CHOOSE date \in dates : Cardinality({earlier \in dates : earlier <= date}) = place]

-----------------------------------------------------------------------------
(* mongoose *)

\* $match, which is there only with a filter; the range replaces a condition on its field.
MatchedInRange(documents, filter, range) ==
  IF filter = {} THEN DOMAIN documents
  ELSE {i \in Meet(documents, filter \ {"since"}) :
          range.start <= documents[i].date /\ documents[i].date <= range.end}

\* $dateTrunc
Truncated(date, range) == date - (date % (Second * range.step))

\* $group, then $densify, which adds the dates of the range that no group has
MongooseItems(documents, filter, range) ==
  LET matched == MatchedInRange(documents, filter, range)
      group(i) == Truncated(documents[i].date, range)
      groups == InOrder({group(i) : i \in matched} \cup Dates(range))
  IN [place \in DOMAIN groups |-> Cardinality({i \in matched : group(i) = groups[place]})]

-----------------------------------------------------------------------------
(* TypeORM *)

\* Mutant: half a step is rounded down.
HalfStepDown(range) == Second * (range.step \div 2)

\* Math.round of half a step, in seconds
HalfStep(range) == Second * ((range.step + 1) \div 2)

\* timeRangeCondition, for a date that has lost its fraction of a second
Window(documents, date, range) ==
  LET second == date - (date % Second)
  IN {i \in DOMAIN documents : /\ documents[i].date - HalfStep(range) < second
                               /\ documents[i].date + HalfStep(range) > second}

\* The left join of the dates with the documents: a date stays when its window is empty or
\* has a document that the filter selects.
TypeormItems(documents, filter, range) ==
  LET selected(date) == Window(documents, date, range) \cap Meet(documents, filter)
      stays(date) == Window(documents, date, range) = {} \/ selected(date) # {}
      rows == InOrder({date \in Dates(range) : stays(date)})
  IN [place \in DOMAIN rows |-> Cardinality(selected(rows[place]))]

-----------------------------------------------------------------------------
\* Reading step throws when there is no range, and the answer is that the request is bad.
Aggregate(orm, documents, filter, range) ==
  /\ summary.pc = "none"
  /\ summary' =
       IF range = NoRange THEN [NoSummary EXCEPT !.pc = "refused"]
       ELSE [pc |-> "answered", orm |-> orm, documents |-> documents, filter |-> filter, range |-> range,
             total |-> Cardinality(Meet(documents, filter)),
             items |-> IF orm = "mongoose" THEN MongooseItems(documents, filter, range)
                                           ELSE TypeormItems(documents, filter, range)]

\* There is an item for each step of the range, which counts the selected documents from
\* its date on (mongoose) or those nearest to its date (TypeORM).  Except, with mongoose:
\* a range that starts within a step of $dateTrunc, documents out of the range when there is
\* no filter or at its very end, and a condition on the date, which the range replaces.  And
\* with TypeORM: documents less than half a second from the middle between two dates, which
\* count twice or not at all, a start with a fraction of a second, and a step with documents
\* none of which is selected, which has no item (mongoose-resource.service.ts:185 and 204,
\* typeorm-resource.service.ts:204 and 285).
ItemsStandForSteps ==
  summary.pc = "answered" =>
    LET range == summary.range
        documents == summary.documents
        size == Second * range.step
        steps == {i \in 1 .. range.end : range.start + (i - 1) * size < range.end}
        from(i) == documents[i].date - range.start
        about(step) ==
          IF summary.orm = "mongoose"
            THEN {i \in DOMAIN documents : (step - 1) * size <= from(i) /\ from(i) < step * size
                                           /\ documents[i].date < range.end}
            ELSE {i \in DOMAIN documents : (2 * step - 3) * range.step < from(i)
                                           /\ from(i) < (2 * step - 1) * range.step}
        selected == Meet(documents, summary.filter)
        regular ==
          IF summary.orm = "mongoose"
            THEN /\ range.start % size = 0 /\ "since" \notin summary.filter
                 /\ \A i \in DOMAIN documents :
                      /\ documents[i].date # range.end
                      /\ summary.filter = {} => range.start <= documents[i].date /\ documents[i].date < range.end
            ELSE /\ range.start % Second = 0
                 /\ \A i \in DOMAIN documents, step \in {0} \cup steps : from(i) # (2 * step - 1) * range.step
                 /\ \A step \in steps : about(step) = {} \/ about(step) \cap selected # {}
    IN regular => summary.items = [step \in steps |-> Cardinality(about(step) \cap selected)]
=============================================================================
