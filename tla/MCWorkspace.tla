----------------------------- MODULE MCWorkspace -----------------------------
EXTENDS Workspace, TLC

CONSTANTS
  ann, bob, guest, a1, a2, i1, i2,                                    \* Membership
  a, b, o, s1, s2, w1, w2, qa, qb                                     \* Insight

Level(field, bucket) == [field |-> field, bucket |-> bucket]
Where(field, op, value) == [field |-> field, op |-> op, value |-> value]
Chart(levels, op, items) == [levels |-> levels, filters |-> [op |-> op, items |-> items]]
Answers(choice, number, rating, time, stage) ==
  [choice |-> choice, number |-> number, rating |-> rating, time |-> time, stage |-> stage]

ByChoice == Chart(<<Level("choice", None), Level("number", None)>>, "and", {})
ByRating == Chart(<<Level("rating", None), Level("choice", None)>>, "and",
  {Where("number", "gte", 200),
   [op |-> "or", items |-> {Where("choice", "is_not", b), Where("rating", "eq", 20)}]})
ByDay    == Chart(<<Level("time", "day"), Level("stage", None)>>, "and", {Where("number", "lt", 200)})
ByWeek   == Chart(<<Level("time", "week"), Level("rating", None)>>, "or",
  {Where("choice", "is_not", a), Where("rating", "neq", 10)})
ByNumber == Chart(<<Level("number", None)>>, "and", {Where("choice", "is", a)})
Menu == {ByChoice, ByRating, ByDay, ByWeek, ByNumber}

SampleOf ==
     ByChoice :> {Answers({a, o}, {100}, {}, {1}, {}), Answers({a, b}, {350}, {}, {1}, {}),
                  Answers({}, {}, {}, {1}, {})}
  @@ ByRating :> {Answers({a}, {200}, {10}, {1}, {}), Answers({o}, {300}, {}, {1}, {}),
                  Answers({b}, {100}, {20}, {1}, {})}
  @@ ByDay :> {Answers({}, {100}, {}, {1}, {s1}), Answers({}, {100}, {}, {2}, {}),
               Answers({}, {0}, {}, {3}, {s2})}
  @@ ByWeek :> {Answers({}, {}, {10}, {1}, {}), Answers({a}, {}, {10}, {2}, {}),
                Answers({b}, {}, {}, {3}, {})}
  @@ ByNumber :> {Answers({a}, {n}, {}, {1}, {}) : n \in {0, -150, 470, 500, 3330}}
Weeks == 1 :> 101 @@ 2 :> 101 @@ 3 :> 102

Design(legacy, levels, measure, filter) ==
  [legacy |-> legacy, levels |-> levels, measure |-> measure, filter |-> filter]
Drawn == {Design(TRUE, <<qa>>, None, None), Design(FALSE, <<qa, qb>>, None, None),
          Design(FALSE, <<qa>>, qb, qa)}

\* Requests are alike, and so are invitation rows.
Alike == Permutations({a1, a2}) \cup Permutations({i1, i2})
=============================================================================
