------------------------------- MODULE Charts -------------------------------
(* The charts of a form: responses grouped by a field, level after level, and *)
(* the list a click on a bar opens. Requests read a stamp of the responses,    *)
(* reuse an answer or a run of the same stamp, or run the aggregates           *)
(* themselves, while the responses change.                                     *)
EXTENDS Integers, FiniteSets, FiniteSetsExt, Sequences, SequencesExt, Functions

CONSTANTS
  Responses,
  Options,                \* of the choice question
  WeekOf,                 \* the week of each day
  Stages,
  Definitions,            \* charts: [levels: sequence of [field, bucket], filters: [op, items]], the
                          \*   items conditions [field, op, value] or groups of them
  Sample,                 \* per chart, answers a response may have
  Late,                   \* responses that come later
  Asks,                   \* requests
  DayLimit,               \* MANY_DAYS: above it days are grouped by week
  TopGroups, TimeGroups,  \* bars a chart shows
  MaxSegments,            \* MAX_BUCKETS: bars of the older charts
  MaxRunning, MaxCached, Ttl,
  MaxTime, MaxWrites, MaxAsks, MaxErrors,   \* bounds
  None

\* What a response has an answer to.
Fields == {"choice", "number", "rating", "time", "stage"}

\* Numbers have one decimal and are counted in hundredths; NiceSteps reach as far as this one.
MaxNumber == 125000
IsNumber(n) == n \in -MaxNumber..MaxNumber /\ n % 10 = 0

\* What is assumed of the constants.
ChartsAssumption ==
  /\ None \notin Options \cup Stages
  /\ Responses \subseteq Nat /\ IsFiniteSet(Responses) /\ IsFiniteSet(Options)
  /\ \A d \in Definitions : \A a \in Sample[d] :
       /\ DOMAIN a = Fields /\ \A n \in a.number : IsNumber(n)
       /\ \A f \in Fields : IsFiniteSet(a[f])
  /\ \A d \in Definitions :
       /\ Len(d.levels) \in Nat \ {0} /\ DOMAIN d.levels = 1..Len(d.levels)
       /\ \A i \in DOMAIN d.levels : d.levels[i].field \in Fields
  /\ \A d \in Definitions : \A i, j \in DOMAIN d.levels :
       i # j => d.levels[i].field # d.levels[j].field
  /\ TopGroups \in Nat /\ MaxRunning \in Nat \ {0} /\ MaxCached \in Nat \ {0} /\ Ttl \in Nat \ {0}

VARIABLES
  def,        \* the chart that is looked at
  resp,       \* the responses: where each is, and what it answers
  removed,    \* an option the form has lost
  version,    \* the form's content version
  cache,      \* sequence of [key, at, value], oldest first
  runs,       \* [key -> run] under way (the map inflight)
  running,    \* the counter beside it
  ask,        \* the requests
  now, writes, asks, errors

chartsVars == <<def, resp, removed, version, cache, runs, running, ask, now, writes, asks, errors>>
-----------------------------------------------------------------------------
(* What a response says for a field, and what a bar stands for. *)

Live == {r \in Responses : resp[r].is = "live"}
OptionsNow == Options \ {removed}

\* The usable answers to a question: what is blank or is no number is none.
Values(field, r) == resp[r][field]

\* The keys a response falls under; days may be bucketed.
Keys(level, r) ==
  IF level.field = "time" /\ level.bucket = "week"
  THEN {WeekOf[d] : d \in Values("time", r)}
  ELSE Values(level.field, r)

\* "any value the response gave": none is not equal to anything.
Passes(c, r) ==
  LET given == Values(c.field, r) IN
  \/ c.op \in {"is", "eq"} /\ c.value \in given
  \/ c.op \in {"is_not", "neq"} /\ c.value \notin given
  \/ c.op = "gte" /\ \E n \in given : n >= c.value
  \/ c.op = "lt" /\ \E n \in given : n < c.value

\* A tree of two levels; an empty group lets everything pass.
PassesGroup(g, r) ==
  \/ g.items = {}
  \/ g.op = "and" /\ \A c \in g.items : Passes(c, r)
  \/ g.op # "and" /\ \E c \in g.items : Passes(c, r)
PassesPart(i, r) == IF "items" \in DOMAIN i THEN PassesGroup(i, r) ELSE Passes(i, r)
Kept(r) ==
  LET tree == def.filters IN
  \/ tree.items = {}
  \/ tree.op = "and" /\ \A i \in tree.items : PassesPart(i, r)
  \/ tree.op # "and" /\ \E i \in tree.items : PassesPart(i, r)

Bar(is, key) == [is |-> is, key |-> key, lo |-> 0, hi |-> 0]
RangeBar(lo, hi) == [is |-> "range", key |-> None, lo |-> lo, hi |-> hi]

\* The response is in the group a bar of this level stands for.
InFocus(level, bar, r) ==
  LET keys == Keys(level, r) IN
  \/ bar.is = "blank" /\ keys = {}
  \/ bar.is = "other" /\ keys \ OptionsNow # {}
  \/ bar.is = "range" /\ \E n \in keys : n >= bar.lo /\ n < bar.hi
  \/ bar.is = "key" /\ bar.key \in keys

\* One condition for each part that was clicked, read against its own level.
Narrowed(path, r) == \A i \in DOMAIN path : InFocus(def.levels[i], path[i], r)
Matching(path) == {r \in Live : Kept(r) /\ Narrowed(path, r)}

-----------------------------------------------------------------------------
(* The bars of a level. *)

NiceSteps == {1, 2, 5, 10, 20, 50, 100, 200, 500, 1000, 2000, 5000, 10000, 20000, 50000}

\* Variant: the greatest number falls out of the last range.
NiceRangesOpen(min, max) ==
  IF max = min THEN [start |-> min, step |-> 100, count |-> 1]
  ELSE LET step  == Min({s \in NiceSteps : 5 * s >= max - min})
           start == step * (min \div step)
       IN [start |-> start, step |-> step, count |-> -((start - max) \div step)]

\* About five equal steps of 1, 2 or 5 times a power of ten that cover the numbers.
NiceRanges(min, max) ==
  IF max = min THEN [start |-> 100 * (min \div 100), step |-> 100, count |-> 1]
  ELSE LET step  == Min({s \in NiceSteps : 5 * s >= max - min})
           start == step * (min \div step)
           steps == -((start - max) \div step)
           count == IF start + steps * step <= max THEN steps + 1 ELSE steps
       IN [start |-> start, step |-> step, count |-> Min({count, 8})]

\* The ranges of a number field, of the responses that match; none without numbers.
NoRanges == [start |-> 0, step |-> 100, count |-> 0]
Ranges(path) ==
  LET all == UNION {Keys(def.levels[Len(path) + 1], r) : r \in Matching(path)}
  IN IF all = {} THEN NoRanges ELSE NiceRanges(Min(all), Max(all))

\* Each bar with how many responses it counts; a response counts once in a bar.
Counted(bar, rs) == [bar |-> bar, n |-> Cardinality(rs)]
With(level, rs, key) == {r \in rs : key \in Keys(level, r)}
Groups(level, ranges, rs) ==
  LET keys == UNION {Keys(level, r) : r \in rs} IN
  CASE level.field = "choice" ->
         {Counted(Bar("key", o), With(level, rs, o)) : o \in OptionsNow}
         \cup IF keys \subseteq OptionsNow THEN {}
              ELSE {Counted(Bar("other", None), {r \in rs : ~(Keys(level, r) \subseteq OptionsNow)})}
    [] level.field = "number" ->
         {LET lo == ranges.start + i * ranges.step IN
            Counted(RangeBar(lo, lo + ranges.step),
                    {r \in rs : \E n \in Keys(level, r) : (n - ranges.start) \div ranges.step = i})
          : i \in 0..(ranges.count - 1)}
    [] OTHER -> {Counted(Bar("key", k), With(level, rs, k)) : k \in keys}

\* Days of submission, and of answers to a question for a date.
IsTime(level) == level.field = "time"

\* More days than a year has: they are counted again by week.
Regrouped(level, rs) ==
  IF IsTime(level) /\ level.bucket = "day" /\ Cardinality(UNION {Keys(level, r) : r \in rs}) > DayLimit
  THEN [level EXCEPT !.bucket = "week"] ELSE level

\* The top groups, or the latest ones of a time series.
Shown(level, bars) ==
  IF IsTime(level)
  THEN {b \in bars : Cardinality({c \in bars : c.bar.key > b.bar.key}) < TimeGroups}
  ELSE IF Cardinality(bars) <= TopGroups THEN bars
       ELSE CHOOSE kept \in kSubset(TopGroups, bars) :
              \A b \in kept, c \in bars \ kept : b.n >= c.n
-----------------------------------------------------------------------------
Init ==
  /\ def \in Definitions
  /\ \E answers \in [Responses -> Sample[def]] :
       resp = [r \in Responses |-> [f \in Fields \cup {"is"} |->
                 IF f # "is" THEN answers[r][f] ELSE IF r \in Late THEN "none" ELSE "live"]]
  /\ removed = None /\ version = 0
  /\ cache = <<>> /\ runs = << >> /\ running = 0
  /\ ask = [q \in Asks |-> [at |-> "idle"]]
  /\ now = 0 /\ writes = 0 /\ asks = 0 /\ errors = 0
-----------------------------------------------------------------------------
(* Requests: the stamp, the cache, the runs. *)

Idle == [at |-> "idle"]
Set(q, value) == ask' = [ask EXCEPT ![q] = value]
DataUnchanged == UNCHANGED <<def, resp, removed, version, writes>>
ServerUnchanged == UNCHANGED <<cache, runs, running>>
Told(q, what, path, value) ==
  Set(q, [at |-> "told", what |-> what, path |-> path, value |-> value])

\* A chart is opened, or one of the bars of the chart that is shown is clicked.
Ask(q) ==
  /\ ask[q].at \in {"idle", "told"} /\ asks < MaxAsks
  /\ \E path \in {<< >>} \cup
         (IF ask[q].at = "told" /\ ask[q].what = "chart" /\ Len(ask[q].path) + 1 < Len(def.levels)
          THEN {Append(ask[q].path, b.bar) : b \in ask[q].value.bars} ELSE {}) :
       Set(q, [at |-> "stamp", path |-> path, count |-> None, newest |-> None])
  /\ asks' = asks + 1
  /\ DataUnchanged /\ ServerUnchanged /\ UNCHANGED <<now, errors>>

\* The stamp is two queries side by side; the newest response may be in Trash.
CountLive(q) ==
  /\ ask[q].at = "stamp" /\ ask[q].count = None
  /\ Set(q, [ask[q] EXCEPT !.count = Cardinality(Live)])
  /\ DataUnchanged /\ ServerUnchanged /\ UNCHANGED <<now, asks, errors>>

Known == {r \in Responses : resp[r].is # "none"}
ReadNewest(q) ==
  /\ ask[q].at = "stamp" /\ ask[q].newest = None
  /\ Set(q, [ask[q] EXCEPT !.newest = Max({0} \cup Known)])
  /\ DataUnchanged /\ ServerUnchanged /\ UNCHANGED <<now, asks, errors>>

\* The older charts, and a question's analytics: one aggregate over all responses, a bar for
\* every number and every day.
Segments(level) ==
  LET bars == IF level.field = "choice" THEN Groups(level, None, Live)
              ELSE LET keys == UNION {Keys(level, r) : r \in Live}
                   IN {Counted(Bar("key", k), With(level, Live, k)) : k \in keys}
      kept == IF level.field = "choice" THEN bars
              ELSE {b \in bars : Cardinality({c \in bars : c.bar.key < b.bar.key}) < MaxSegments}
  IN [bars |-> kept, whole |-> TRUE, cut |-> kept # bars]

Aggregate(q) ==
  /\ ask[q].at \in {"idle", "told"} /\ asks < MaxAsks /\ asks' = asks + 1
  /\ def.levels[1].field \in {"choice", "number", "time"}
  /\ Told(q, "segments", << >>, Segments(def.levels[1]))
  /\ DataUnchanged /\ ServerUnchanged /\ UNCHANGED <<now, errors>>

KeyOf(q) == <<ask[q].path, version, ask[q].count, ask[q].newest>>
Cached(key) == {i \in DOMAIN cache : cache[i].key = key}
Fresh(i) == now - cache[i].at < Ttl

\* What follows the stamp without another await.
Stamped(q) == ask[q].at = "stamp" /\ ask[q].count # None /\ ask[q].newest # None

Reuse(q) ==
  /\ Stamped(q)
  /\ \E i \in Cached(KeyOf(q)) : Fresh(i) /\ Told(q, "chart", ask[q].path, cache[i].value)
  /\ DataUnchanged /\ ServerUnchanged /\ UNCHANGED <<now, asks, errors>>

Join(q) ==
  /\ Stamped(q) /\ \A i \in Cached(KeyOf(q)) : ~Fresh(i)
  /\ KeyOf(q) \in DOMAIN runs
  /\ Set(q, [at |-> "wait", path |-> ask[q].path, key |-> KeyOf(q)])
  /\ DataUnchanged /\ ServerUnchanged /\ UNCHANGED <<now, asks, errors>>

\* Variant: one more.
MayRunOneMore == running <= MaxRunning

\* A run of one's own, or a 429 when all places are taken.
MayRun == running < MaxRunning

Start(q) ==
  /\ Stamped(q) /\ \A i \in Cached(KeyOf(q)) : ~Fresh(i)
  /\ KeyOf(q) \notin DOMAIN runs
  /\ \/ /\ MayRun
        /\ runs' = [k \in DOMAIN runs \cup {KeyOf(q)} |->
                       IF k \in DOMAIN runs THEN runs[k]
                       ELSE [at |-> "ranges", path |-> ask[q].path, ranges |-> None, clean |-> TRUE, value |-> None]]
        /\ running' = running + 1
        /\ Set(q, [at |-> "wait", path |-> ask[q].path, key |-> KeyOf(q)])
     \/ /\ ~MayRun
        /\ Told(q, "busy", ask[q].path, None)
        /\ UNCHANGED <<runs, running>>
  /\ DataUnchanged /\ UNCHANGED <<cache, now, asks, errors>>

\* runChart: the ranges of a number field are read before the groups are counted.
LevelOf(path) == def.levels[Len(path) + 1]
ReadRanges(key) ==
  /\ runs[key].at = "ranges"
  /\ runs' = [runs EXCEPT ![key].at = "groups",
               ![key].ranges = IF LevelOf(runs[key].path).field = "number"
                               THEN Ranges(runs[key].path) ELSE None]
  /\ DataUnchanged /\ UNCHANGED <<cache, running, ask, now, asks, errors>>

CountGroups(key) ==
  /\ runs[key].at = "groups"
  /\ LET path  == runs[key].path
         rs    == Matching(path)
         asked == LevelOf(path)
         level == Regrouped(asked, rs)
     IN runs' = [runs EXCEPT ![key].at = "rest",
                 ![key].value = [bars |-> Groups(level, runs[key].ranges, rs),
                                 total |-> Cardinality(rs),
                                 answered |-> Cardinality({r \in rs : Keys(level, r) # {}}),
                                 regrouped |-> level # asked]]
  /\ DataUnchanged /\ UNCHANGED <<cache, running, ask, now, asks, errors>>

\* A rating has a bar for those not scored, counted last; then the names are read.
Rest(key) ==
  LET value == runs[key].value
      level == LevelOf(runs[key].path)
      blank == {r \in Matching(runs[key].path) : Keys(level, r) = {}}
      bars  == IF level.field = "rating" /\ value.total > value.answered /\ blank # {}
               THEN value.bars \cup {Counted(Bar("blank", None), blank)} ELSE value.bars
      shown == Shown(IF value.regrouped THEN [level EXCEPT !.bucket = "week"] ELSE level, bars)
  IN [bars |-> shown, whole |-> runs[key].clean /\ ~value.regrouped, cut |-> bars # shown]

\* Everybody who waits for the run is answered; its place is free again.
EndRun(key, what, value) ==
  /\ ask' = [q \in Asks |->
       IF ask[q].at = "wait" /\ ask[q].key = key
       THEN [at |-> "told", what |-> what, path |-> ask[q].path, value |-> value] ELSE ask[q]]
  /\ runs' = Restrict(runs, DOMAIN runs \ {key})
  /\ running' = running - 1

\* Map.set keeps the place of a key it has; the first one goes when there are too many.
Stored(key, value) ==
  LET entry == [key |-> key, at |-> now, value |-> value]
      room  == IF Len(cache) >= MaxCached THEN Tail(cache) ELSE cache
  IN IF \E i \in DOMAIN room : room[i].key = key
     THEN [i \in DOMAIN room |-> IF room[i].key = key THEN entry ELSE room[i]]
     ELSE Append(room, entry)

Finish(key) ==
  /\ runs[key].at = "rest"
  /\ LET value == Rest(key) IN
       cache' = Stored(key, value) /\ EndRun(key, "chart", value)
  /\ DataUnchanged /\ UNCHANGED <<now, asks, errors>>

\* Variant: a run that failed keeps its place.
TooSlowKeepsPlace(key) ==
  /\ errors < MaxErrors
  /\ ask' = [q \in Asks |->
       IF ask[q].at = "wait" /\ ask[q].key = key
       THEN [at |-> "told", what |-> "error", path |-> ask[q].path, value |-> None] ELSE ask[q]]
  /\ runs' = Restrict(runs, DOMAIN runs \ {key})
  /\ errors' = errors + 1
  /\ DataUnchanged /\ UNCHANGED <<cache, running, now, asks>>

\* An aggregate is cut off, or fails: 503, and the place is free as well.
TooSlow(key) ==
  /\ errors < MaxErrors
  /\ EndRun(key, "error", None)
  /\ errors' = errors + 1
  /\ DataUnchanged /\ UNCHANGED <<cache, now, asks>>
-----------------------------------------------------------------------------
(* What changes meanwhile. *)

Answered(a) == a.at = "told" /\ a.what \in {"chart", "segments"}

\* A chart that was computed is of the past from here on.
Past(value) == [value EXCEPT !.whole = FALSE]
Write ==
  /\ writes < MaxWrites /\ writes' = writes + 1
  /\ runs' = [k \in DOMAIN runs |->
       IF runs[k].at = "ranges" THEN runs[k] ELSE [runs[k] EXCEPT !.clean = FALSE]]
  /\ cache' = [i \in DOMAIN cache |-> [cache[i] EXCEPT !.value = Past(@)]]
  /\ ask' = [q \in Asks |-> IF Answered(ask[q]) THEN [ask[q] EXCEPT !.value = Past(@)] ELSE ask[q]]
  /\ UNCHANGED <<def, running, now, asks, errors>>

Submit(r) ==
  /\ resp[r].is = "none" /\ \A s \in Responses : s < r => resp[s].is # "none"
  /\ resp' = [resp EXCEPT ![r].is = "live"]
  /\ Write /\ UNCHANGED <<removed, version>>

TrashOrRestore(r) ==
  /\ resp[r].is # "none"
  /\ resp' = [resp EXCEPT ![r].is = IF @ = "live" THEN "trash" ELSE "live"]
  /\ Write /\ UNCHANGED <<removed, version>>

MoveStage(r) ==
  /\ resp[r].is = "live" /\ resp[r].stage # {}
  /\ \E s \in Stages : s \notin resp[r].stage /\ resp' = [resp EXCEPT ![r].stage = {s}]
  /\ Write /\ UNCHANGED <<removed, version>>

RemoveOption ==
  /\ removed = None /\ \E i \in DOMAIN def.levels : def.levels[i].field = "choice"
  /\ \E o \in Options : removed' = o
  /\ version' = version + 1
  /\ Write /\ UNCHANGED resp

Tick == now < MaxTime /\ now' = now + 1 /\ UNCHANGED <<def, resp, removed, version, cache, runs, running, ask, writes, asks, errors>>

Run(key) == ReadRanges(key) \/ CountGroups(key) \/ Finish(key)
Serve(q) == CountLive(q) \/ ReadNewest(q) \/ Reuse(q) \/ Join(q) \/ Start(q)

ChartsNext ==
  \/ \E q \in Asks : Ask(q) \/ Aggregate(q) \/ Serve(q)
  \/ \E key \in DOMAIN runs : Run(key) \/ TooSlow(key)
  \/ \E r \in Responses : Submit(r) \/ TrashOrRestore(r) \/ MoveStage(r)
  \/ RemoveOption \/ Tick
-----------------------------------------------------------------------------
(* Properties. *)

\* The answer a request shows, counted from the responses as they still are.
Current(q) == Answered(ask[q]) /\ ask[q].value.whole

\* The responses an answer counts, and the rows of the Responses page behind one of its bars.
Population(q) == IF ask[q].what = "chart" THEN Matching(ask[q].path) ELSE Live
RowsOf(q, bar) == {r \in Population(q) : InFocus(LevelOf(ask[q].path), bar, r)}

\* chartQuery.ts: "the number on a bar is the number of rows the Responses page lists for
\* the same filter", at every depth, while nothing changed since it was counted (days that
\* were counted again by week apart).
BarsOpenTheirRows ==
  \A q \in Asks :
    Current(q) => \A b \in ask[q].value.bars : b.n = Cardinality(RowsOf(q, b.bar))

\* Nobody who answered is left out: he is behind one of the bars, unless the chart says
\* that it shows some of them only.
EverybodyHasABar ==
  \A q \in Asks :
    Current(q) /\ ~ask[q].value.cut =>
      \A r \in Population(q) :
        Keys(LevelOf(ask[q].path), r) # {} =>
          \E b \in ask[q].value.bars : r \in RowsOf(q, b.bar)

\* "at most four run at once": the counter is the number of runs, whatever fails.
PlacesHeld == running = Cardinality(DOMAIN runs) /\ running <= MaxRunning

\* Everybody who waits, waits for a run.
WaitersHaveRuns == \A q \in Asks : ask[q].at = "wait" => ask[q].key \in DOMAIN runs
=============================================================================
