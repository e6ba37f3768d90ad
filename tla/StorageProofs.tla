--------------------------- MODULE StorageProofs ---------------------------
(***************************************************************************)
(* Proofs about what is stored.  Storage, for any accounts, workspaces,    *)
(* forms, answers, scenes, requests and measurements: an account at rest   *)
(* has its usage on its counter, and the ceiling is passed by a document   *)
(* per request at most.  Retention, for every number of forms, responses,  *)
(* members and timers, every batch size and every number of faults: what   *)
(* is gone left nothing behind, and the timer removes only what has        *)
(* expired.                                                                *)
(***************************************************************************)
EXTENDS Storage, Retention, FiniteSetTheorems, TLAPS

-----------------------------------------------------------------------------
(* The inductive invariant of the storage counter.                             *)

Docs == Counter!Docs
Sized == {0} \cup Bytes
FormFor(d) == Counter!FormOfDoc(d)
Payer(d) == Counter!Owner(FormFor(d))
Trusted == Accounts \ (crossed \cup met)
DocsOf(o) == {d \in Docs : Payer(d) = o}

\* What a document counts for: the answers to a form that is gone belong to nobody.
Counts(d) == d \in Papers \/ size[FormFor(d)] # 0
Due(d) == IF Counts(d) THEN size[d] ELSE 0

\* The bytes of documents, of any sizes.
Bits(f, D) == UNION {{d} \X (1..f[d]) : d \in D}
Total(f, D) == Cardinality(Bits(f, D))

Stages ==
  [create |-> {"write", "after", "owner", "count"}, edit |-> {"before", "write", "after", "owner", "count"},
   drop |-> {"before", "owner", "count", "delete"}, purge |-> {"before", "owner", "count", "delete"}]
Meterings == {"start", "forms", "formBytes", "responseBytes", "again", "set", "over"}

WorldTyped ==
  /\ Counter!TypeOK
  /\ scene \in Counter!SceneTypes /\ moves \in Nat
  /\ task \in [Meters -> [at : Meterings \cup {"off"}, who : Accounts \cup {Nobody}, stored : Int,
                         forms : SUBSET Papers, sum : Nat, alone : BOOLEAN]]
  /\ \A t \in Counter!Measuring : task[t].who \in Accounts

\* A request is about one document, or about a form's answers and then the form.
DocsFit(r) ==
  /\ r.kind # "purge" => \E d \in Docs : r.docs = {d}
  /\ r.kind = "drop" => r.docs \subseteq Papers \X Numbers
  /\ r.kind = "purge" => \E f \in Papers : r.docs = {f} \/ r.docs = Counter!Answers({f})
Asked(r) ==
  r.at # "done" =>
    /\ r.kind \in Counter!Kinds /\ r.at \in Stages[r.kind] /\ DocsFit(r)
    /\ r.at # "count" => r.who = Nobody
    /\ r.kind = "create" => r.docs \subseteq used
    /\ r.kind = "create" /\ r.at = "write" =>
         \A d \in r.docs : size[d] = 0 /\ \A n \in Papers \X Numbers : FormFor(n) = d => n \notin used

\* A document is made once, and before its answers.
MadeOnce ==
  /\ \A d \in Docs : size[d] # 0 => d \in used
  /\ \A r \in Papers \X Numbers : r \in used => FormFor(r) \in used
  /\ \A p, q \in Hands : p # q /\ req[p].at # "done" /\ req[q].at # "done"
       /\ req[p].kind = "create" /\ req[q].kind = "create" => req[p].docs \cap req[q].docs = {}

\* A measurement that nothing disturbed has an account at rest for itself, and what it has read
\* is so; the account of any other is not trusted.
Standing(o) == {f \in Counter!FormsOf(o) : Counter!Stored(f)}
Measured(t) ==
  LET k == task[t] IN
  /\ ~k.alone => k.who \notin Trusted
  /\ k.alone =>
       /\ Counter!Quiet(k.who) /\ \A u \in Counter!Measuring : u # t => task[u].who # k.who
       /\ k.at \notin {"start", "over"} => k.stored = counter[k.who]
       /\ k.at \in {"formBytes", "responseBytes"} => k.forms = Standing(k.who)
       /\ k.at = "responseBytes" => k.sum = Counter!Sum(Standing(k.who))
       /\ k.at \in {"again", "set"} => k.sum = Counter!Usage(k.who)
       /\ k.at = "over" => counter[k.who] = Counter!Usage(k.who)
MeterInv == \A t \in Counter!Measuring : Measured(t)

\* No two requests are at work on the documents of a trusted account, a form goes after its
\* answers, and who is charged is whose it is.
Apart(p, q) ==
  Counter!Touches(p) \cap Counter!Touches(q) # {} => \A d \in req[q].docs : Payer(d) \notin Trusted
Works(q) ==
  /\ \A p \in Counter!Active : p # q => Apart(p, q)
  /\ \A d \in req[q].docs : /\ req[q].kind = "purge" /\ d \in Papers /\ Payer(d) \in Trusted =>
                                 \A r \in Counter!Answers({d}) : size[r] = 0
                            /\ req[q].at = "count" /\ {Payer(d), req[q].who} \cap Trusted # {} =>
                                 Payer(d) = req[q].who
WorkInv == \A q \in Counter!Active : Works(q)

\* What a document has been charged for, n, while a request is at work on it.
Accounted(r, d, n) ==
  /\ r.kind = "create" =>
       /\ n = 0
       /\ r.at = "write" => size[d] = 0
       /\ r.at \in {"write", "after"} => r.bytes = 0
       /\ r.at = "owner" => r.bytes = size[d]
       /\ r.at = "count" => Counts(d) /\ r.bytes = size[d]
  /\ r.kind = "edit" =>
       /\ r.at \in {"before", "write"} => n = Due(d)
       /\ r.at = "write" => r.bytes = size[d]
       /\ r.at = "after" => n = (IF Counts(d) THEN r.bytes ELSE 0) /\ (r.bytes = 0 <=> size[d] = 0)
       /\ r.at \in {"owner", "count"} =>
            /\ size[d] # 0
            /\ IF Counts(d) THEN r.bytes = size[d] - n /\ n # 0 ELSE n = 0 /\ r.at = "owner"
  /\ r.kind \in {"drop", "purge"} =>
       /\ r.at \in {"before", "owner", "count"} => n = Due(d)
       /\ r.at \in {"owner", "count"} => r.bytes = - Counter!Sum(r.docs)
       /\ r.at = "count" => Counts(d)
       /\ r.at = "delete" => n = 0

InWork(d) == \E q \in Counter!Active : d \in req[q].docs

\* The counter of a trusted account is what its documents have been charged for, and one
\* no request is at work on has been charged for what it counts for.
Charged(paid) ==
  /\ \A o \in Trusted : (\A t \in Counter!Measuring : task[t].who # o) => counter[o] = Total(paid, DocsOf(o))
  /\ \A d \in Docs : Payer(d) \in Trusted /\ ~InWork(d) => paid[d] = Due(d)
  /\ \A q \in Counter!Active : \A d \in req[q].docs :
       Payer(d) \in Trusted => Accounted(req[q], d, paid[d])
BooksInv == \E paid \in [Docs -> Sized] : Charged(paid)

\* Where nothing is measured: what is stored or about to be, and is not leaving, is bounded.
Coming == UNION {req[q].docs : q \in {p \in Counter!Active : req[p].kind = "create" /\ req[p].at = "write"}}
Here(o) == {d \in DocsOf(o) : size[d] # 0 \/ d \in Coming} \ Counter!Leaving
RoomInv ==
  /\ Counter!Measuring = {}
  /\ \A o \in Trusted : Least * Cardinality(Here(o)) <= Counter!Ceiling + Least * Cardinality(Hands)
  /\ \A d \in Docs : Payer(d) \in Trusted /\ (size[d] # 0 \/ d \in Coming) => Counts(d)

CounterInv ==
  /\ WorldTyped /\ MadeOnce /\ (\A q \in Hands : Asked(req[q])) /\ MeterInv
  /\ moves = 0 => WorkInv /\ BooksInv
  /\ moves = 0 /\ scene.tasks = {} => RoomInv

-----------------------------------------------------------------------------
(* Sums of bytes.                                                              *)

\* The instance counts alike.
LEMMA SameCount ==
  /\ \A S : Counter!IsFiniteSet(S) = IsFiniteSet(S)
  /\ \A S : Counter!Cardinality(S) = Cardinality(S)
BY DEF Counter!Cardinality, Cardinality, Counter!IsFiniteSet, IsFiniteSet

\* What the instance adds up is a total of the sizes.
LEMMA SumIs == \A D : Counter!Sum(D) = Total(size, D)
BY SameCount DEF Counter!Sum, Total, Bits

\* Finitely many documents have finitely many bytes.
LEMMA TotalType ==
  ASSUME NEW D, IsFiniteSet(D), NEW f, \A d \in D : f[d] \in Nat
  PROVE  IsFiniteSet(Bits(f, D)) /\ Total(f, D) \in Nat
<1> DEFINE g == [d \in D |-> {d} \X (1..f[d])]
           T == {{d} \X (1..f[d]) : d \in D}
<1>1. IsFiniteSet(T)
  <2>1. g \in Surjection(D, T)
    BY DEF Surjection
  <2> HIDE DEF g, T
  <2> QED  BY <2>1, FS_Surjection
<1>2. \A t \in T : IsFiniteSet(t)
  <2> SUFFICES ASSUME NEW d \in D PROVE IsFiniteSet({d} \X (1..f[d]))
    OBVIOUS
  <2>1. IsFiniteSet({d})
    BY FS_Singleton
  <2>2. IsFiniteSet(1..f[d])
    <3>1. f[d] \in Int
      OBVIOUS
    <3> QED  BY <3>1, FS_Interval
  <2> QED  BY <2>1, <2>2, FS_Product
<1> HIDE DEF T
<1>3. IsFiniteSet(UNION T)
  BY <1>1, <1>2, FS_UNION
<1> QED  BY <1>3, FS_CardinalityType DEF T, Bits, Total

\* The total of one document is its size.
LEMMA TotalOne ==
  ASSUME NEW d, NEW f, f[d] \in Nat
  PROVE  Total(f, {d}) = f[d]
<1>1. Bits(f, {d}) = {d} \X (1..f[d])
  BY DEF Bits
<1>2. IsFiniteSet({d}) /\ Cardinality({d}) = 1
  BY FS_Singleton
<1>3. IsFiniteSet(1..f[d]) /\ Cardinality(1..f[d]) = f[d]
  <2>1. f[d] \in Int /\ 1 \in Int
    OBVIOUS
  <2>2. /\ IsFiniteSet(1..f[d])
        /\ Cardinality(1..f[d]) = IF 1 > f[d] THEN 0 ELSE f[d] - 1 + 1
    BY <2>1, FS_Interval
  <2> QED  BY <2>2
<1>4. Cardinality({d} \X (1..f[d])) = 1 * f[d]
  <2>1. Cardinality({d} \X (1..f[d])) = Cardinality({d}) * Cardinality(1..f[d])
    <3> DEFINE S == {d}
               T == 1..f[d]
    <3>1. IsFiniteSet(S) /\ IsFiniteSet(T)
      BY <1>2, <1>3
    <3> HIDE DEF S, T
    <3>2. Cardinality(S \X T) = Cardinality(S) * Cardinality(T)
      BY <3>1, FS_Product
    <3> QED  BY <3>2 DEF S, T
  <2> QED  BY <1>2, <1>3, <2>1
<1>5. 1 * f[d] = f[d]
  OBVIOUS
<1>6. Total(f, {d}) = Cardinality({d} \X (1..f[d]))
  BY <1>1 DEF Total
<1> QED  BY <1>4, <1>5, <1>6

\* Totals of disjoint sets add up.
LEMMA TotalSplit ==
  ASSUME NEW D, NEW E, IsFiniteSet(D), IsFiniteSet(E), D \cap E = {},
         NEW f, \A d \in D \cup E : f[d] \in Nat
  PROVE  Total(f, D \cup E) = Total(f, D) + Total(f, E)
<1>1. Bits(f, D \cup E) = Bits(f, D) \cup Bits(f, E)
  BY DEF Bits
<1>2. Bits(f, D) \cap Bits(f, E) = {}
  <2> SUFFICES ASSUME NEW b \in Bits(f, D), b \in Bits(f, E) PROVE FALSE
    OBVIOUS
  <2>1. PICK d \in D : b \in {d} \X (1..f[d])
    BY DEF Bits
  <2>2. PICK e \in E : b \in {e} \X (1..f[e])
    BY DEF Bits
  <2>3. b[1] = d /\ b[1] = e
    BY <2>1, <2>2
  <2> QED  BY <2>3
<1>3. IsFiniteSet(Bits(f, D)) /\ Total(f, D) \in Nat
  BY TotalType
<1>4. IsFiniteSet(Bits(f, E)) /\ Total(f, E) \in Nat
  BY TotalType
<1>5. Cardinality(Bits(f, D) \cup Bits(f, E)) =
        Cardinality(Bits(f, D)) + Cardinality(Bits(f, E)) - Cardinality({})
  BY <1>2, <1>3, <1>4, FS_Union
<1>6. Total(f, D \cup E) = Total(f, D) + Total(f, E) - Cardinality({})
  BY <1>1, <1>5 DEF Total
<1>7. Cardinality({}) = 0
  BY FS_EmptySet
<1> QED  BY <1>3, <1>4, <1>6, <1>7

\* Equal sizes, equal totals.
LEMMA TotalSame ==
  ASSUME NEW D, NEW f, NEW g, \A d \in D : f[d] = g[d]
  PROVE  Total(f, D) = Total(g, D)
<1>1. Bits(f, D) = Bits(g, D)
  BY DEF Bits
<1> QED  BY <1>1 DEF Total

\* Nothing adds up to nothing, and only nothing.
LEMMA TotalNone ==
  ASSUME NEW D, IsFiniteSet(D), NEW f, \A d \in D : f[d] \in Nat
  PROVE  Total(f, D) = 0 <=> \A d \in D : f[d] = 0
<1>1. IsFiniteSet(Bits(f, D))
  BY TotalType
<1>2. Total(f, D) = 0 <=> Bits(f, D) = {}
  BY <1>1, FS_EmptySet DEF Total
<1>3. ASSUME Bits(f, D) = {}, NEW d \in D PROVE f[d] = 0
  <2>1. <<d, 1>> \notin Bits(f, D)
    BY <1>3
  <2>2. 1 \notin 1..f[d]
    BY <2>1 DEF Bits
  <2> QED  BY <2>2
<1>4. ASSUME \A d \in D : f[d] = 0 PROVE Bits(f, D) = {}
  <2>1. \A d \in D : {d} \X (1..f[d]) = {}
    BY <1>4
  <2> QED  BY <2>1 DEF Bits
<1> QED  BY <1>2, <1>3, <1>4

\* Some of the documents have no more bytes than all, and each of those the least at least.
LEMMA TotalLeast ==
  ASSUME NEW D, IsFiniteSet(D), NEW f, \A d \in D : f[d] \in Nat,
         NEW P \in SUBSET D, NEW m \in Nat, \A d \in P : f[d] >= m
  PROVE  Cardinality(P) \in Nat /\ m * Cardinality(P) <= Total(f, D)
<1>1. IsFiniteSet(P) /\ Cardinality(P) \in Nat
  BY FS_Subset, FS_CardinalityType
<1>2. IsFiniteSet(1..m) /\ Cardinality(1..m) = m
  <2>1. m \in Int /\ 1 \in Int
    OBVIOUS
  <2>2. /\ IsFiniteSet(1..m)
        /\ Cardinality(1..m) = IF 1 > m THEN 0 ELSE m - 1 + 1
    BY <2>1, FS_Interval
  <2> QED  BY <2>2
<1>3. Cardinality(P \X (1..m)) = Cardinality(P) * m
  BY <1>1, <1>2, FS_Product
<1>4. P \X (1..m) \subseteq Bits(f, D)
  <2> SUFFICES ASSUME NEW d \in P, NEW i \in 1..m PROVE <<d, i>> \in Bits(f, D)
    OBVIOUS
  <2>1. i \in 1..f[d]
    OBVIOUS
  <2> QED  BY <2>1 DEF Bits
<1>5. IsFiniteSet(Bits(f, D)) /\ Total(f, D) \in Nat
  BY TotalType
<1>6. Cardinality(P \X (1..m)) <= Cardinality(Bits(f, D))
  BY <1>4, <1>5, FS_Subset
<1>7. Cardinality(P) * m = m * Cardinality(P)
  BY <1>1
<1> QED  BY <1>1, <1>3, <1>6, <1>7 DEF Total

-----------------------------------------------------------------------------
(* The documents of an account.                                                *)

\* What is known of the constants.
LEMMA CounterAssumed ==
  /\ Docs = Papers \cup (Papers \X Numbers) /\ Papers \cap (Papers \X Numbers) = {}
  /\ IsFiniteSet(Docs) /\ IsFiniteSet(Hands)
  /\ Bytes \subseteq Nat \ {0} /\ Least \in Bytes /\ \A n \in Bytes : Least <= n
  /\ Nobody \notin Accounts
<1>1. IsFiniteSet(Papers) /\ IsFiniteSet(Papers \X Numbers) /\ IsFiniteSet(Hands)
  BY StorageConstants, SameCount DEF Counter!StorageAssumption
<1>2. IsFiniteSet(Papers \cup (Papers \X Numbers))
  BY <1>1, FS_Union
<1> QED  BY <1>1, <1>2, StorageConstants DEF Counter!StorageAssumption, Docs, Counter!Docs

\* Every document has its form, and every form an answer.
LEMMA FormsFound ==
  /\ \A d \in Docs : FormFor(d) \in Papers
  /\ \A f \in Papers : FormFor(f) = f
  /\ \A r \in Papers \X Numbers : FormFor(r) = r[1]
  /\ \A F : Counter!Answers(F) = {r \in Papers \X Numbers : FormFor(r) \in F}
  /\ \A f \in Papers : Counter!Answers({f}) # {}
<1>1. \A r \in Papers \X Numbers : r \notin Papers
  BY CounterAssumed
<1>2. \A r \in Papers \X Numbers : FormFor(r) = r[1]
  BY <1>1 DEF FormFor, Counter!FormOfDoc
<1>3. \A f \in Papers : FormFor(f) = f
  BY DEF FormFor, Counter!FormOfDoc
<1>4. \A F : Counter!Answers(F) = {r \in Papers \X Numbers : FormFor(r) \in F}
  BY <1>2 DEF Counter!Answers
<1>5. \A f \in Papers : Counter!Answers({f}) # {}
  BY StorageConstants DEF Counter!StorageAssumption
<1> QED  BY <1>2, <1>3, <1>4, <1>5, CounterAssumed

\* What every document counts for.
Dues == [d \in Docs |-> Due(d)]

\* Sizes, and what documents count for, are numbers.
LEMMA SizesTyped ==
  ASSUME WorldTyped
  PROVE  /\ \A d \in Docs : size[d] \in Nat /\ size[d] \in Sized /\ Due(d) \in Nat /\ Due(d) \in Sized
         /\ Sized \subseteq Nat
<1>1. Sized \subseteq Nat
  BY CounterAssumed DEF Sized
<1>2. \A d \in Docs : size[d] \in Sized
  BY DEF WorldTyped, Counter!TypeOK, Docs, Sized
<1>3. \A d \in Docs : Due(d) \in Sized
  BY <1>2 DEF Due, Sized
<1> QED  BY <1>1, <1>2, <1>3

\* An account's documents are its forms and their answers, and what it uses is what they count for.
LEMMA UsageIs ==
  ASSUME WorldTyped, NEW o
  PROVE  Counter!Usage(o) = Total(Dues, DocsOf(o))
<1> DEFINE F == {f \in Counter!FormsOf(o) : Counter!Stored(f)}
           In == F \cup Counter!Answers(F)
           Out == DocsOf(o) \ In
<1>1. In \subseteq DocsOf(o)
  BY FormsFound, CounterAssumed DEF Counter!FormsOf, DocsOf, Payer
<1>2. \A d \in In : Dues[d] = size[d]
  <2>1. \A d \in In : d \in Docs /\ (d \in Papers \/ size[FormFor(d)] # 0)
    <3> SUFFICES ASSUME NEW d \in In PROVE d \in Docs /\ (d \in Papers \/ size[FormFor(d)] # 0)
      OBVIOUS
    <3>1. d \in Docs
      BY <1>1 DEF DocsOf
    <3>2. CASE d \in F
      BY <3>1, <3>2 DEF Counter!FormsOf
    <3>3. CASE d \in Counter!Answers(F)
      BY <3>1, <3>3, FormsFound DEF Counter!Stored
    <3> QED  BY <3>1, <3>2, <3>3
  <2> QED  BY <2>1 DEF Dues, Due, Counts
<1>3. \A d \in Out : Dues[d] = 0
  <2> SUFFICES ASSUME NEW d \in Out PROVE Due(d) = 0
    BY DEF Dues, DocsOf
  <2>1. CASE d \in Papers
    <3>1. d \in Counter!FormsOf(o) /\ d \notin F
      BY <2>1, FormsFound DEF DocsOf, Payer, Counter!FormsOf
    <3> QED  BY <2>1, <3>1 DEF Counter!Stored, Due, Counts
  <2>2. CASE d \notin Papers
    <3>1. d \in Papers \X Numbers /\ FormFor(d) \in Counter!FormsOf(o)
      BY <2>2, CounterAssumed, FormsFound DEF DocsOf, Payer, Counter!FormsOf
    <3>2. FormFor(d) \notin F
      BY <3>1, FormsFound
    <3> QED  BY <2>2, <3>1, <3>2 DEF Counter!Stored, Due, Counts
  <2> QED  BY <2>1, <2>2
<1>4. IsFiniteSet(DocsOf(o)) /\ \A d \in DocsOf(o) : Dues[d] \in Nat
  <2>1. DocsOf(o) \subseteq Docs
    BY DEF DocsOf
  <2> QED  BY <2>1, CounterAssumed, FS_Subset, SizesTyped DEF Dues
<1>5. IsFiniteSet(In) /\ IsFiniteSet(Out)
  BY <1>1, <1>4, FS_Subset
<1>6. Counter!Usage(o) = Total(size, In)
  BY SumIs DEF Counter!Usage
<1>7. Total(size, In) = Total(Dues, In)
  BY <1>2, TotalSame
<1>8. Total(Dues, Out) = 0
  <2> HIDE DEF In, Out, F
  <2>1. \A d \in Out : Dues[d] \in Nat
    BY <1>3
  <2> QED  BY <1>3, <1>5, <2>1, TotalNone
<1>9. In \cap Out = {} /\ In \cup Out = DocsOf(o)
  BY <1>1
<1>10. Total(Dues, DocsOf(o)) = Total(Dues, In) + Total(Dues, Out)
  <2> HIDE DEF In, Out, F
  <2> QED  BY <1>4, <1>5, <1>9, TotalSplit
<1>11. Total(Dues, In) \in Nat
  <2> HIDE DEF In, Out, F
  <2> QED  BY <1>4, <1>5, <1>9, TotalType
<1> QED  BY <1>6, <1>7, <1>8, <1>10, <1>11

\* An account whose documents stay as they are keeps its usage.
LEMMA UsageStays ==
  ASSUME NEW o, Counter!FormsOf(o)' = Counter!FormsOf(o),
         \A d \in Docs : FormFor(d) \in Counter!FormsOf(o) => size'[d] = size[d]
  PROVE  /\ Standing(o)' = Standing(o)
         /\ Counter!Sum(Standing(o))' = Counter!Sum(Standing(o))
         /\ Counter!Sum(Counter!Answers(Standing(o)))' = Counter!Sum(Counter!Answers(Standing(o)))
         /\ Counter!Usage(o)' = Counter!Usage(o)
<1>1. Standing(o)' = Standing(o)
  <2>1. \A f \in Counter!FormsOf(o) : f \in Docs /\ size'[f] = size[f]
    BY FormsFound, CounterAssumed DEF Counter!FormsOf
  <2> QED  BY <2>1 DEF Standing, Counter!Stored
<1>2. \A d \in Standing(o) \cup Counter!Answers(Standing(o)) : size'[d] = size[d]
  BY FormsFound, CounterAssumed DEF Standing, Counter!FormsOf
<1>3. Counter!Answers(Standing(o))' = Counter!Answers(Standing(o))
  BY <1>1 DEF Counter!Answers
<1>4. ASSUME NEW D, D \subseteq Standing(o) \cup Counter!Answers(Standing(o))
      PROVE  Counter!Sum(D)' = Counter!Sum(D)
  <2>1. \A d \in D : {d} \X (1..size'[d]) = {d} \X (1..size[d])
    BY <1>2, <1>4
  <2>2. {{d} \X (1..size'[d]) : d \in D} = {{d} \X (1..size[d]) : d \in D}
    BY <2>1
  <2> QED  BY <2>2, SameCount DEF Counter!Sum
<1>5. Counter!Sum(Standing(o))' = Counter!Sum(Standing(o))
  BY <1>1, <1>4 DEF Counter!Sum
<1>6. Counter!Sum(Counter!Answers(Standing(o)))' = Counter!Sum(Counter!Answers(Standing(o)))
  BY <1>3, <1>4 DEF Counter!Sum
<1>7. Counter!Usage(o) = Counter!Sum(Standing(o) \cup Counter!Answers(Standing(o)))
  BY DEF Counter!Usage, Standing
<1>8. Counter!Usage(o)' = Counter!Sum(Standing(o) \cup Counter!Answers(Standing(o)))'
  BY DEF Counter!Usage, Standing
<1> QED  BY <1>1, <1>3, <1>4, <1>5, <1>6, <1>7, <1>8 DEF Counter!Sum

-----------------------------------------------------------------------------
(* What a request is about.                                                    *)

Active == Counter!Active
Asks == \A q \in Hands : Asked(req[q])
Head(q) == Counter!One(q)
Form(q) == FormFor(Head(q))

\* A request is about documents of one form, a purge about all of it.
LEMMA RequestIs ==
  ASSUME NEW q \in Hands, Asked(req[q]), q \in Active
  PROVE  /\ req[q].docs # {} /\ req[q].docs \subseteq Docs /\ Head(q) \in req[q].docs
         /\ Form(q) \in Papers
         /\ \A d \in req[q].docs : FormFor(d) = Form(q) /\ Payer(d) = Counter!Owner(Form(q))
         /\ req[q].docs \subseteq Counter!Touches(q)
         /\ \A d \in Counter!Touches(q) : d \in Docs /\ FormFor(d) = Form(q)
         /\ req[q].kind = "purge" =>
              /\ Counter!Touches(q) = {d \in Docs : FormFor(d) = Form(q)}
              /\ req[q].docs = {Form(q)} \/ req[q].docs = Counter!Answers({Form(q)})
         /\ req[q].kind # "purge" => Counter!Touches(q) = req[q].docs /\ req[q].docs = {Head(q)}
         /\ Counter!Concerns(q) = {Counter!Owner(Form(q))} \cup ({req[q].who} \ {Nobody})
<1> DEFINE docs == req[q].docs
<1>1. DocsFit(req[q])
  BY DEF Asked, Active, Counter!Active
<1>2. docs # {} /\ docs \subseteq Docs
      /\ \E f \in Papers : /\ \A d \in docs : FormFor(d) = f
                           /\ req[q].kind = "purge" => docs = {f} \/ docs = Counter!Answers({f})
  <2>1. CASE req[q].kind = "purge"
    <3>1. PICK f \in Papers : docs = {f} \/ docs = Counter!Answers({f})
      BY <1>1, <2>1 DEF DocsFit
    <3> QED  BY <3>1, FormsFound, CounterAssumed
  <2>2. CASE req[q].kind # "purge"
    <3>1. PICK d \in Docs : docs = {d}
      BY <1>1, <2>2 DEF DocsFit
    <3> QED  BY <2>2, <3>1, FormsFound
  <2> QED  BY <2>1, <2>2
<1>3. Head(q) \in docs
  BY <1>2 DEF Head, Counter!One
<1>4. Form(q) \in Papers /\ \A d \in docs : FormFor(d) = Form(q)
  BY <1>2, <1>3 DEF Form
<1>5. req[q].kind = "purge" => docs = {Form(q)} \/ docs = Counter!Answers({Form(q)})
  BY <1>2, <1>3, <1>4
<1>6. \A d \in docs : Payer(d) = Counter!Owner(Form(q))
  BY <1>4 DEF Payer
<1>7. Counter!Concerns(q) = {Counter!Owner(Form(q))} \cup ({req[q].who} \ {Nobody})
  BY <1>3, <1>4, <1>6 DEF Counter!Concerns, FormFor, Payer
<1>8. req[q].kind # "purge" => Counter!Touches(q) = docs /\ docs = {Head(q)}
  BY <1>1, <1>3 DEF DocsFit, Counter!Touches
<1>9. req[q].kind = "purge" => Counter!Touches(q) = {d \in Docs : FormFor(d) = Form(q)}
  <2> SUFFICES ASSUME req[q].kind = "purge"
               PROVE  Counter!Touches(q) = {d \in Docs : FormFor(d) = Form(q)}
    OBVIOUS
  <2>1. {FormFor(e) : e \in docs} = {Form(q)}
    BY <1>3, <1>4
  <2>2. Counter!Touches(q) = {Form(q)} \cup Counter!Answers({Form(q)})
    BY <2>1 DEF Counter!Touches, FormFor
  <2> QED  BY <1>4, <2>2, FormsFound, CounterAssumed
<1>10. docs \subseteq Counter!Touches(q) /\ \A d \in Counter!Touches(q) : d \in Docs /\ FormFor(d) = Form(q)
  BY <1>2, <1>4, <1>8, <1>9
<1> QED  BY <1>2, <1>3, <1>4, <1>5, <1>6, <1>7, <1>8, <1>9, <1>10

\* Requests that touch a document in common are about one form.
LEMMA TouchAlike ==
  ASSUME NEW p \in Hands, NEW q \in Hands, Asks, p \in Active, q \in Active,
         Counter!Touches(p) \cap Counter!Touches(q) # {}
  PROVE  Form(p) = Form(q)
<1>1. PICK d \in Counter!Touches(p) : d \in Counter!Touches(q)
  OBVIOUS
<1> QED  BY <1>1, RequestIs DEF Asks

\* The account of documents that two requests touch is not trusted.
LEMMA ApartMeans ==
  ASSUME WorkInv, Asks, NEW p \in Active, NEW q \in Active, p # q,
         Counter!Touches(p) \cap Counter!Touches(q) # {}
  PROVE  Counter!Owner(Form(p)) \notin Trusted /\ Counter!Owner(Form(q)) \notin Trusted
<1>1. p \in Hands /\ q \in Hands
  BY DEF Active, Counter!Active
<1>2. Form(p) = Form(q)
  BY <1>1, TouchAlike
<1>3. Apart(p, q)
  BY DEF WorkInv, Works, Active
<1>4. Payer(Head(q)) \notin Trusted
  BY <1>1, <1>3, RequestIs DEF Apart, Asks
<1>5. Payer(Head(q)) = Counter!Owner(Form(q))
  BY DEF Payer, Form
<1> QED  BY <1>2, <1>4, <1>5

-----------------------------------------------------------------------------
(* A request at work.                                                          *)

Apartments == <<scene, place, holder, task, crossed, met, used, moves>>
Wants == [kind : Counter!Kinds \cup {"none"}, docs : SUBSET Docs, bytes : Int, who : Accounts \cup {Nobody},
          at : {"done", "before", "write", "after", "owner", "count", "delete"}]

\* Owners are accounts.
LEMMA OwnersAre ==
  ASSUME WorldTyped
  PROVE  /\ \A f \in Papers : Counter!Owner(f) \in Accounts
         /\ \A D : D \subseteq Docs => Counter!Sum(D) \in Nat
<1>1. \A f \in Papers : Counter!Owner(f) \in Accounts
  BY DEF WorldTyped, Counter!TypeOK, Counter!Owner
<1>2. ASSUME NEW D, D \subseteq Docs PROVE Counter!Sum(D) \in Nat
  <2>1. IsFiniteSet(D) /\ \A d \in D : size[d] \in Nat
    BY <1>2, CounterAssumed, FS_Subset, SizesTyped
  <2> QED  BY <2>1, TotalType, SumIs
<1> QED  BY <1>1, <1>2

\* A request typed anew.
LEMMA GoTyped ==
  ASSUME WorldTyped, NEW q \in Hands, NEW at \in {"done", "before", "write", "after", "owner", "count", "delete"},
         NEW bytes \in Int, NEW who \in Accounts \cup {Nobody}, Counter!Go(q, at, bytes, who)
  PROVE  /\ req' \in [Hands -> Wants]
         /\ \A p \in Hands : p # q => req'[p] = req[p]
         /\ req'[q].at = at /\ req'[q].bytes = bytes /\ req'[q].who = who
         /\ req'[q].kind = req[q].kind /\ req'[q].docs = req[q].docs
<1>1. req \in [Hands -> Wants]
  BY DEF WorldTyped, Counter!TypeOK, Wants, Docs
<1>2. PICK r1 : r1 = [req[q] EXCEPT !.at = at]
  OBVIOUS
<1>3. PICK r2 : r2 = [r1 EXCEPT !.bytes = bytes]
  OBVIOUS
<1>4. PICK r3 : r3 = [r2 EXCEPT !.who = who]
  OBVIOUS
<1>5. r3 \in Wants /\ r3.at = at /\ r3.bytes = bytes /\ r3.who = who /\ r3.kind = req[q].kind /\ r3.docs = req[q].docs
  BY <1>1, <1>2, <1>3, <1>4 DEF Wants
<1>6. req' = [req EXCEPT ![q] = r3]
  BY <1>1, <1>2, <1>3, <1>4 DEF Counter!Go
<1> QED  BY <1>1, <1>5, <1>6

\* A request that has ended.
LEMMA EndTyped ==
  ASSUME WorldTyped, NEW q \in Hands, Counter!End(q)
  PROVE  /\ req' \in [Hands -> Wants]
         /\ \A p \in Hands : p # q => req'[p] = req[p]
         /\ req'[q] = Counter!NoRequest /\ req'[q].at = "done" /\ req'[q].who = Nobody
<1>1. req \in [Hands -> Wants]
  BY DEF WorldTyped, Counter!TypeOK, Wants, Docs
<1> QED  BY <1>1 DEF Counter!End, Counter!NoRequest, Wants

\* What a step of a request does to it.
Turns(q) ==
  /\ req' \in [Hands -> Wants]
  /\ \A p \in Hands : p # q => req'[p] = req[p]
  /\ req'[q].at # "done" =>
       /\ req'[q].kind = req[q].kind /\ req'[q].at \in Stages[req[q].kind]
       /\ \/ req'[q].docs = req[q].docs
          \/ /\ req[q].kind = "purge" /\ req'[q].docs = {Form(q)} /\ req'[q].at = "before"
             /\ req[q].docs \cap Papers = {} /\ \A d \in req[q].docs : size'[d] = 0
       /\ req'[q].at # "write" \/ req[q].kind # "create"
  /\ req'[q].who = IF req'[q].at = "count" THEN Counter!Owner(Form(q)) ELSE Nobody

Sizing(q) ==
  /\ size' \in [Docs -> Sized]
  /\ \A d \in Docs : d \notin req[q].docs => size'[d] = size[d]
  /\ \A d \in Docs : size'[d] # size[d] => req[q].at \in {"write", "delete"}
  /\ \A d \in Docs : size[d] # 0 /\ size'[d] = 0 => req[q].kind \in {"drop", "purge"}
  /\ \A d \in Docs : size[d] = 0 /\ size'[d] # 0 =>
       req[q].kind = "create" /\ req[q].at = "write" /\ d \in req[q].docs

Counting(q) ==
  /\ counter' \in [Accounts -> Int]
  /\ \A o \in Accounts : o \notin Counter!Concerns(q) => counter'[o] = counter[o]

\* Every step of a request is of this kind.
LEMMA DeskStep ==
  ASSUME WorldTyped, Asks, NEW q \in Hands, Counter!Serve(q)
  PROVE  q \in Active /\ UNCHANGED Apartments /\ Turns(q) /\ Sizing(q) /\ Counting(q)
<1> DEFINE docs == req[q].docs
<1>1. q \in Active /\ Asked(req[q])
  BY DEF Asks, Active, Counter!Active, Counter!Serve, Counter!Before, Counter!Write, Counter!After,
         Counter!Charge, Counter!Adjust, Counter!Delete
<1>2. /\ docs \subseteq Docs /\ Head(q) \in docs /\ Form(q) \in Papers /\ Head(q) \in Docs
      /\ \A d \in docs : FormFor(d) = Form(q)
  BY <1>1, RequestIs
<1>3. /\ size \in [Docs -> Sized] /\ counter \in [Accounts -> Int] /\ req[q].bytes \in Int
      /\ scene.sizes \subseteq Bytes /\ Sized \subseteq Int /\ 0 \in Sized
      /\ req[q].who \in Accounts \cup {Nobody}
  BY SizesTyped, CounterAssumed DEF WorldTyped, Counter!TypeOK, Docs, Sized, Counter!SceneTypes
<1>4. /\ req[q].kind \in Counter!Kinds /\ req[q].at \in Stages[req[q].kind]
  BY <1>1 DEF Asked, Active, Counter!Active
<1>5. Counter!Sum(docs) \in Nat
  BY <1>2, OwnersAre
<1>6. Counter!Owner(Form(q)) \in Accounts
  BY <1>2, OwnersAre
<1>7. CASE Counter!Before(q)
  <2>1. UNCHANGED Apartments /\ UNCHANGED <<size, counter>>
    BY <1>7 DEF Counter!Before, Counter!world, Counter!seen, Counter!bounds, Apartments
  <2>2. CASE req[q].kind = "edit"
    <3>1. Counter!Go(q, "write", Counter!Sum(docs), Nobody)
      BY <1>7, <2>2 DEF Counter!Before
    <3>2. Turns(q)
      BY <2>2, <3>1, <1>5, GoTyped DEF Turns, Stages
    <3> QED  BY <1>1, <1>3, <2>1, <3>2 DEF Sizing, Counting
  <2>3. CASE req[q].kind # "edit"
    <3>1. Counter!Go(q, "owner", - Counter!Sum(docs), Nobody)
      BY <1>7, <2>3 DEF Counter!Before
    <3>2. - Counter!Sum(docs) \in Int
      BY <1>5
    <3>3. Turns(q)
      BY <2>3, <3>1, <3>2, <1>4, GoTyped DEF Turns, Stages, Counter!Kinds
    <3> QED  BY <1>1, <1>3, <2>1, <3>3 DEF Sizing, Counting
  <2> QED  BY <2>2, <2>3
<1>8. CASE Counter!Write(q)
  <2>1. UNCHANGED Apartments /\ UNCHANGED counter
    BY <1>8 DEF Counter!Write, Counter!seen, Counter!bounds, Apartments
  <2>2. Counter!Go(q, "after", req[q].bytes, Nobody) /\ req[q].at = "write"
    BY <1>8 DEF Counter!Write
  <2>3. req[q].kind \in {"create", "edit"}
    BY <1>4, <2>2 DEF Stages, Counter!Kinds
  <2>4. Turns(q)
    BY <2>2, <2>3, <1>3, GoTyped DEF Turns, Stages
  <2>5. Sizing(q)
    <3>1. PICK n \in scene.sizes :
            size' = [size EXCEPT ![Head(q)] = IF req[q].kind = "edit" /\ @ = 0 THEN 0 ELSE n]
      BY <1>8 DEF Counter!Write, Head
    <3>2. 0 \notin scene.sizes
      BY <1>3, CounterAssumed
    <3> QED  BY <1>2, <1>3, <2>2, <2>3, <3>1, <3>2 DEF Sizing, Sized
  <2> QED  BY <1>1, <1>3, <2>1, <2>4, <2>5 DEF Counting
<1>9. CASE Counter!After(q)
  <2>1. UNCHANGED Apartments /\ UNCHANGED <<size, counter>>
    BY <1>9 DEF Counter!After, Counter!world, Counter!seen, Counter!bounds, Apartments
  <2>2. Turns(q)
    <3>1. CASE Counter!End(q)
      BY <3>1, EndTyped DEF Turns
    <3>2. CASE Counter!Go(q, "owner", size[Head(q)] - req[q].bytes, Nobody)
      <4>1. size[Head(q)] - req[q].bytes \in Int
        <5>1. size[Head(q)] \in Int /\ req[q].bytes \in Int
          BY <1>2, <1>3
        <5> QED  BY <5>1
      <4> QED  BY <1>4, <3>2, <4>1, GoTyped DEF Turns, Stages, Counter!Kinds
    <3> QED  BY <1>9, <3>1, <3>2 DEF Counter!After, Head
  <2> QED  BY <1>1, <1>3, <2>1, <2>2 DEF Sizing, Counting
<1>10. CASE Counter!Charge(q)
  <2>1. UNCHANGED Apartments /\ UNCHANGED <<size, counter>>
    BY <1>10 DEF Counter!Charge, Counter!world, Counter!seen, Counter!bounds, Apartments
  <2>2. Turns(q)
    <3>1. CASE Counter!End(q)
      BY <3>1, EndTyped DEF Turns
    <3>2. CASE Counter!Go(q, "delete", 0, Nobody) /\ req[q].kind \in {"drop", "purge"}
      BY <1>4, <3>2, GoTyped DEF Turns, Stages
    <3>3. CASE Counter!Go(q, "count", req[q].bytes, Counter!Payer(Head(q))) /\ Counter!Payer(Head(q)) # Nobody
      <4>1. Counter!Payer(Head(q)) = Counter!Owner(Form(q))
        BY <3>3 DEF Counter!Payer, Form, FormFor
      <4> QED  BY <1>3, <1>4, <1>6, <3>3, <4>1, GoTyped DEF Turns, Stages, Counter!Kinds
    <3> QED  BY <1>10, <3>1, <3>2, <3>3 DEF Counter!Charge, Head
  <2> QED  BY <1>1, <1>3, <2>1, <2>2 DEF Sizing, Counting
<1>11. CASE Counter!Adjust(q)
  <2>1. UNCHANGED Apartments /\ UNCHANGED size
    BY <1>11 DEF Counter!Adjust, Counter!seen, Counter!bounds, Apartments
  <2>2. Turns(q)
    <3>1. CASE Counter!End(q)
      BY <3>1, EndTyped DEF Turns
    <3>2. CASE Counter!Go(q, "delete", 0, Nobody) /\ req[q].kind \in {"drop", "purge"}
      BY <1>4, <3>2, GoTyped DEF Turns, Stages
    <3> QED  BY <1>11, <3>1, <3>2 DEF Counter!Adjust
  <2>3. Counting(q)
    <3>1. counter' = [counter EXCEPT ![req[q].who] = @ + req[q].bytes]
      BY <1>11 DEF Counter!Adjust
    <3>2. req[q].who \in Accounts => req[q].who \in Counter!Concerns(q)
      <4>1. Counter!Concerns(q) = {Counter!Owner(Form(q))} \cup ({req[q].who} \ {Nobody})
        BY <1>1, RequestIs
      <4>2. Nobody \notin Accounts
        BY CounterAssumed
      <4> QED  BY <4>1, <4>2
    <3>3. counter' \in [Accounts -> Int]
      <4>1. CASE req[q].who \in Accounts
        <5>1. counter[req[q].who] + req[q].bytes \in Int
          <6>1. counter[req[q].who] \in Int /\ req[q].bytes \in Int
            BY <1>3, <4>1
          <6> QED  BY <6>1
        <5> QED  BY <1>3, <3>1, <5>1
      <4>2. CASE req[q].who \notin Accounts
        BY <1>3, <3>1, <4>2
      <4> QED  BY <4>1, <4>2
    <3>4. ASSUME NEW o \in Accounts, o # req[q].who PROVE counter'[o] = counter[o]
      BY <1>3, <3>1, <3>4
    <3> QED  BY <3>2, <3>3, <3>4 DEF Counting
  <2> QED  BY <1>1, <1>3, <2>1, <2>2, <2>3 DEF Sizing
<1>12. CASE Counter!Delete(q)
  <2>1. UNCHANGED Apartments /\ UNCHANGED counter
    BY <1>12 DEF Counter!Delete, Counter!seen, Counter!bounds, Apartments
  <2>2. Turns(q)
    <3>1. CASE Counter!End(q)
      BY <3>1, EndTyped DEF Turns
    <3>2. CASE ~Counter!End(q)
      <4>1. /\ req' = [req EXCEPT ![q].at = "before", ![q].docs = Counter!TheirForm(docs)]
            /\ req[q].kind = "purge" /\ docs \cap Papers = {}
        BY <1>12, <3>2 DEF Counter!Delete
      <4>2. Counter!TheirForm(docs) = {Form(q)}
        BY <1>2 DEF Counter!TheirForm, FormFor
      <4>3. PICK r1 : r1 = [req[q] EXCEPT !.at = "before"]
        OBVIOUS
      <4>4. PICK r2 : r2 = [r1 EXCEPT !.docs = {Form(q)}]
        OBVIOUS
      <4>5. req \in [Hands -> Wants]
        BY DEF WorldTyped, Counter!TypeOK, Wants, Docs
      <4>6. {Form(q)} \in SUBSET Docs
        BY <1>2, CounterAssumed
      <4>7. r2 \in Wants /\ r2.at = "before" /\ r2.kind = "purge" /\ r2.docs = {Form(q)} /\ r2.who = req[q].who
        BY <4>1, <4>3, <4>4, <4>5, <4>6 DEF Wants
      <4>8. req' = [req EXCEPT ![q] = r2]
        BY <4>1, <4>2, <4>3, <4>4, <4>5
      <4>9. req[q].who = Nobody
        BY <1>1, <1>12 DEF Asked, Counter!Delete
      <4>10. req' \in [Hands -> Wants] /\ (\A p \in Hands : p # q => req'[p] = req[p]) /\ req'[q] = r2
        BY <4>5, <4>7, <4>8
      <4>11. "before" \in Stages["purge"]
        BY DEF Stages
      <4>12. \A d \in docs : size'[d] = 0
        BY <1>2, <1>12 DEF Counter!Delete, Docs
      <4> QED  BY <4>1, <4>7, <4>9, <4>10, <4>11, <4>12 DEF Turns
    <3> QED  BY <3>1, <3>2
  <2>3. Sizing(q)
    <3>1. size' = [d \in Docs |-> IF d \in docs THEN 0 ELSE size[d]]
      BY <1>12 DEF Counter!Delete, Docs
    <3>2. req[q].at = "delete" /\ req[q].kind \in {"drop", "purge"}
      BY <1>4, <1>12 DEF Counter!Delete, Stages, Counter!Kinds
    <3> QED  BY <1>3, <3>1, <3>2 DEF Sizing
  <2> QED  BY <1>1, <1>3, <2>1, <2>2, <2>3 DEF Counting
<1> QED  BY <1>7, <1>8, <1>9, <1>10, <1>11, <1>12 DEF Counter!Serve

\* What every step keeps that has no word in the world of workspaces.
LEMMA DeskFrame ==
  ASSUME WorldTyped, Asks, NEW q \in Hands, q \in Active, UNCHANGED Apartments, Turns(q)
  PROVE  /\ \A f : Counter!Owner(f)' = Counter!Owner(f)
         /\ \A o : Counter!FormsOf(o)' = Counter!FormsOf(o) /\ DocsOf(o)' = DocsOf(o)
         /\ \A d : Payer(d)' = Payer(d)
         /\ Trusted' = Trusted /\ Counter!Measuring' = Counter!Measuring
         /\ Active' \subseteq Active
         /\ \A p \in Active : p # q => p \in Active'
         /\ \A p \in Active' : /\ Counter!Concerns(p)' \subseteq Counter!Concerns(p)
                               /\ Counter!Touches(p)' \subseteq Counter!Touches(p)
                               /\ req'[p].docs \subseteq Counter!Touches(p)
<1>1. \A f : Counter!Owner(f)' = Counter!Owner(f)
  BY DEF Counter!Owner, Apartments
<1>2. \A d : Payer(d)' = Payer(d)
  BY <1>1 DEF Payer, FormFor, Counter!FormOfDoc
<1>3. \A o : Counter!FormsOf(o)' = Counter!FormsOf(o) /\ DocsOf(o)' = DocsOf(o)
  BY <1>1, <1>2 DEF Counter!FormsOf, DocsOf, Docs, Counter!Docs
<1>4. Trusted' = Trusted /\ Counter!Measuring' = Counter!Measuring
  BY DEF Trusted, Counter!Measuring, Apartments
<1>5. Active' \subseteq Active /\ \A p \in Active : p # q => p \in Active'
  BY DEF Active, Counter!Active, Turns
<1>6. ASSUME NEW p \in Active', p # q
      PROVE  /\ Counter!Concerns(p)' = Counter!Concerns(p)
             /\ Counter!Touches(p)' = Counter!Touches(p)
             /\ req'[p].docs \subseteq Counter!Touches(p)
  <2>1. p \in Hands /\ p \in Active /\ req'[p] = req[p]
    BY <1>5, <1>6 DEF Turns, Active, Counter!Active
  <2>2. req[p].docs \subseteq Counter!Touches(p)
    BY <2>1, RequestIs DEF Asks
  <2>3. Counter!Concerns(p)' = Counter!Concerns(p)
    BY <2>1, <1>1 DEF Counter!Concerns, Counter!FormOfDoc
  <2>4. Counter!Touches(p)' = Counter!Touches(p)
    BY <2>1 DEF Counter!Touches, Counter!FormOfDoc, Counter!Answers
  <2> QED  BY <2>1, <2>2, <2>3, <2>4
<1>7. ASSUME q \in Active'
      PROVE  /\ Counter!Concerns(q)' \subseteq Counter!Concerns(q)
             /\ Counter!Touches(q)' \subseteq Counter!Touches(q)
             /\ req'[q].docs \subseteq Counter!Touches(q)
  <2>1. /\ req'[q].kind = req[q].kind
        /\ req'[q].docs = req[q].docs \/ (req[q].kind = "purge" /\ req'[q].docs = {Form(q)})
        /\ req'[q].who \in {Nobody, Counter!Owner(Form(q))}
    BY <1>7 DEF Turns, Active, Counter!Active
  <2>2. /\ req[q].docs \subseteq Counter!Touches(q) /\ req[q].docs # {}
        /\ \A d \in req[q].docs : FormFor(d) = Form(q)
        /\ req[q].kind = "purge" => Counter!Touches(q) = {d \in Docs : FormFor(d) = Form(q)}
        /\ req[q].kind # "purge" => Counter!Touches(q) = req[q].docs
        /\ Form(q) \in Papers
        /\ Counter!Concerns(q) = {Counter!Owner(Form(q))} \cup ({req[q].who} \ {Nobody})
    BY RequestIs DEF Asks
  <2>3. Form(q) \in Docs /\ FormFor(Form(q)) = Form(q)
    BY <2>2, FormsFound, CounterAssumed
  <2>4. req'[q].docs \subseteq Counter!Touches(q) /\ req'[q].docs # {}
        /\ \A d \in req'[q].docs : FormFor(d) = Form(q)
    BY <2>1, <2>2, <2>3
  <2>5. {FormFor(d) : d \in req'[q].docs} = {Form(q)}
    BY <2>4
  <2>6. Counter!Touches(q)' \subseteq Counter!Touches(q)
    <3>1. CASE req[q].kind = "purge"
      <4>1. Counter!Touches(q)' = {Form(q)} \cup Counter!Answers({Form(q)})
        <5>1. {Counter!FormOfDoc(e) : e \in req'[q].docs} = {Form(q)}
          BY <2>5 DEF FormFor
        <5>2. Counter!Touches(q)' = UNION {{d} \cup Counter!Answers({d}) : d \in {Form(q)}}
          BY <2>1, <3>1, <5>1 DEF Counter!Touches, Counter!FormOfDoc, Counter!Answers
        <5> QED  BY <5>2
      <4> QED  BY <2>2, <2>3, <3>1, <4>1, FormsFound, CounterAssumed
    <3>2. CASE req[q].kind # "purge"
      BY <2>1, <2>2, <3>2 DEF Counter!Touches
    <3> QED  BY <3>1, <3>2
  <2>7. Counter!Concerns(q)' \subseteq Counter!Concerns(q)
    <3>1. Counter!Concerns(q)' = {Counter!Owner(FormFor(d)) : d \in req'[q].docs} \cup ({req'[q].who} \ {Nobody})
      BY <1>1 DEF Counter!Concerns, FormFor, Counter!FormOfDoc
    <3>2. \A d \in req'[q].docs : Counter!Owner(FormFor(d)) = Counter!Owner(Form(q))
      BY <2>4
    <3> QED  BY <2>1, <2>2, <3>1, <3>2
  <2> QED  BY <2>4, <2>6, <2>7
<1> QED  BY <1>1, <1>2, <1>3, <1>4, <1>5, <1>6, <1>7

\* A request at work keeps the types, and makes nothing twice.
LEMMA DeskTyped ==
  ASSUME WorldTyped, Asks, MadeOnce, NEW q \in Hands, Counter!Serve(q)
  PROVE  WorldTyped' /\ Asks' /\ MadeOnce'
<1>1. q \in Active /\ UNCHANGED Apartments /\ Turns(q) /\ Sizing(q) /\ Counting(q)
  BY DeskStep
<1>2. /\ req[q].docs \subseteq Docs /\ Form(q) \in Papers /\ DocsFit(req[q]) /\ req[q].kind \in Counter!Kinds
      /\ req[q].kind = "create" => req[q].docs \subseteq used
  BY <1>1, RequestIs DEF Asks, Asked, Active, Counter!Active
<1>3. WorldTyped'
  <2>1. Counter!TypeOK'
    BY <1>1 DEF WorldTyped, Counter!TypeOK, Turns, Sizing, Counting, Apartments, Wants, Docs, Sized
  <2> QED  BY <1>1, <2>1 DEF WorldTyped, Apartments, Counter!Measuring
<1>4. MadeOnce'
  <2>1. ASSUME NEW d \in Docs, size'[d] # 0 PROVE d \in used'
    BY <1>1, <1>2, <2>1 DEF MadeOnce, Sizing, Apartments
  <2>2. ASSUME NEW r \in Papers \X Numbers, r \in used' PROVE FormFor(r) \in used'
    BY <1>1, <2>2 DEF MadeOnce, Apartments
  <2>3. ASSUME NEW p1 \in Hands, NEW p2 \in Hands, p1 # p2, req'[p1].at # "done", req'[p2].at # "done",
               req'[p1].kind = "create", req'[p2].kind = "create"
        PROVE  req'[p1].docs \cap req'[p2].docs = {}
    <3>1. \A p \in {p1, p2} : req[p].at # "done" /\ req[p].kind = "create" /\ req[p].docs = req'[p].docs
      BY <1>1, <2>3 DEF Turns, Active, Counter!Active
    <3> QED  BY <2>3, <3>1 DEF MadeOnce
  <2> QED  BY <2>1, <2>2, <2>3 DEF MadeOnce, FormFor, Counter!FormOfDoc, Docs, Counter!Docs
<1>5. Asks'
  <2> SUFFICES ASSUME NEW p \in Hands PROVE Asked(req[p])'
    BY DEF Asks
  <2>1. CASE p # q
    <3>1. req'[p] = req[p] /\ used' = used
      BY <1>1, <2>1 DEF Turns, Apartments
    <3>2. ASSUME req[p].at = "write", req[p].kind = "create", NEW d \in req[p].docs
          PROVE  size'[d] = 0 /\ \A n \in Papers \X Numbers : FormFor(n) = d => n \notin used
      <4>1. /\ size[d] = 0 /\ d \in Docs /\ p \in Active
            /\ \A n \in Papers \X Numbers : FormFor(n) = d => n \notin used
        BY <3>2, RequestIs DEF Asks, Asked, Active, Counter!Active
      <4>2. ~(req[q].kind = "create" /\ d \in req[q].docs)
        BY <1>1, <2>1, <3>2 DEF MadeOnce, Active, Counter!Active
      <4> QED  BY <1>1, <4>1, <4>2 DEF Sizing
    <3>3. DocsFit(req[p])' = DocsFit(req[p]) /\ Stages' = Stages /\ Counter!Kinds' = Counter!Kinds
      BY <3>1 DEF DocsFit, Docs, Counter!Docs, Counter!Answers, Stages, Counter!Kinds
    <3>4. Asked(req[p])
      BY DEF Asks
    <3> QED  BY <3>1, <3>2, <3>3, <3>4 DEF Asked, FormFor, Counter!FormOfDoc
  <2>2. CASE p = q
    <3>1. CASE req'[q].at = "done"
      BY <2>2, <3>1 DEF Asked
    <3>2. CASE req'[q].at # "done"
      <4>1. /\ req'[q].kind = req[q].kind /\ req'[q].at \in Stages[req[q].kind]
            /\ req'[q].docs = req[q].docs \/ (req[q].kind = "purge" /\ req'[q].docs = {Form(q)})
            /\ req'[q].at # "write" \/ req[q].kind # "create"
            /\ req'[q].at # "count" => req'[q].who = Nobody
            /\ used' = used
        BY <1>1, <3>2 DEF Turns, Apartments
      <4>2. DocsFit(req[q])'
        BY <1>2, <4>1 DEF DocsFit, Docs, Counter!Docs, Counter!Answers
      <4>3. Stages' = Stages
        BY DEF Stages
      <4> QED  BY <1>2, <2>2, <4>1, <4>2, <4>3 DEF Asked
    <3> QED  BY <3>1, <3>2
  <2> QED  BY <2>1, <2>2
<1> QED  BY <1>3, <1>4, <1>5

\* A request at work disturbs no measurement of an account at rest.
LEMMA DeskMeters ==
  ASSUME WorldTyped, Asks, MeterInv, NEW q \in Hands, Counter!Serve(q)
  PROVE  MeterInv'
<1>1. q \in Active /\ UNCHANGED Apartments /\ Turns(q) /\ Sizing(q) /\ Counting(q)
  BY DeskStep
<1>2. /\ \A o : Counter!FormsOf(o)' = Counter!FormsOf(o)
      /\ Trusted' = Trusted /\ Counter!Measuring' = Counter!Measuring
      /\ Active' \subseteq Active
      /\ \A p \in Active' : Counter!Concerns(p)' \subseteq Counter!Concerns(p)
  BY <1>1, DeskFrame
<1>3. task' = task
  BY <1>1 DEF Apartments
<1> SUFFICES ASSUME NEW t \in Counter!Measuring PROVE Measured(t)'
  BY <1>2 DEF MeterInv
<1>4. Measured(t) /\ task[t].who \in Accounts
  BY DEF MeterInv, WorldTyped
<1>5. CASE ~task[t].alone
  BY <1>2, <1>3, <1>4, <1>5 DEF Measured
<1>6. CASE task[t].alone
  <2>1. PICK o : o = task[t].who
    OBVIOUS
  <2>2. Counter!Quiet(o) /\ o \notin Counter!Concerns(q) /\ o \in Accounts
    BY <1>1, <1>4, <1>6, <2>1 DEF Measured, Counter!Quiet, Active
  <2>3. Counter!Quiet(o)'
    BY <1>2, <2>2 DEF Counter!Quiet, Active
  <2>4. counter'[o] = counter[o]
    BY <1>1, <2>2 DEF Counting
  <2>5. ASSUME NEW d \in Docs, FormFor(d) \in Counter!FormsOf(o) PROVE size'[d] = size[d]
    <3>1. Counter!Owner(FormFor(d)) = o
      BY <2>5 DEF Counter!FormsOf
    <3>2. d \notin req[q].docs
      BY <1>1, <2>2, <3>1, RequestIs DEF Asks
    <3> QED  BY <1>1, <3>2 DEF Sizing
  <2>6. /\ Standing(o)' = Standing(o) /\ Counter!Sum(Standing(o))' = Counter!Sum(Standing(o))
        /\ Counter!Usage(o)' = Counter!Usage(o)
    <3>1. Counter!FormsOf(o)' = Counter!FormsOf(o)
      BY <1>2
    <3> QED  BY <2>5, <3>1, UsageStays
  <2> QED  BY <1>2, <1>3, <1>4, <1>6, <2>1, <2>3, <2>4, <2>6 DEF Measured
<1> QED  BY <1>5, <1>6

\* A request at work stays apart from the others, and charges whom it should.
LEMMA DeskWork ==
  ASSUME WorldTyped, Asks, WorkInv, NEW q \in Hands, Counter!Serve(q)
  PROVE  WorkInv'
<1>1. q \in Active /\ UNCHANGED Apartments /\ Turns(q) /\ Sizing(q)
  BY DeskStep
<1>2. /\ \A d : Payer(d)' = Payer(d)
      /\ Trusted' = Trusted /\ Active' \subseteq Active
      /\ \A p \in Active' : /\ Counter!Touches(p)' \subseteq Counter!Touches(p)
                            /\ req'[p].docs \subseteq Counter!Touches(p)
  BY <1>1, DeskFrame
<1>3. \A p \in Active : p \in Hands /\ Asked(req[p])
  BY DEF Asks, Active, Counter!Active
<1>4. ASSUME NEW p \in Active', NEW d \in req'[p].docs
      PROVE  d \in Docs /\ FormFor(d) = Form(p) /\ Payer(d) = Counter!Owner(Form(p))
  <2>1. d \in Docs /\ FormFor(d) = Form(p)
    BY <1>2, <1>3, RequestIs
  <2> QED  BY <2>1 DEF Payer
<1>5. ASSUME NEW p1 \in Active', NEW p2 \in Active', p1 # p2 PROVE Apart(p1, p2)'
  <2> SUFFICES ASSUME Counter!Touches(p1)' \cap Counter!Touches(p2)' # {}, NEW d \in req'[p2].docs
               PROVE  Payer(d)' \notin Trusted'
    BY DEF Apart
  <2>1. Counter!Touches(p1) \cap Counter!Touches(p2) # {}
    BY <1>2
  <2>2. Counter!Owner(Form(p2)) \notin Trusted
    BY <1>2, <1>5, <2>1, ApartMeans
  <2> QED  BY <1>2, <1>4, <2>2
<1>6. ASSUME NEW p \in Active', NEW d \in req'[p].docs, req'[p].kind = "purge", d \in Papers, Payer(d) \in Trusted,
             NEW r \in Counter!Answers({d})
      PROVE  size'[r] = 0
  <2>1. /\ r \in Docs /\ r \in Papers \X Numbers /\ r \notin Papers /\ FormFor(r) = d /\ FormFor(d) = d
        /\ Form(p) = d /\ p \in Active /\ p \in Hands
    BY <1>2, <1>3, <1>4, <1>6, FormsFound, CounterAssumed
  <2>2. req[p].kind = "purge"
    BY <1>1, <1>6, <2>1 DEF Turns, Active, Counter!Active
  <2>3. r \in Counter!Touches(p)
    BY <1>3, <2>1, <2>2, RequestIs
  <2>4. ASSUME size[r] = 0, size'[r] # 0 PROVE FALSE
    <3>1. req[q].kind = "create" /\ r \in req[q].docs
      BY <1>1, <2>1, <2>4 DEF Sizing
    <3>2. p # q /\ r \in Counter!Touches(q)
      BY <1>1, <1>3, <2>2, <3>1, RequestIs
    <3>3. Counter!Owner(Form(p)) \notin Trusted
      BY <1>1, <2>1, <2>3, <3>2, ApartMeans
    <3> QED  BY <1>4, <1>6, <2>1, <3>3
  <2>5. CASE d \in req[p].docs
    <3>1. size[r] = 0
      BY <1>6, <2>1, <2>2, <2>5 DEF WorkInv, Works, Active
    <3> QED  BY <2>4, <3>1
  <2>6. CASE d \notin req[p].docs
    <3>1. p = q /\ \A e \in req[q].docs : size'[e] = 0
      BY <1>1, <1>6, <2>1, <2>6 DEF Turns, Active, Counter!Active
    <3>2. req[q].docs = Counter!Answers({d})
      BY <1>1, <1>3, <2>1, <2>2, <2>6, <3>1, RequestIs
    <3> QED  BY <3>1, <3>2
  <2> QED  BY <2>5, <2>6
<1>7. ASSUME NEW p \in Active', NEW d \in req'[p].docs, req'[p].at = "count", {Payer(d), req'[p].who} \cap Trusted # {}
      PROVE  Payer(d) = req'[p].who
  <2>1. CASE p = q
    BY <1>1, <1>4, <1>7, <2>1 DEF Turns
  <2>2. CASE p # q
    <3>1. req'[p] = req[p] /\ p \in Active
      BY <1>1, <1>2, <1>3, <2>2 DEF Turns
    <3> QED  BY <1>7, <3>1 DEF WorkInv, Works, Active
  <2> QED  BY <2>1, <2>2
<1>8. \A d : Counter!Answers({d})' = Counter!Answers({d})
  BY DEF Counter!Answers
<1> QED  BY <1>2, <1>5, <1>6, <1>7, <1>8 DEF WorkInv, Works, Active

\* A request at work on other documents changes nothing about what a document counts for.
LEMMA CountsStay ==
  ASSUME WorldTyped, Asks, MadeOnce, NEW q \in Hands, Counter!Serve(q),
         NEW d \in Docs, d \notin Counter!Touches(q)
  PROVE  /\ size'[d] = size[d]
         /\ (Counts(d)' <=> Counts(d)) \/ (Counts(d)' /\ size[d] = 0)
         /\ Due(d)' = Due(d)
<1>1. q \in Active /\ Sizing(q) /\ UNCHANGED Apartments
  BY DeskStep
<1>2. Asked(req[q])
  BY DEF Asks
<1>3. size'[d] = size[d]
  BY <1>1, <1>2, RequestIs DEF Sizing
<1>4. (Counts(d)' <=> Counts(d)) \/ (Counts(d)' /\ size[d] = 0)
  <2>1. CASE d \in Papers
    BY <2>1 DEF Counts
  <2>2. CASE d \notin Papers
    <3> DEFINE f == FormFor(d)
    <3>1. f \in Papers /\ f \in Docs /\ d \in Papers \X Numbers
      BY <2>2, FormsFound, CounterAssumed
    <3>2. Counts(d) <=> size[f] # 0
      BY <2>2 DEF Counts
    <3>3. Counts(d)' <=> size'[f] # 0
      BY <2>2 DEF Counts, FormFor, Counter!FormOfDoc
    <3>4. CASE f \notin req[q].docs
      BY <1>1, <3>1, <3>2, <3>3, <3>4 DEF Sizing
    <3>5. CASE f \in req[q].docs
      <4>1. Form(q) = f /\ req[q].kind # "purge"
        BY <1>1, <1>2, <3>1, <3>5, FormsFound, RequestIs
      <4>2. req[q].kind # "drop"
        BY <1>1, <1>2, <3>1, <3>5, CounterAssumed DEF Asked, DocsFit, Active, Counter!Active
      <4>3. size[f] # 0 => size'[f] # 0
        BY <1>1, <3>1, <4>1, <4>2 DEF Sizing
      <4>4. ASSUME size[f] = 0, size'[f] # 0 PROVE size[d] = 0
        <5>1. req[q].kind = "create" /\ req[q].at = "write"
          BY <1>1, <3>1, <4>4 DEF Sizing
        <5>2. d \notin used
          BY <1>1, <1>2, <3>1, <3>5, <5>1 DEF Asked, Active, Counter!Active
        <5> QED  BY <5>2 DEF MadeOnce
      <4> QED  BY <3>2, <3>3, <4>3, <4>4
    <3> QED  BY <3>4, <3>5
  <2> QED  BY <2>1, <2>2
<1>5. Due(d)' = (IF Counts(d)' THEN size'[d] ELSE 0)
  BY DEF Due
<1>6. Due(d) = (IF Counts(d) THEN size[d] ELSE 0)
  BY DEF Due
<1> QED  BY <1>3, <1>4, <1>5, <1>6

\* What a request has been charged for stays so where nothing about its document changes.
LEMMA AccountedStays ==
  ASSUME NEW r, NEW d, NEW n, Accounted(r, d, n), size'[d] = size[d], Due(d)' = Due(d),
         (Counts(d)' <=> Counts(d)) \/ (Counts(d)' /\ size[d] = 0),
         r.kind \in {"drop", "purge"} => Counter!Sum(r.docs)' = Counter!Sum(r.docs)
  PROVE  Accounted(r, d, n)'
<1> DEFINE c == Counts(d)
<1>1. Due(d) = (IF Counts(d) THEN size[d] ELSE 0)
  BY DEF Due
<1>2. CASE r.kind = "create"
  BY <1>2 DEF Accounted
<1>3. CASE r.kind = "edit"
  BY <1>1, <1>3 DEF Accounted
<1>4. CASE r.kind \in {"drop", "purge"}
  BY <1>4 DEF Accounted
<1>5. CASE r.kind \notin {"create", "edit", "drop", "purge"}
  BY <1>5 DEF Accounted
<1> QED  BY <1>2, <1>3, <1>4, <1>5

\* What a step changes in a total is what it changes in a part.
LEMMA TotalChange ==
  ASSUME NEW D, IsFiniteSet(D), NEW E \in SUBSET D, NEW f, NEW g,
         \A d \in D : f[d] \in Nat /\ g[d] \in Nat, \A d \in D \ E : g[d] = f[d]
  PROVE  /\ Total(f, D) \in Nat /\ Total(g, D) \in Nat /\ Total(f, E) \in Nat /\ Total(g, E) \in Nat
         /\ Total(g, D) = Total(f, D) + Total(g, E) - Total(f, E)
<1>1. IsFiniteSet(E) /\ IsFiniteSet(D \ E)
  BY FS_Subset
<1>2. E \cup (D \ E) = D /\ E \cap (D \ E) = {}
  OBVIOUS
<1>3. Total(f, D) = Total(f, E) + Total(f, D \ E)
  BY <1>1, <1>2, TotalSplit
<1>4. Total(g, D) = Total(g, E) + Total(g, D \ E)
  BY <1>1, <1>2, TotalSplit
<1>5. Total(g, D \ E) = Total(f, D \ E)
  BY TotalSame
<1>6. Total(f, E) \in Nat /\ Total(g, E) \in Nat
  BY <1>1, TotalType
<1>7. Total(f, D \ E) \in Nat
  BY <1>1, TotalType
<1> QED  BY <1>3, <1>4, <1>5, <1>6, <1>7

Settling(o) == \A t \in Counter!Measuring : task[t].who # o

\* The books after a step of a request: its own documents are accounted for, the rest stay as they are.
LEMMA DeskBooks ==
  ASSUME WorldTyped, Asks, MadeOnce, WorkInv, NEW q \in Hands, Counter!Serve(q),
         NEW paid \in [Docs -> Sized], Charged(paid), NEW new \in [Docs -> Sized],
         \A d \in Docs : d \notin req[q].docs => new[d] = paid[d],
         \A o \in Trusted : Settling(o) => counter'[o] = Total(new, DocsOf(o)),
         \A d \in req[q].docs : Payer(d) \in Trusted =>
           IF q \in Active' /\ d \in req'[q].docs THEN Accounted(req[q], d, new[d])' ELSE new[d] = Due(d)'
  PROVE  BooksInv'
<1>1. q \in Active /\ UNCHANGED Apartments /\ Turns(q) /\ Sizing(q)
  BY DeskStep
<1>2. /\ \A d : Payer(d)' = Payer(d)
      /\ \A o : DocsOf(o)' = DocsOf(o)
      /\ Trusted' = Trusted /\ Counter!Measuring' = Counter!Measuring
      /\ Active' \subseteq Active /\ \A p \in Active : p # q => p \in Active'
  BY <1>1, DeskFrame
<1>3. \A p \in Active : p \in Hands /\ Asked(req[p])
  BY DEF Asks, Active, Counter!Active
<1>4. Docs' = Docs /\ Sized' = Sized
  BY DEF Docs, Counter!Docs, Sized
<1>5. ASSUME NEW o \in Trusted', \A t \in Counter!Measuring' : task'[t].who # o
      PROVE  counter'[o] = Total(new, DocsOf(o)')
  <2>1. task' = task
    BY <1>1 DEF Apartments
  <2> QED  BY <1>2, <1>5, <2>1 DEF Settling
\* No other request is at work on what this one touches.
<1>6. ASSUME NEW p \in Active, p # q, NEW d \in Docs, d \in Counter!Touches(p), d \in Counter!Touches(q)
      PROVE  Payer(d) \notin Trusted
  <2>1. Counter!Owner(Form(p)) \notin Trusted
    BY <1>1, <1>6, ApartMeans
  <2>2. FormFor(d) = Form(p)
    BY <1>3, <1>6, RequestIs
  <2> QED  BY <2>1, <2>2 DEF Payer
<1>7. \A p \in Active : req[p].docs \subseteq Counter!Touches(p)
  BY <1>3, RequestIs
<1>8. \A p \in Hands : p # q => req'[p] = req[p]
  BY <1>1 DEF Turns
<1>9. ASSUME NEW d \in Docs, Payer(d) \in Trusted, d \notin Counter!Touches(q)
      PROVE  /\ ~InWork(d)' => new[d] = Due(d)'
             /\ \A p \in Active' : p # q /\ d \in req'[p].docs => Accounted(req[p], d, new[d])'
  <2>1. /\ size'[d] = size[d] /\ Due(d)' = Due(d)
        /\ (Counts(d)' <=> Counts(d)) \/ (Counts(d)' /\ size[d] = 0)
    BY <1>9, CountsStay
  <2>2. d \notin req[q].docs /\ new[d] = paid[d]
    BY <1>1, <1>7, <1>9
  <2>3. ~InWork(d)' => new[d] = Due(d)'
    <3>1. ~InWork(d)' => ~InWork(d)
      BY <1>2, <1>3, <1>8, <2>2 DEF InWork, Active
    <3> QED  BY <1>9, <2>1, <2>2, <3>1 DEF Charged
  <2>4. ASSUME NEW p \in Active', p # q, d \in req'[p].docs
        PROVE  Accounted(req[p], d, new[d])'
    <3>1. p \in Active /\ req'[p] = req[p]
      BY <1>2, <1>3, <1>8, <2>4
    <3>2. Accounted(req[p], d, paid[d])
      BY <1>9, <2>4, <3>1 DEF Charged, Active
    <3>3. Counter!Sum(req[p].docs)' = Counter!Sum(req[p].docs)
      <4>1. \A e \in req[p].docs : e \in Docs /\ Payer(e) = Payer(d)
        BY <1>3, <2>4, <3>1, RequestIs
      <4>2. \A e \in req[p].docs : e \notin req[q].docs
        BY <1>1, <1>6, <1>7, <1>9, <2>4, <3>1, <4>1
      <4>3. \A e \in req[p].docs : {e} \X (1..size'[e]) = {e} \X (1..size[e])
        BY <1>1, <4>1, <4>2 DEF Sizing
      <4>4. {{e} \X (1..size'[e]) : e \in req[p].docs} = {{e} \X (1..size[e]) : e \in req[p].docs}
        BY <4>3
      <4> QED  BY <3>1, <4>4, SameCount DEF Counter!Sum
    <3>4. PICK r : r = req[p]
      OBVIOUS
    <3>5. PICK n : n = paid[d]
      OBVIOUS
    <3>6. Counter!Sum(r.docs)' = Counter!Sum(r.docs)
      BY <3>1, <3>3, <3>4 DEF Counter!Sum
    <3>7. Accounted(r, d, n)
      BY <3>2, <3>4, <3>5
    <3>8. Accounted(r, d, n)'
      BY <2>1, <3>6, <3>7, AccountedStays
    <3> QED  BY <2>2, <3>1, <3>4, <3>5, <3>8 DEF Accounted
  <2> QED  BY <2>3, <2>4
<1>10. ASSUME NEW d \in Docs, Payer(d) \in Trusted, d \in Counter!Touches(q), d \notin req[q].docs
       PROVE  new[d] = Due(d)'
  <2>1. ~InWork(d)
    BY <1>6, <1>7, <1>10 DEF InWork, Active
  <2>2. new[d] = Due(d)
    BY <1>10, <2>1 DEF Charged
  <2>3. req[q].kind = "purge" /\ FormFor(d) = Form(q) /\ Form(q) \in Papers
    BY <1>1, <1>3, <1>10, RequestIs
  <2>4. size'[d] = size[d]
    BY <1>1, <1>10 DEF Sizing
  <2>5. CASE d \in Papers
    BY <2>2, <2>4, <2>5 DEF Due, Counts
  <2>6. CASE d \notin Papers
    <3>1. d \in Papers \X Numbers /\ d \in Counter!Answers({Form(q)})
      BY <2>3, <2>6, CounterAssumed, FormsFound
    <3>2. req[q].docs = {Form(q)}
      BY <1>1, <1>3, <1>10, <2>3, <3>1, RequestIs
    <3>3. Payer(Form(q)) = Payer(d)
      BY <2>3, FormsFound DEF Payer
    <3>4. size[d] = 0
      BY <1>1, <1>10, <2>3, <3>1, <3>2, <3>3 DEF WorkInv, Works, Active
    <3> QED  BY <2>2, <2>4, <3>4 DEF Due
  <2> QED  BY <2>5, <2>6
<1>11. ASSUME NEW d \in Docs, Payer(d) \in Trusted, ~InWork(d)'
       PROVE  new[d] = Due(d)'
  <2>1. ~(q \in Active' /\ d \in req'[q].docs)
    BY <1>11 DEF InWork, Active
  <2>2. CASE d \in req[q].docs
    BY <1>11, <2>1, <2>2
  <2> QED  BY <1>9, <1>10, <1>11, <2>2
<1>12. ASSUME NEW p \in Active', NEW d \in req'[p].docs, Payer(d) \in Trusted
       PROVE  Accounted(req[p], d, new[d])'
  <2>1. d \in Docs
    BY <1>1, <1>2, <1>12 DEF Turns, Wants, Active, Counter!Active
  <2>2. CASE p # q
    <3>1. d \notin Counter!Touches(q)
      BY <1>2, <1>3, <1>6, <1>7, <1>8, <1>12, <2>1, <2>2
    <3> QED  BY <1>9, <1>12, <2>1, <2>2, <3>1
  <2>3. CASE p = q /\ d \in req[q].docs
    BY <1>12, <2>3
  <2>4. CASE p = q /\ d \notin req[q].docs
    <3>1. req'[q].at = "before" /\ req'[q].kind = "purge" /\ req'[q].docs = {Form(q)} /\ req[q].kind = "purge"
      BY <1>1, <1>12, <2>4 DEF Turns, Active, Counter!Active
    <3>2. d \in Counter!Touches(q)
      <4>1. d = Form(q) /\ FormFor(d) = Form(q)
        BY <1>1, <1>3, <1>12, <2>4, <3>1, FormsFound, RequestIs
      <4> QED  BY <1>1, <1>3, <2>1, <3>1, <4>1, RequestIs
    <3>3. new[d] = Due(d)'
      BY <1>10, <1>12, <2>1, <2>4, <3>2
    <3> QED  BY <2>4, <3>1, <3>3 DEF Accounted
  <2> QED  BY <2>2, <2>3, <2>4
<1>13. Charged(new)'
  <2>1. \A d : Payer(d)' = Payer(d) /\ (Payer(d) \in Trusted)' = (Payer(d) \in Trusted)
    BY <1>2
  <2> QED  BY <1>2, <1>4, <1>5, <1>11, <1>12, <2>1 DEF Charged, Active
<1> QED  BY <1>4, <1>13 DEF BooksInv

\* What a request's documents count for alike.
LEMMA HeadCounts ==
  ASSUME WorldTyped, NEW q \in Hands, Asked(req[q]), q \in Active
  PROVE  /\ \A d \in req[q].docs : Counts(d) <=> Counts(Head(q))
         /\ Counter!Payer(Head(q)) # Nobody <=> Counts(Head(q))
<1>1. \A d \in req[q].docs : d \in Docs /\ FormFor(d) = Form(q)
  BY RequestIs
<1>2. Head(q) \in req[q].docs /\ Form(q) \in Papers
  BY RequestIs
<1>3. \A d \in req[q].docs : d \in Papers <=> Head(q) \in Papers
  <2>1. CASE req[q].kind = "purge"
    <3>1. req[q].docs = {Form(q)} \/ req[q].docs = Counter!Answers({Form(q)})
      BY <2>1, RequestIs
    <3> QED  BY <1>2, <3>1, FormsFound, CounterAssumed
  <2>2. CASE req[q].kind # "purge"
    <3>1. req[q].docs = {Head(q)}
      BY <2>2, RequestIs
    <3> QED  BY <3>1
  <2> QED  BY <2>1, <2>2
<1>4. \A d \in req[q].docs : Counts(d) <=> Counts(Head(q))
  BY <1>1, <1>2, <1>3 DEF Counts
<1>5. Counter!Owner(Form(q)) # Nobody
  BY <1>2, OwnersAre, CounterAssumed
<1>6. Counter!Payer(Head(q)) = IF Counts(Head(q)) THEN Counter!Owner(Form(q)) ELSE Nobody
  BY DEF Counter!Payer, Counts, FormFor, Form, Counter!Stored
<1> QED  BY <1>4, <1>5, <1>6

\* The bytes of one document.
LEMMA SumOne ==
  ASSUME WorldTyped, NEW d \in Docs
  PROVE  Counter!Sum({d}) = size[d]
BY SumIs, TotalOne, SizesTyped

\* Measuring a document before it is written or deleted changes no account.
LEMMA BeforeBooks ==
  ASSUME WorldTyped, Asks, MadeOnce, WorkInv, BooksInv, NEW q \in Hands, Counter!Before(q)
  PROVE  BooksInv'
<1>1. Counter!Serve(q)
  BY DEF Counter!Serve
<1>2. q \in Active /\ Asked(req[q]) /\ Turns(q)
  BY <1>1, DeskStep DEF Asks
<1>3. PICK paid \in [Docs -> Sized] : Charged(paid)
  BY DEF BooksInv
<1>4. UNCHANGED <<size, counter>> /\ req[q].at = "before"
  BY DEF Counter!Before, Counter!world
<1>5. ASSUME NEW o \in Trusted, Settling(o) PROVE counter'[o] = Total(paid, DocsOf(o))
  BY <1>3, <1>4, <1>5 DEF Charged, Settling
<1>6. ASSUME NEW d \in req[q].docs, Payer(d) \in Trusted
      PROVE  IF q \in Active' /\ d \in req'[q].docs THEN Accounted(req[q], d, paid[d])' ELSE paid[d] = Due(d)'
  <2>1. Accounted(req[q], d, paid[d])
    BY <1>2, <1>3, <1>6 DEF Charged, Active
  <2>2. Due(d)' = Due(d) /\ size'[d] = size[d]
    BY <1>4 DEF Due, Counts, FormFor, Counter!FormOfDoc
  <2>3. d \in Docs
    BY <1>2, <1>6, RequestIs
  <2>4. req[q].kind \in {"edit", "drop", "purge"}
    BY <1>2, <1>4 DEF Asked, Active, Counter!Active, Stages, Counter!Kinds
  <2>5. paid[d] = Due(d)
    BY <1>4, <2>1, <2>4 DEF Accounted
  <2>6. CASE req[q].kind = "edit"
    <3>1. Counter!Go(q, "write", Counter!Sum(req[q].docs), Nobody)
      BY <2>6 DEF Counter!Before
    <3>2. req[q].docs = {d} /\ Counter!Sum(req[q].docs) = size[d]
      <4>1. req[q].docs = {d}
        BY <1>2, <1>6, <2>6, RequestIs
      <4> QED  BY <2>3, <4>1, SumOne
    <3>3. Counter!Sum(req[q].docs) \in Int
      BY <2>3, <3>2, SizesTyped
    <3>4. req'[q].at = "write" /\ req'[q].bytes = size[d] /\ req'[q].kind = "edit" /\ req'[q].docs = req[q].docs
      BY <2>6, <3>1, <3>2, <3>3, GoTyped
    <3>5. q \in Active'
      BY <3>4 DEF Active, Counter!Active
    <3> QED  BY <1>6, <2>2, <2>5, <3>4, <3>5 DEF Accounted
  <2>7. CASE req[q].kind \in {"drop", "purge"}
    <3>1. Counter!Go(q, "owner", - Counter!Sum(req[q].docs), Nobody)
      BY <2>7 DEF Counter!Before
    <3>2. - Counter!Sum(req[q].docs) \in Int
      <4>1. Counter!Sum(req[q].docs) \in Nat
        BY <1>2, RequestIs, OwnersAre
      <4> QED  BY <4>1
    <3>3. /\ req'[q].at = "owner" /\ req'[q].bytes = - Counter!Sum(req[q].docs)
          /\ req'[q].kind = req[q].kind /\ req'[q].docs = req[q].docs
      BY <3>1, <3>2, GoTyped
    <3>4. Counter!Sum(req[q].docs)' = Counter!Sum(req[q].docs)
      BY <1>4, <3>3 DEF Counter!Sum
    <3>5. q \in Active'
      BY <3>3 DEF Active, Counter!Active
    <3> QED  BY <1>6, <2>2, <2>5, <2>7, <3>3, <3>4, <3>5 DEF Accounted
  <2> QED  BY <2>4, <2>6, <2>7
<1> QED  BY <1>1, <1>3, <1>5, <1>6, DeskBooks

\* A document is written: it has been charged for what it had before.
LEMMA WriteBooks ==
  ASSUME WorldTyped, Asks, MadeOnce, WorkInv, BooksInv, NEW q \in Hands, Counter!Write(q)
  PROVE  BooksInv'
<1>1. Counter!Serve(q)
  BY DEF Counter!Serve
<1>2. q \in Active /\ Asked(req[q]) /\ Sizing(q)
  BY <1>1, DeskStep DEF Asks
<1>3. PICK paid \in [Docs -> Sized] : Charged(paid)
  BY DEF BooksInv
<1>4. UNCHANGED counter /\ req[q].at = "write" /\ Counter!Go(q, "after", req[q].bytes, Nobody)
  BY DEF Counter!Write
<1>5. ASSUME NEW o \in Trusted, Settling(o) PROVE counter'[o] = Total(paid, DocsOf(o))
  BY <1>3, <1>4, <1>5 DEF Charged, Settling
<1>6. ASSUME NEW d \in req[q].docs, Payer(d) \in Trusted
      PROVE  IF q \in Active' /\ d \in req'[q].docs THEN Accounted(req[q], d, paid[d])' ELSE paid[d] = Due(d)'
  <2>1. Accounted(req[q], d, paid[d])
    BY <1>2, <1>3, <1>6 DEF Charged, Active
  <2>2. d \in Docs
    BY <1>2, <1>6, RequestIs
  <2>3. req[q].kind \in {"create", "edit"}
    BY <1>2, <1>4 DEF Asked, Active, Counter!Active, Stages, Counter!Kinds
  <2>4. req[q].bytes \in Int
    BY DEF WorldTyped, Counter!TypeOK
  <2>5. req'[q].at = "after" /\ req'[q].bytes = req[q].bytes /\ req'[q].kind = req[q].kind
        /\ req'[q].docs = req[q].docs
    BY <1>4, <2>4, GoTyped
  <2>6. q \in Active'
    BY <2>5 DEF Active, Counter!Active
  <2>7. CASE req[q].kind = "create"
    BY <1>4, <1>6, <2>1, <2>5, <2>6, <2>7 DEF Accounted
  <2>8. CASE req[q].kind = "edit"
    <3>1. paid[d] = Due(d) /\ req[q].bytes = size[d]
      BY <1>4, <2>1, <2>8 DEF Accounted
    <3>2. size'[d] = 0 <=> size[d] = 0
      BY <1>2, <2>2, <2>8 DEF Sizing
    <3>3. Counts(d)' <=> Counts(d)
      <4>1. req[q].docs = {d}
        BY <1>2, <1>6, <2>8, RequestIs
      <4>2. CASE d \in Papers
        BY <4>2 DEF Counts
      <4>3. CASE d \notin Papers
        <5>1. FormFor(d) \in Docs /\ FormFor(d) # d
          BY <2>2, <4>3, FormsFound, CounterAssumed
        <5>2. size'[FormFor(d)] = size[FormFor(d)]
          BY <1>2, <4>1, <5>1 DEF Sizing
        <5> QED  BY <4>3, <5>2 DEF Counts, FormFor, Counter!FormOfDoc
      <4> QED  BY <4>2, <4>3
    <3>4. paid[d] = IF Counts(d)' THEN req'[q].bytes ELSE 0
      BY <2>5, <3>1, <3>3 DEF Due
    <3>5. req'[q].bytes = 0 <=> size'[d] = 0
      BY <2>5, <3>1, <3>2
    <3> QED  BY <1>6, <2>5, <2>6, <2>8, <3>4, <3>5 DEF Accounted
  <2> QED  BY <2>3, <2>7, <2>8
<1> QED  BY <1>1, <1>3, <1>5, <1>6, DeskBooks

\* Measuring it again: what it has been charged for is known, or nothing is left to charge.
LEMMA AfterBooks ==
  ASSUME WorldTyped, Asks, MadeOnce, WorkInv, BooksInv, NEW q \in Hands, Counter!After(q)
  PROVE  BooksInv'
<1>1. Counter!Serve(q)
  BY DEF Counter!Serve
<1>2. q \in Active /\ Asked(req[q])
  BY <1>1, DeskStep DEF Asks
<1>3. PICK paid \in [Docs -> Sized] : Charged(paid)
  BY DEF BooksInv
<1>4. UNCHANGED <<size, counter>> /\ req[q].at = "after"
  BY DEF Counter!After, Counter!world
<1>5. ASSUME NEW o \in Trusted, Settling(o) PROVE counter'[o] = Total(paid, DocsOf(o))
  BY <1>3, <1>4, <1>5 DEF Charged, Settling
<1>6. ASSUME NEW d \in req[q].docs, Payer(d) \in Trusted
      PROVE  IF q \in Active' /\ d \in req'[q].docs THEN Accounted(req[q], d, paid[d])' ELSE paid[d] = Due(d)'
  <2>1. Accounted(req[q], d, paid[d])
    BY <1>2, <1>3, <1>6 DEF Charged, Active
  <2>2. Due(d)' = Due(d) /\ size'[d] = size[d] /\ (Counts(d)' <=> Counts(d))
    BY <1>4 DEF Due, Counts, FormFor, Counter!FormOfDoc
  <2>3. req[q].kind \in {"create", "edit"}
    BY <1>2, <1>4 DEF Asked, Active, Counter!Active, Stages, Counter!Kinds
  <2>4. d = Head(q) /\ d \in Docs
    BY <1>2, <1>6, <2>3, RequestIs
  <2>5. req[q].bytes \in Int /\ size[d] \in Nat /\ Due(d) = IF Counts(d) THEN size[d] ELSE 0
    BY <2>4, SizesTyped DEF WorldTyped, Counter!TypeOK, Due
  <2>6. CASE size[d] = 0 \/ (req[q].kind = "edit" /\ req[q].bytes = 0)
    <3>1. Counter!End(q)
      BY <2>4, <2>6 DEF Counter!After, Head
    <3>2. q \notin Active'
      BY <3>1, EndTyped DEF Active, Counter!Active
    <3>3. paid[d] = Due(d)
      BY <1>4, <2>1, <2>3, <2>5, <2>6 DEF Accounted
    <3> QED  BY <2>2, <3>2, <3>3
  <2>7. CASE ~(size[d] = 0 \/ (req[q].kind = "edit" /\ req[q].bytes = 0))
    <3>1. Counter!Go(q, "owner", size[d] - req[q].bytes, Nobody)
      BY <2>4, <2>7 DEF Counter!After, Head
    <3>2. size[d] - req[q].bytes \in Int
      BY <2>5
    <3>3. /\ req'[q].at = "owner" /\ req'[q].bytes = size[d] - req[q].bytes
          /\ req'[q].kind = req[q].kind /\ req'[q].docs = req[q].docs
      BY <3>1, <3>2, GoTyped
    <3>4. q \in Active'
      BY <3>3 DEF Active, Counter!Active
    <3>5. CASE req[q].kind = "create"
      <4>1. paid[d] = 0 /\ req[q].bytes = 0
        BY <1>4, <2>1, <3>5 DEF Accounted
      <4>2. req'[q].bytes = size'[d]
        BY <2>2, <2>5, <3>3, <4>1
      <4> QED  BY <1>6, <3>3, <3>4, <3>5, <4>1, <4>2 DEF Accounted
    <3>6. CASE req[q].kind = "edit"
      <4>1. paid[d] = IF Counts(d) THEN req[q].bytes ELSE 0
        BY <1>4, <2>1, <3>6 DEF Accounted
      <4> QED  BY <1>6, <2>2, <2>7, <3>3, <3>4, <3>6, <4>1 DEF Accounted
    <3> QED  BY <2>3, <3>5, <3>6
  <2> QED  BY <2>6, <2>7
<1> QED  BY <1>1, <1>3, <1>5, <1>6, DeskBooks

\* Finding the owner: a document that counts for nobody has been charged for nothing.
LEMMA ChargeBooks ==
  ASSUME WorldTyped, Asks, MadeOnce, WorkInv, BooksInv, NEW q \in Hands, Counter!Charge(q)
  PROVE  BooksInv'
<1>1. Counter!Serve(q)
  BY DEF Counter!Serve
<1>2. q \in Active /\ Asked(req[q])
  BY <1>1, DeskStep DEF Asks
<1>3. PICK paid \in [Docs -> Sized] : Charged(paid)
  BY DEF BooksInv
<1>4. UNCHANGED <<size, counter>> /\ req[q].at = "owner"
  BY DEF Counter!Charge, Counter!world
<1>5. ASSUME NEW o \in Trusted, Settling(o) PROVE counter'[o] = Total(paid, DocsOf(o))
  BY <1>3, <1>4, <1>5 DEF Charged, Settling
<1>6. /\ req[q].docs # {} /\ req[q].docs \subseteq Docs
      /\ \A d \in req[q].docs : Counts(d) <=> Counts(Head(q))
      /\ Counter!Payer(Head(q)) # Nobody <=> Counts(Head(q))
  BY <1>2, RequestIs, HeadCounts
<1>7. req[q].kind \in Counter!Kinds /\ req[q].bytes \in Int
  BY <1>2 DEF Asked, Active, Counter!Active, WorldTyped, Counter!TypeOK
<1>8. ASSUME NEW d \in req[q].docs, Payer(d) \in Trusted
      PROVE  IF q \in Active' /\ d \in req'[q].docs THEN Accounted(req[q], d, paid[d])' ELSE paid[d] = Due(d)'
  <2>1. Accounted(req[q], d, paid[d])
    BY <1>2, <1>3, <1>8 DEF Charged, Active
  <2>2. Due(d)' = Due(d) /\ size'[d] = size[d] /\ (Counts(d)' <=> Counts(d))
    BY <1>4 DEF Due, Counts, FormFor, Counter!FormOfDoc
  <2>3. d \in Docs /\ size[d] \in Nat /\ Due(d) = (IF Counts(d) THEN size[d] ELSE 0) /\ paid[d] \in Int
    BY <1>3, <1>6, SizesTyped DEF Due
  <2>4. CASE req[q].bytes = 0 \/ ~Counts(d)
    <3>1. req[q].bytes = 0 \/ Counter!Payer(Head(q)) = Nobody
      BY <1>6, <2>4
    <3>2. CASE req[q].kind \in {"drop", "purge"}
      <4>1. Counter!Go(q, "delete", 0, Nobody)
        BY <1>4, <3>1, <3>2 DEF Counter!Charge, Head
      <4>2. req'[q].at = "delete" /\ req'[q].kind = req[q].kind /\ req'[q].docs = req[q].docs
        BY <4>1, GoTyped
      <4>3. q \in Active'
        BY <4>2 DEF Active, Counter!Active
      <4>4. paid[d] = Due(d) /\ req[q].bytes = - Counter!Sum(req[q].docs)
        BY <1>4, <2>1, <3>2 DEF Accounted
      <4>5. CASE ~Counts(d)
        BY <1>8, <2>3, <3>2, <4>2, <4>3, <4>4, <4>5 DEF Accounted
      <4>6. CASE req[q].bytes = 0
        <5>1. Counter!Sum(req[q].docs) \in Nat
          BY <1>6, OwnersAre
        <5>2. Total(size, req[q].docs) = 0
          BY <4>4, <4>6, <5>1, SumIs
        <5>3. size[d] = 0
          <6>1. IsFiniteSet(req[q].docs) /\ \A e \in req[q].docs : size[e] \in Nat
            BY <1>6, CounterAssumed, FS_Subset, SizesTyped
          <6> QED  BY <5>2, <6>1, TotalNone
        <5>4. paid[d] = 0
          BY <2>3, <4>4, <5>3
        <5> QED  BY <1>8, <3>2, <4>2, <4>3, <5>4 DEF Accounted
      <4> QED  BY <2>4, <4>5, <4>6
    <3>3. CASE req[q].kind \in {"create", "edit"}
      <4>1. Counter!End(q)
        BY <1>4, <3>1, <3>3 DEF Counter!Charge, Head
      <4>2. q \notin Active'
        BY <4>1, EndTyped DEF Active, Counter!Active
      <4>3. CASE req[q].kind = "create"
        <5>1. paid[d] = 0 /\ req[q].bytes = size[d]
          BY <1>4, <2>1, <4>3 DEF Accounted
        <5>2. paid[d] = Due(d)
          BY <2>3, <2>4, <5>1
        <5> QED  BY <2>2, <4>2, <5>2
      <4>4. CASE req[q].kind = "edit"
        <5>1. IF Counts(d) THEN req[q].bytes = size[d] - paid[d] ELSE paid[d] = 0
          BY <1>4, <2>1, <4>4 DEF Accounted
        <5>2. paid[d] = Due(d)
          BY <2>3, <2>4, <5>1
        <5> QED  BY <2>2, <4>2, <5>2
      <4> QED  BY <3>3, <4>3, <4>4
    <3> QED  BY <1>7, <3>2, <3>3 DEF Counter!Kinds
  <2>5. CASE req[q].bytes # 0 /\ Counts(d)
    <3>1. Counter!Payer(Head(q)) # Nobody
      BY <1>6, <2>5
    <3>2. Counter!Go(q, "count", req[q].bytes, Counter!Payer(Head(q)))
      BY <1>4, <1>6, <2>5, <3>1 DEF Counter!Charge, Head
    <3>3. Counter!Payer(Head(q)) \in Accounts
      <4>1. Counter!Payer(Head(q)) = Counter!Owner(Form(q))
        BY <3>1 DEF Counter!Payer, Form, FormFor
      <4>2. Form(q) \in Papers
        BY <1>2, RequestIs
      <4> QED  BY <4>1, <4>2, OwnersAre
    <3>4. /\ req'[q].at = "count" /\ req'[q].bytes = req[q].bytes
          /\ req'[q].kind = req[q].kind /\ req'[q].docs = req[q].docs
      BY <1>7, <3>2, <3>3, GoTyped
    <3>5. q \in Active'
      BY <3>4 DEF Active, Counter!Active
    <3>6. Counter!Sum(req[q].docs)' = Counter!Sum(req[q].docs)
      BY <1>4, <3>4 DEF Counter!Sum
    <3>7. CASE req[q].kind = "create"
      BY <1>4, <1>8, <2>1, <2>2, <2>5, <3>4, <3>5, <3>7 DEF Accounted
    <3>8. CASE req[q].kind = "edit"
      BY <1>4, <1>8, <2>1, <2>2, <2>5, <3>4, <3>5, <3>8 DEF Accounted
    <3>9. CASE req[q].kind \in {"drop", "purge"}
      BY <1>4, <1>8, <2>1, <2>2, <2>5, <3>4, <3>5, <3>6, <3>9 DEF Accounted
    <3> QED  BY <1>7, <3>7, <3>8, <3>9 DEF Counter!Kinds
  <2> QED  BY <1>7, <2>4, <2>5
<1> QED  BY <1>1, <1>3, <1>5, <1>8, DeskBooks

\* Documents go that have been given back.
LEMMA DeleteBooks ==
  ASSUME WorldTyped, Asks, MadeOnce, WorkInv, BooksInv, NEW q \in Hands, Counter!Delete(q)
  PROVE  BooksInv'
<1>1. Counter!Serve(q)
  BY DEF Counter!Serve
<1>2. q \in Active /\ Asked(req[q]) /\ Turns(q)
  BY <1>1, DeskStep DEF Asks
<1>3. PICK paid \in [Docs -> Sized] : Charged(paid)
  BY DEF BooksInv
<1>4. /\ UNCHANGED counter /\ req[q].at = "delete"
      /\ size' = [d \in Docs |-> IF d \in req[q].docs THEN 0 ELSE size[d]]
  BY DEF Counter!Delete, Docs
<1>5. ASSUME NEW o \in Trusted, Settling(o) PROVE counter'[o] = Total(paid, DocsOf(o))
  BY <1>3, <1>4, <1>5 DEF Charged, Settling
<1>6. ASSUME NEW d \in req[q].docs, Payer(d) \in Trusted
      PROVE  IF q \in Active' /\ d \in req'[q].docs THEN Accounted(req[q], d, paid[d])' ELSE paid[d] = Due(d)'
  <2>1. Accounted(req[q], d, paid[d])
    BY <1>2, <1>3, <1>6 DEF Charged, Active
  <2>2. req[q].kind \in {"drop", "purge"}
    BY <1>2, <1>4 DEF Asked, Active, Counter!Active, Stages, Counter!Kinds
  <2>3. paid[d] = 0
    BY <1>4, <2>1, <2>2 DEF Accounted
  <2>4. d \in Docs
    BY <1>2, <1>6, RequestIs
  <2>5. Due(d)' = 0
    BY <1>4, <1>6, <2>4 DEF Due
  <2>6. ~(q \in Active' /\ d \in req'[q].docs)
    <3>1. CASE Counter!End(q)
      BY <3>1, EndTyped DEF Active, Counter!Active
    <3>2. CASE ~Counter!End(q)
      <4>1. /\ req' = [req EXCEPT ![q].at = "before", ![q].docs = Counter!TheirForm(req[q].docs)]
            /\ req[q].docs \cap Papers = {}
        BY <3>2 DEF Counter!Delete
      <4>2. req[q] = [kind |-> req[q].kind, docs |-> req[q].docs, bytes |-> req[q].bytes, who |-> req[q].who,
                      at |-> req[q].at] /\ req \in [Hands -> Wants]
        BY DEF WorldTyped, Counter!TypeOK, Wants, Docs
      <4>3. req'[q].docs = Counter!TheirForm(req[q].docs)
        <5>1. PICK r1 : r1 = [req[q] EXCEPT !.at = "before"]
          OBVIOUS
        <5>2. PICK r2 : r2 = [r1 EXCEPT !.docs = Counter!TheirForm(req[q].docs)]
          OBVIOUS
        <5>3. req' = [req EXCEPT ![q] = r2]
          BY <4>1, <4>2, <5>1, <5>2
        <5> QED  BY <4>2, <5>1, <5>2, <5>3 DEF Wants
      <4>4. req'[q].docs \subseteq Papers
        <5>1. \A e \in req[q].docs : FormFor(e) \in Papers
          BY <1>2, RequestIs
        <5> QED  BY <4>3, <5>1 DEF Counter!TheirForm, FormFor
      <4> QED  BY <1>6, <4>1, <4>4
    <3> QED  BY <3>1, <3>2
  <2> QED  BY <2>3, <2>5, <2>6
<1> QED  BY <1>1, <1>3, <1>5, <1>6, DeskBooks

\* The increment: what has been charged for is what the documents count for, and the counter follows.
LEMMA AdjustBooks ==
  ASSUME WorldTyped, Asks, MadeOnce, WorkInv, BooksInv, NEW q \in Hands, Counter!Adjust(q)
  PROVE  BooksInv'
<1>1. Counter!Serve(q)
  BY DEF Counter!Serve
<1>2. q \in Active /\ Asked(req[q])
  BY <1>1, DeskStep DEF Asks
<1>3. PICK paid \in [Docs -> Sized] : Charged(paid)
  BY DEF BooksInv
<1>4. /\ UNCHANGED size /\ req[q].at = "count"
      /\ counter' = [counter EXCEPT ![req[q].who] = @ + req[q].bytes]
  BY DEF Counter!Adjust
<1>5. req[q].docs # {} /\ req[q].docs \subseteq Docs /\ IsFiniteSet(req[q].docs)
      /\ \A d \in req[q].docs : Payer(d) = Counter!Owner(Form(q))
  BY <1>2, RequestIs, CounterAssumed, FS_Subset
<1>6. req[q].kind \in Counter!Kinds /\ req[q].bytes \in Int /\ counter \in [Accounts -> Int]
  BY <1>2 DEF Asked, Active, Counter!Active, WorldTyped, Counter!TypeOK
<1> DEFINE deleting == req[q].kind \in {"drop", "purge"}
<1>13. PICK new : new = [d \in Docs |-> IF d \in req[q].docs THEN IF deleting THEN 0 ELSE size[d] ELSE paid[d]]
  OBVIOUS
<1>7. new \in [Docs -> Sized] /\ (\A d \in Docs : d \notin req[q].docs => new[d] = paid[d])
      /\ \A d \in Docs : new[d] \in Nat /\ paid[d] \in Nat
  <2>1. \A d \in Docs : size[d] \in Sized
    BY SizesTyped
  <2>2. 0 \in Sized /\ Sized \subseteq Nat
    BY SizesTyped DEF Sized
  <2> QED  BY <1>3, <1>13, <2>1, <2>2
<1>8. ASSUME NEW d \in req[q].docs, Payer(d) \in Trusted
      PROVE  Accounted(req[q], d, paid[d]) /\ Counts(d) /\ Due(d) = size[d]
  <2>1. Accounted(req[q], d, paid[d])
    BY <1>2, <1>3, <1>8 DEF Charged, Active
  <2>2. Counts(d)
    BY <1>4, <1>6, <2>1 DEF Accounted, Counter!Kinds
  <2> QED  BY <2>1, <2>2 DEF Due
<1>9. \A d \in req[q].docs : {Payer(d), req[q].who} \cap Trusted # {} => Payer(d) = req[q].who
  BY <1>2, <1>4 DEF WorkInv, Works, Active
\* What the documents are charged for is what the counter moves by.
<1>10. ASSUME \A d \in req[q].docs : Payer(d) \in Trusted
       PROVE  Total(new, req[q].docs) - Total(paid, req[q].docs) = req[q].bytes
  <2>1. CASE deleting
    <3>1. \A d \in req[q].docs : paid[d] = size[d] /\ new[d] = 0
      BY <1>4, <1>5, <1>8, <1>10, <1>13, <2>1 DEF Accounted
    <3>2. Total(paid, req[q].docs) = Counter!Sum(req[q].docs)
      BY <3>1, TotalSame, SumIs
    <3>3. Total(new, req[q].docs) = 0
      <4>1. \A d \in req[q].docs : new[d] \in Nat
        BY <3>1
      <4> QED  BY <1>5, <3>1, <4>1, TotalNone
    <3>4. req[q].bytes = - Counter!Sum(req[q].docs)
      BY <1>4, <1>5, <1>8, <1>10, <2>1 DEF Accounted
    <3>5. Counter!Sum(req[q].docs) \in Nat
      BY <1>5, OwnersAre
    <3> QED  BY <3>2, <3>3, <3>4, <3>5
  <2>2. CASE req[q].kind \in {"create", "edit"}
    <3>1. PICK d \in Docs : req[q].docs = {d}
      BY <1>2, <2>2 DEF Asked, DocsFit, Active, Counter!Active
    <3>2. Total(new, {d}) = new[d] /\ Total(paid, {d}) = paid[d]
      <4> QED  BY <1>7, TotalOne
    <3>3. new[d] = size[d]
      BY <1>13, <2>2, <3>1
    <3>4. size[d] \in Nat /\ paid[d] \in Nat
      BY <1>7, SizesTyped
    <3>5. req[q].bytes = size[d] - paid[d]
      <4>1. Accounted(req[q], d, paid[d]) /\ Counts(d)
        BY <1>8, <1>10, <3>1
      <4> QED  BY <1>4, <2>2, <3>4, <4>1 DEF Accounted
    <3> QED  BY <3>1, <3>2, <3>3, <3>5
  <2> QED  BY <1>6, <2>1, <2>2 DEF Counter!Kinds
<1>11. ASSUME NEW o \in Trusted, Settling(o) PROVE counter'[o] = Total(new, DocsOf(o))
  <2>1. counter[o] = Total(paid, DocsOf(o)) /\ o \in Accounts
    BY <1>3, <1>11 DEF Charged, Settling, Trusted
  <2>2. IsFiniteSet(DocsOf(o)) /\ DocsOf(o) \subseteq Docs
    <3>1. DocsOf(o) \subseteq Docs
      BY DEF DocsOf
    <3> QED  BY <3>1, CounterAssumed, FS_Subset
  <2>3. CASE o = req[q].who
    <3>1. \A d \in req[q].docs : Payer(d) = o
      BY <1>9, <1>11, <2>3
    <3>2. req[q].docs \subseteq DocsOf(o)
      BY <1>5, <3>1 DEF DocsOf
    <3>3. /\ Total(paid, DocsOf(o)) \in Nat
          /\ Total(paid, req[q].docs) \in Nat /\ Total(new, req[q].docs) \in Nat
          /\ Total(new, DocsOf(o)) = Total(paid, DocsOf(o)) + Total(new, req[q].docs) - Total(paid, req[q].docs)
      <4> QED  BY <1>7, <2>2, <3>2, TotalChange
    <3>4. Total(new, req[q].docs) - Total(paid, req[q].docs) = req[q].bytes
      BY <1>10, <1>11, <3>1
    <3>5. counter'[o] = counter[o] + req[q].bytes
      BY <1>4, <1>6, <2>1, <2>3
    <3> QED  BY <2>1, <3>3, <3>4, <3>5
  <2>4. CASE o # req[q].who
    <3>1. \A d \in DocsOf(o) : d \notin req[q].docs
      BY <1>9, <1>11, <2>4 DEF DocsOf
    <3>2. Total(new, DocsOf(o)) = Total(paid, DocsOf(o))
      <4>1. \A d \in DocsOf(o) : new[d] = paid[d]
        BY <1>7, <2>2, <3>1
      <4> QED  BY <4>1, TotalSame
    <3>3. counter'[o] = counter[o]
      BY <1>4, <1>6, <2>1, <2>4
    <3> QED  BY <2>1, <3>2, <3>3
  <2> QED  BY <2>3, <2>4
<1>12. ASSUME NEW d \in req[q].docs, Payer(d) \in Trusted
       PROVE  IF q \in Active' /\ d \in req'[q].docs THEN Accounted(req[q], d, new[d])' ELSE new[d] = Due(d)'
  <2>1. Due(d)' = Due(d) /\ Due(d) = size[d] /\ d \in Docs
    BY <1>4, <1>5, <1>8, <1>12 DEF Due, Counts, FormFor, Counter!FormOfDoc
  <2>2. CASE deleting
    <3>1. Counter!Go(q, "delete", 0, Nobody)
      BY <2>2 DEF Counter!Adjust
    <3>2. req'[q].at = "delete" /\ req'[q].kind = req[q].kind /\ req'[q].docs = req[q].docs
      BY <3>1, GoTyped
    <3>3. q \in Active' /\ new[d] = 0
      BY <1>12, <1>13, <2>1, <2>2, <3>2 DEF Active, Counter!Active
    <3> QED  BY <1>12, <2>2, <3>2, <3>3 DEF Accounted
  <2>3. CASE ~deleting
    <3>1. Counter!End(q)
      BY <2>3 DEF Counter!Adjust
    <3>2. q \notin Active'
      BY <3>1, EndTyped DEF Active, Counter!Active
    <3>3. new[d] = size[d]
      BY <1>12, <1>13, <2>1, <2>3
    <3> QED  BY <2>1, <3>2, <3>3
  <2> QED  BY <2>2, <2>3
<1> QED  BY <1>1, <1>3, <1>7, <1>11, <1>12, DeskBooks

\* The instance counts what is here alike, and fewer documents take less room.
LEMMA LessRoom ==
  ASSUME NEW S, NEW T \in SUBSET S, IsFiniteSet(S)
  PROVE  /\ Cardinality(S) \in Nat /\ Cardinality(T) \in Nat
         /\ Least * Cardinality(T) <= Least * Cardinality(S)
<1>1. IsFiniteSet(T) /\ Cardinality(S) \in Nat /\ Cardinality(T) \in Nat /\ Cardinality(T) <= Cardinality(S)
  BY FS_Subset, FS_CardinalityType
<1>2. Least \in Nat
  BY CounterAssumed
<1>3. ASSUME NEW m \in Nat, NEW a \in Nat, NEW b \in Nat, a <= b PROVE m * a <= m * b
  <2>1. PICK c \in Nat : b = a + c
    <3>1. b - a \in Nat /\ b = a + (b - a)
      BY <1>3
    <3> QED  BY <3>1
  <2>2. m * b = m * a + m * c
    BY <2>1
  <2>3. m * c \in Nat /\ m * a \in Nat
    OBVIOUS
  <2> QED  BY <2>2, <2>3
<1> QED  BY <1>1, <1>2, <1>3

\* What is here is finite.
LEMMA HereFinite == \A o : IsFiniteSet(Here(o))
<1>1. \A o : Here(o) \subseteq Docs
  BY DEF Here, DocsOf
<1> QED  BY <1>1, CounterAssumed, FS_Subset

\* A request at work takes no room that it has not been let in for.
LEMMA DeskRoom ==
  ASSUME WorldTyped, Asks, MadeOnce, WorkInv, RoomInv, NEW q \in Hands, Counter!Serve(q)
  PROVE  RoomInv'
<1>1. q \in Active /\ UNCHANGED Apartments /\ Turns(q) /\ Sizing(q)
  BY DeskStep
<1>2. /\ \A d : Payer(d)' = Payer(d)
      /\ \A o : DocsOf(o)' = DocsOf(o)
      /\ Trusted' = Trusted /\ Counter!Measuring' = Counter!Measuring
      /\ Active' \subseteq Active /\ \A p \in Active : p # q => p \in Active'
  BY <1>1, DeskFrame
<1>3. \A p \in Active : p \in Hands /\ Asked(req[p]) /\ req[p].docs \subseteq Counter!Touches(p)
                        /\ req[p].docs \subseteq Docs
  BY RequestIs DEF Asks, Active, Counter!Active
<1>4. Docs' = Docs
  BY DEF Docs, Counter!Docs
<1>5. ASSUME NEW d \in Coming' PROVE d \in Coming /\ \E p \in Active : p # q /\ d \in req[p].docs
  <2>1. PICK p \in Active' : req'[p].kind = "create" /\ req'[p].at = "write" /\ d \in req'[p].docs
    BY <1>5 DEF Coming, Active
  <2>2. p # q
    BY <1>1, <2>1 DEF Turns
  <2>3. p \in Active /\ req'[p] = req[p]
    BY <1>1, <1>2, <1>3, <2>2 DEF Turns
  <2> QED  BY <2>1, <2>2, <2>3 DEF Coming, Active
<1>6. ASSUME NEW d \in Docs, size'[d] # 0 PROVE size[d] # 0 \/ d \in Coming
  <2>1. CASE size[d] = 0
    <3>1. req[q].kind = "create" /\ req[q].at = "write" /\ d \in req[q].docs
      BY <1>1, <1>6, <2>1 DEF Sizing
    <3> QED  BY <1>1, <3>1 DEF Coming, Active
  <2> QED  BY <2>1
<1>7. ASSUME NEW p \in Active, p # q, NEW d \in Docs, d \in req[p].docs, d \in Counter!Touches(q)
      PROVE  Payer(d) \notin Trusted
  <2>1. Counter!Owner(Form(p)) \notin Trusted
    BY <1>1, <1>3, <1>7, ApartMeans
  <2>2. FormFor(d) = Form(p)
    BY <1>3, <1>7, RequestIs
  <2> QED  BY <2>1, <2>2 DEF Payer
<1>8. ASSUME NEW d \in Docs, Payer(d) \in Trusted, size'[d] # 0 \/ d \in Coming', d \in Counter!Leaving
      PROVE  d \in Counter!Leaving'
  <2>1. PICK p \in Active : req[p].kind = "purge" /\ req[p].at = "delete" /\ d \in req[p].docs
    BY <1>8 DEF Counter!Leaving, Active
  <2>2. CASE p # q
    <3>1. p \in Active' /\ req'[p] = req[p]
      BY <1>1, <1>2, <1>3, <2>2 DEF Turns
    <3> QED  BY <2>1, <3>1 DEF Counter!Leaving, Active
  <2>3. CASE p = q
    <3>1. Counter!Delete(q)
      BY <2>1, <2>3 DEF Counter!Serve, Counter!Before, Counter!Write, Counter!After, Counter!Charge,
                        Counter!Adjust
    <3>2. size'[d] = 0
      BY <2>1, <2>3, <3>1 DEF Counter!Delete, Docs
    <3>3. d \in Counter!Touches(q)
      BY <1>3, <2>1, <2>3
    <3> QED  BY <1>5, <1>7, <1>8, <3>2, <3>3
  <2> QED  BY <2>2, <2>3
<1>9. ASSUME NEW o \in Trusted'
      PROVE  Least * Cardinality(Here(o)') <= Counter!Ceiling' + Least * Cardinality(Hands)
  <2>1. \A d \in DocsOf(o) : d \in Docs /\ Payer(d) = o
    BY DEF DocsOf
  <2>2. Here(o)' \subseteq Here(o)
    BY <1>2, <1>5, <1>6, <1>8, <1>9, <2>1 DEF Here
  <2>3. Counter!Ceiling' = Counter!Ceiling
    BY <1>1 DEF Counter!Ceiling, Apartments
  <2>4. /\ Cardinality(Here(o)) \in Nat /\ Cardinality(Here(o)') \in Nat
        /\ Least * Cardinality(Here(o)') <= Least * Cardinality(Here(o))
    BY <2>2, LessRoom, HereFinite
  <2>5. Least * Cardinality(Here(o)) <= Counter!Ceiling + Least * Cardinality(Hands)
    BY <1>2, <1>9 DEF RoomInv
  <2>6. /\ Least * Cardinality(Here(o)) \in Int /\ Least * Cardinality(Here(o)') \in Int
        /\ Least * Cardinality(Hands) \in Int
    BY <2>4, CounterAssumed, FS_CardinalityType
  <2>7. Counter!Ceiling \in Int
    BY DEF WorldTyped, Counter!SceneTypes, Counter!Ceiling
  <2> QED  BY <2>3, <2>4, <2>5, <2>6, <2>7
<1>10. ASSUME NEW d \in Docs, Payer(d) \in Trusted, size'[d] # 0 \/ d \in Coming' PROVE Counts(d)'
  <2>1. Counts(d)
    BY <1>5, <1>6, <1>10 DEF RoomInv
  <2>2. CASE d \in Papers
    BY <2>2 DEF Counts
  <2>3. CASE d \notin Papers
    <3> DEFINE f == FormFor(d)
    <3>1. f \in Papers /\ f \in Docs /\ FormFor(f) = f /\ d \in Papers \X Numbers
      BY <2>3, FormsFound, CounterAssumed
    <3>2. size[f] # 0
      BY <2>1, <2>3 DEF Counts
    <3>3. ASSUME size'[f] = 0 PROVE FALSE
      <4>1. f \in req[q].docs /\ req[q].kind \in {"drop", "purge"}
        BY <1>1, <3>1, <3>2, <3>3 DEF Sizing
      <4>2. req[q].kind = "purge"
        BY <1>1, <1>3, <3>1, <4>1, CounterAssumed DEF Asked, DocsFit, Active, Counter!Active
      <4>3. Form(q) = f
        BY <1>1, <1>3, <3>1, <4>1, RequestIs
      <4>4. d \in Counter!Touches(q) /\ d \in Counter!Answers({f})
        BY <1>1, <1>3, <3>1, <4>2, <4>3, RequestIs, FormsFound
      <4>5. Payer(f) = Payer(d)
        BY <3>1 DEF Payer
      <4>6. size[d] = 0
        BY <1>1, <1>10, <3>1, <4>1, <4>2, <4>4, <4>5 DEF WorkInv, Works, Active
      <4>7. size'[d] = 0
        BY <1>1, <4>2, <4>6 DEF Sizing
      <4> QED  BY <1>5, <1>7, <1>10, <4>4, <4>7
    <3> QED  BY <2>3, <3>3 DEF Counts, FormFor, Counter!FormOfDoc
  <2> QED  BY <2>2, <2>3
<1>11. \A o : Cardinality(Here(o))' = Cardinality(Here(o)')
  OBVIOUS
<1> QED  BY <1>2, <1>4, <1>9, <1>10 DEF RoomInv, Trusted

-----------------------------------------------------------------------------
(* A request arrives.                                                          *)

\* What fits one request is about one form.
LEMMA FitMeans ==
  ASSUME NEW r, DocsFit(r)
  PROVE  \E f \in Papers : /\ r.docs # {} /\ r.docs \subseteq Docs /\ \A d \in r.docs : FormFor(d) = f
                           /\ r.kind = "purge" => r.docs = {f} \/ r.docs = Counter!Answers({f})
<1>1. CASE r.kind = "purge"
  <2>1. PICK f \in Papers : r.docs = {f} \/ r.docs = Counter!Answers({f})
    BY <1>1 DEF DocsFit
  <2> QED  BY <2>1, FormsFound, CounterAssumed
<1>2. CASE r.kind # "purge"
  <2>1. PICK d \in Docs : r.docs = {d}
    BY <1>2 DEF DocsFit
  <2> QED  BY <1>2, <2>1, FormsFound
<1> QED  BY <1>1, <1>2

\* A request that arrives: what it is about, and what let it in.
Arriving(r) ==
  /\ r.kind \in Counter!Kinds /\ r.bytes = 0 /\ r.who = Nobody
  /\ r.at = IF r.kind = "create" THEN "write" ELSE "before"
  /\ DocsFit(r)
  /\ r.kind = "purge" => r.docs \cap Papers = {}
  /\ r.kind = "create" =>
       \A d \in r.docs : /\ d \notin used /\ Counts(d) /\ counter[Payer(d)] <= Counter!Ceiling
                         /\ d \notin Papers => FormFor(d) \in used

\* Every arrival is of this kind.
LEMMA ArriveMeans ==
  ASSUME WorldTyped, MadeOnce, NEW q \in Hands, Counter!Arrive(q)
  PROVE  \E r : r \in Wants /\ Arriving(r) /\ Counter!Begin(q, r.kind, r.docs, r.at)
                /\ r = [kind |-> r.kind, at |-> r.at, docs |-> r.docs, bytes |-> 0, who |-> Nobody]
<1> DEFINE Ask(kind, docs, at) == [kind |-> kind, at |-> at, docs |-> docs, bytes |-> 0, who |-> Nobody]
<1>1. scene.answers \subseteq Papers \X Numbers /\ scene.quota \in Nat /\ counter \in [Accounts -> Int]
  BY DEF WorldTyped, Counter!SceneTypes, Counter!TypeOK
<1>2. ASSUME NEW r \in scene.answers, Counter!Submit(q, r)
      PROVE  Ask("create", {r}, "write") \in Wants /\ Arriving(Ask("create", {r}, "write"))
  <2>1. r \in Docs /\ r \notin Papers /\ FormFor(r) \in Papers
    BY <1>1, <1>2, CounterAssumed, FormsFound
  <2>2. r \notin used /\ size[FormFor(r)] # 0 /\ counter[Payer(r)] <= Counter!Ceiling
    <3>1. FormFor(r) = [x \in Papers \X Numbers |-> x[1]][r]
      BY <2>1 DEF FormFor, Counter!FormOfDoc
    <3> QED  BY <1>2, <3>1 DEF Counter!Submit, Counter!AnswerAdmitted, Counter!Stored, Counter!Admitted, Payer
  <2>3. FormFor(r) \in used
    BY <2>1, <2>2, CounterAssumed DEF MadeOnce
  <2> QED  BY <2>1, <2>2, <2>3 DEF Wants, Arriving, Counter!Kinds, DocsFit, Counts
<1>3. ASSUME NEW f \in Papers, Counter!CreateForm(q, f)
      PROVE  Ask("create", {f}, "write") \in Wants /\ Arriving(Ask("create", {f}, "write"))
  <2>1. f \in Docs /\ FormFor(f) = f
    BY CounterAssumed, FormsFound
  <2>2. f \notin used /\ counter[Payer(f)] <= scene.quota /\ counter[Payer(f)] \in Int
    <3>1. Payer(f) \in Accounts
      BY <2>1, OwnersAre DEF Payer
    <3> QED  BY <1>1, <1>3, <2>1, <3>1 DEF Counter!CreateForm, Counter!FormAdmitted, Counter!Admitted, Payer
  <2>3. scene.quota <= Counter!Ceiling /\ Counter!Ceiling \in Int
    BY <1>1 DEF Counter!Ceiling
  <2>4. counter[Payer(f)] <= Counter!Ceiling
    BY <1>1, <2>2, <2>3
  <2> QED  BY <2>1, <2>2, <2>4 DEF Wants, Arriving, Counter!Kinds, DocsFit, Counts
<1>4. ASSUME NEW d \in Docs PROVE Ask("edit", {d}, "before") \in Wants /\ Arriving(Ask("edit", {d}, "before"))
  BY DEF Wants, Arriving, Counter!Kinds, DocsFit
<1>5. ASSUME NEW r \in scene.answers
      PROVE  Ask("drop", {r}, "before") \in Wants /\ Arriving(Ask("drop", {r}, "before"))
  <2>1. r \in Docs /\ r \in Papers \X Numbers
    BY <1>1, CounterAssumed
  <2> QED  BY <2>1 DEF Wants, Arriving, Counter!Kinds, DocsFit
<1>6. ASSUME NEW f \in Papers
      PROVE  LET r == Ask("purge", Counter!Answers({f}), "before") IN r \in Wants /\ Arriving(r)
  <2>1. Counter!Answers({f}) \subseteq Docs /\ Counter!Answers({f}) \cap Papers = {}
    BY CounterAssumed, FormsFound
  <2> QED  BY <2>1 DEF Wants, Arriving, Counter!Kinds, DocsFit
<1>7. CASE \E r \in scene.answers : Counter!Submit(q, r)
  <2>1. PICK r \in scene.answers : Counter!Submit(q, r)
    BY <1>7
  <2> WITNESS Ask("create", {r}, "write")
  <2> QED  BY <1>2, <2>1 DEF Counter!Submit
<1>8. CASE \E f \in Papers : Counter!CreateForm(q, f)
  <2>1. PICK f \in Papers : Counter!CreateForm(q, f)
    BY <1>8
  <2> WITNESS Ask("create", {f}, "write")
  <2> QED  BY <1>3, <2>1 DEF Counter!CreateForm
<1>9. CASE \E d \in scene.answers \cup Papers : Counter!Edit(q, d)
  <2>1. PICK d \in scene.answers \cup Papers : Counter!Edit(q, d)
    BY <1>9
  <2>2. d \in Docs
    BY <1>1, <2>1, CounterAssumed
  <2> WITNESS Ask("edit", {d}, "before")
  <2> QED  BY <1>4, <2>1, <2>2 DEF Counter!Edit
<1>10. CASE \E r \in scene.answers : Counter!PurgeResponse(q, r)
  <2>1. PICK r \in scene.answers : Counter!PurgeResponse(q, r)
    BY <1>10
  <2> WITNESS Ask("drop", {r}, "before")
  <2> QED  BY <1>5, <2>1 DEF Counter!PurgeResponse
<1>11. CASE \E f \in Papers : Counter!PurgeForm(q, f)
  <2>1. PICK f \in Papers : Counter!PurgeForm(q, f)
    BY <1>11
  <2> WITNESS Ask("purge", Counter!Answers({f}), "before")
  <2> QED  BY <1>6, <2>1 DEF Counter!PurgeForm
<1> QED  BY <1>7, <1>8, <1>9, <1>10, <1>11 DEF Counter!Arrive

\* What an arrival does.
Lets(q, r) == r \in Wants /\ Arriving(r) /\ Counter!Begin(q, r.kind, r.docs, r.at)
              /\ r = [kind |-> r.kind, at |-> r.at, docs |-> r.docs, bytes |-> 0, who |-> Nobody]

\* What an arrival does to the rest.
Arrived(q, r, f) ==
  /\ UNCHANGED <<scene, size, place, holder, counter, moves>>
  /\ req' = [req EXCEPT ![q] = r] /\ req' \in [Hands -> Wants] /\ req'[q] = r
  /\ \A p \in Hands : p # q => req'[p] = req[p]
  /\ q \notin Active /\ Active' = Active \cup {q}
  /\ used' = IF r.kind = "create" THEN used \cup r.docs ELSE used
  /\ crossed \subseteq crossed' /\ met \subseteq met' /\ crossed' \subseteq Accounts /\ met' \subseteq Accounts
  /\ Trusted' \subseteq Trusted
  /\ Counter!Measuring' = Counter!Measuring
  /\ \A t \in Meters : task'[t] = task[t] \/ (task'[t] = [task[t] EXCEPT !.alone = FALSE] /\ task[t].who \in met')
  /\ \A t \in Counter!Measuring : task[t].who = Counter!Owner(f) => task'[t].alone = FALSE
  /\ Counter!Touches(q)' = IF r.kind = "purge" THEN {d \in Docs : FormFor(d) = f} ELSE r.docs
  /\ Counter!Concerns(q)' = {Counter!Owner(f)}
  /\ \A p \in Active : Counter!Touches(p)' = Counter!Touches(p) /\ Counter!Concerns(p)' = Counter!Concerns(p)
  /\ \A p \in Active : Counter!Touches(p) \cap Counter!Touches(q)' # {} => Counter!Owner(f) \notin Trusted'

\* An arrival changes that and nothing else.
LEMMA ArriveFrame ==
  ASSUME WorldTyped, Asks, NEW q \in Hands, NEW r, Lets(q, r), NEW f \in Papers, \A d \in r.docs : FormFor(d) = f
  PROVE  Arrived(q, r, f)
<1> DEFINE owners == {Counter!Owner(Counter!FormOfDoc(d)) : d \in r.docs}
           reach == IF r.kind = "purge" THEN r.docs \cup {Counter!FormOfDoc(d) : d \in r.docs} ELSE r.docs
           hit == {t \in Counter!Measuring : task[t].who \in owners}
<1>1. /\ req[q].at = "done"
      /\ used' = IF r.kind = "create" THEN used \cup r.docs ELSE used
      /\ req' = [req EXCEPT ![q] = r]
      /\ crossed' = IF \E p \in Active : Counter!Touches(p) \cap reach # {} THEN crossed \cup owners ELSE crossed
      /\ met' = met \cup {task[t].who : t \in hit}
      /\ task' = [t \in Meters |-> IF t \in hit THEN [task[t] EXCEPT !.alone = FALSE] ELSE task[t]]
      /\ UNCHANGED <<scene, size, place, holder, counter, moves>>
  BY DEF Lets, Counter!Begin, Counter!world, Active
<1>2. req \in [Hands -> Wants]
  BY DEF WorldTyped, Counter!TypeOK, Wants, Docs
<1>3. req' \in [Hands -> Wants] /\ req'[q] = r /\ \A p \in Hands : p # q => req'[p] = req[p]
  BY <1>1, <1>2 DEF Lets
<1>4. r.at # "done"
  BY DEF Lets, Arriving
<1>5. q \notin Active /\ Active' = Active \cup {q}
  BY <1>1, <1>3, <1>4 DEF Active, Counter!Active
<1>6. r.docs # {} /\ r.docs \subseteq Docs
  <2>1. DocsFit(r)
    BY DEF Lets, Arriving
  <2> QED  BY <2>1, FitMeans
<1>7. owners = {Counter!Owner(f)}
  BY <1>6 DEF FormFor
<1>8. Counter!Owner(f) \in Accounts
  BY OwnersAre
<1>9. task \in [Meters -> [at : Meterings \cup {"off"}, who : Accounts \cup {Nobody}, stored : Int,
                          forms : SUBSET Papers, sum : Nat, alone : BOOLEAN]]
      /\ Counter!Measuring = {t \in Meters : task[t].at # "off"}
  BY DEF WorldTyped, Counter!Measuring
<1>10. \A t \in Meters : /\ task'[t].at = task[t].at /\ task'[t].who = task[t].who
                         /\ task'[t] = task[t] \/ (task'[t] = [task[t] EXCEPT !.alone = FALSE] /\ task[t].who \in met')
                         /\ t \in hit => task'[t].alone = FALSE
  <2> SUFFICES ASSUME NEW t \in Meters
               PROVE  /\ task'[t].at = task[t].at /\ task'[t].who = task[t].who
                      /\ task'[t] = task[t] \/ (task'[t] = [task[t] EXCEPT !.alone = FALSE] /\ task[t].who \in met')
                      /\ t \in hit => task'[t].alone = FALSE
    OBVIOUS
  <2>1. CASE t \in hit
    <3>1. task'[t] = [task[t] EXCEPT !.alone = FALSE] /\ task[t].who \in met'
      BY <1>1, <2>1
    <3> QED  BY <1>9, <2>1, <3>1
  <2>2. CASE t \notin hit
    <3>1. task'[t] = task[t]
      BY <1>1, <2>2
    <3> QED  BY <2>2, <3>1
  <2> QED  BY <2>1, <2>2
<1>11. Counter!Measuring' = Counter!Measuring
  BY <1>10 DEF Counter!Measuring
<1>12. \A t \in Counter!Measuring : task[t].who = Counter!Owner(f) => task'[t].alone = FALSE
  BY <1>7, <1>9, <1>10
<1>13. crossed \subseteq crossed' /\ met \subseteq met' /\ crossed' \subseteq Accounts /\ met' \subseteq Accounts
       /\ Trusted' \subseteq Trusted
  <2>1. crossed \subseteq Accounts /\ met \subseteq Accounts
    BY DEF WorldTyped, Counter!TypeOK
  <2>2. \A t \in hit : task[t].who \in Accounts
    BY DEF WorldTyped
  <2>3. crossed' \subseteq crossed \cup owners /\ crossed \subseteq crossed'
    BY <1>1
  <2> QED  BY <1>1, <1>7, <1>8, <2>1, <2>2, <2>3 DEF Trusted
<1>14. Counter!Touches(q)' = IF r.kind = "purge" THEN {d \in Docs : FormFor(d) = f} ELSE r.docs
  <2>1. CASE r.kind = "purge"
    <3>1. {Counter!FormOfDoc(e) : e \in r.docs} = {f}
      BY <1>6 DEF FormFor
    <3>2. Counter!Touches(q)' = UNION {{d} \cup Counter!Answers({d}) : d \in {f}}
      BY <1>3, <2>1, <3>1 DEF Counter!Touches, Counter!FormOfDoc, Counter!Answers
    <3>3. Counter!Touches(q)' = {f} \cup Counter!Answers({f})
      BY <3>2
    <3> QED  BY <2>1, <3>3, FormsFound, CounterAssumed
  <2>2. CASE r.kind # "purge"
    BY <1>3, <2>2 DEF Counter!Touches
  <2> QED  BY <2>1, <2>2
<1>15. Counter!Concerns(q)' = {Counter!Owner(f)}
  <2>1. req'[q].docs = r.docs /\ req'[q].who = Nobody
    BY <1>3 DEF Lets, Arriving
  <2>2. Counter!Concerns(q)' = owners \cup ({Nobody} \ {Nobody})
    BY <1>1, <2>1 DEF Counter!Concerns, Counter!Owner, Counter!FormOfDoc
  <2> QED  BY <1>7, <2>2
<1>16. ASSUME NEW p \in Active
       PROVE  Counter!Touches(p)' = Counter!Touches(p) /\ Counter!Concerns(p)' = Counter!Concerns(p)
  <2>1. req'[p] = req[p]
    BY <1>3, <1>5 DEF Active, Counter!Active
  <2>2. Counter!Touches(p)' = Counter!Touches(p)
    BY <2>1 DEF Counter!Touches, Counter!FormOfDoc, Counter!Answers
  <2>3. Counter!Concerns(p)' = Counter!Concerns(p)
    BY <1>1, <2>1 DEF Counter!Concerns, Counter!Owner, Counter!FormOfDoc
  <2> QED  BY <2>2, <2>3
<1>17. ASSUME NEW p \in Active, Counter!Touches(p) \cap Counter!Touches(q)' # {}
       PROVE  Counter!Owner(f) \notin Trusted'
  <2>1. reach = Counter!Touches(q)'
    <3>1. CASE r.kind = "purge"
      <4>1. r.docs = Counter!Answers({f})
        <5>1. PICK g \in Papers : r.docs = {g} \/ r.docs = Counter!Answers({g})
          BY <3>1 DEF Lets, Arriving, DocsFit
        <5>2. r.docs = Counter!Answers({g})
          BY <3>1, <5>1 DEF Lets, Arriving
        <5> QED  BY <1>6, <5>2, FormsFound
      <4>2. {Counter!FormOfDoc(e) : e \in r.docs} = {f}
        BY <1>6 DEF FormFor
      <4>3. reach = Counter!Answers({f}) \cup {f}
        BY <3>1, <4>1, <4>2
      <4>4. Counter!Answers({f}) \cup {f} = {d \in Docs : FormFor(d) = f}
        BY FormsFound, CounterAssumed
      <4> QED  BY <1>14, <3>1, <4>3, <4>4
    <3>2. CASE r.kind # "purge"
      BY <1>14, <3>2
    <3> QED  BY <3>1, <3>2
  <2>2. crossed' = crossed \cup owners
    BY <1>1, <1>17, <2>1
  <2> QED  BY <1>7, <2>2 DEF Trusted
<1> QED  BY <1>1, <1>3, <1>5, <1>10, <1>11, <1>12, <1>13, <1>14, <1>15, <1>16, <1>17 DEF Arrived

\* An arrival keeps the types, makes nothing twice, and disturbs the measurements it runs into.
LEMMA ArriveTyped ==
  ASSUME WorldTyped, Asks, MadeOnce, MeterInv, NEW q \in Hands, NEW r, Lets(q, r)
  PROVE  WorldTyped' /\ Asks' /\ MadeOnce' /\ MeterInv'
<1>1. DocsFit(r) /\ r \in Wants /\ Arriving(r)
  BY DEF Lets, Arriving
<1>2. PICK f \in Papers : r.docs # {} /\ r.docs \subseteq Docs /\ \A d \in r.docs : FormFor(d) = f
  BY <1>1, FitMeans
<1>3. /\ UNCHANGED <<scene, size, place, holder, counter, moves>>
      /\ req' \in [Hands -> Wants] /\ req'[q] = r
      /\ \A p \in Hands : p # q => req'[p] = req[p]
      /\ q \notin Active /\ Active' = Active \cup {q}
      /\ used' = IF r.kind = "create" THEN used \cup r.docs ELSE used
      /\ crossed' \subseteq Accounts /\ met' \subseteq Accounts /\ Trusted' \subseteq Trusted
      /\ Counter!Measuring' = Counter!Measuring
      /\ \A t \in Meters : task'[t] = task[t] \/ (task'[t] = [task[t] EXCEPT !.alone = FALSE] /\ task[t].who \in met')
      /\ \A t \in Counter!Measuring : task[t].who = Counter!Owner(f) => task'[t].alone = FALSE
      /\ Counter!Concerns(q)' = {Counter!Owner(f)}
      /\ \A p \in Active : Counter!Concerns(p)' = Counter!Concerns(p)
  <2>1. Arrived(q, r, f)
    BY <1>2, ArriveFrame
  <2> QED  BY <2>1 DEF Arrived
<1>4. task \in [Meters -> [at : Meterings \cup {"off"}, who : Accounts \cup {Nobody}, stored : Int,
                          forms : SUBSET Papers, sum : Nat, alone : BOOLEAN]]
  BY DEF WorldTyped
<1>5. ASSUME NEW t \in Meters
      PROVE  /\ task'[t] \in [at : Meterings \cup {"off"}, who : Accounts \cup {Nobody}, stored : Int,
                              forms : SUBSET Papers, sum : Nat, alone : BOOLEAN]
             /\ task'[t].at = task[t].at /\ task'[t].who = task[t].who /\ task'[t].stored = task[t].stored
             /\ task'[t].forms = task[t].forms /\ task'[t].sum = task[t].sum
             /\ task'[t].alone => task'[t] = task[t]
             /\ ~task'[t].alone => ~task[t].alone \/ task[t].who \in met'
  <2>1. CASE task'[t] = task[t]
    BY <1>4, <2>1
  <2>2. CASE task'[t] = [task[t] EXCEPT !.alone = FALSE] /\ task[t].who \in met'
    <3>1. PICK no \in BOOLEAN : no = FALSE
      OBVIOUS
    <3>2. task'[t] = [task[t] EXCEPT !.alone = no]
      BY <2>2, <3>1
    <3> QED  BY <1>4, <2>2, <3>1, <3>2
  <2> QED  BY <1>3, <2>1, <2>2
<1>6. WorldTyped'
  <2>1. used' \subseteq Docs
    BY <1>2, <1>3 DEF WorldTyped, Counter!TypeOK, Docs
  <2>2. Counter!TypeOK'
    BY <1>3, <2>1 DEF WorldTyped, Counter!TypeOK, Wants, Docs
  <2>3. task' \in [Meters -> [at : Meterings \cup {"off"}, who : Accounts \cup {Nobody}, stored : Int,
                          forms : SUBSET Papers, sum : Nat, alone : BOOLEAN]]
    <3>1. DOMAIN task' = Meters /\ task' = [t \in Meters |-> task'[t]]
      BY DEF Lets, Counter!Begin
    <3> QED  BY <1>5, <3>1
  <2>4. \A t \in Counter!Measuring' : task'[t].who \in Accounts
    <3>1. \A t \in Counter!Measuring : t \in Meters /\ task[t].who \in Accounts
      BY DEF WorldTyped, Counter!Measuring
    <3> QED  BY <1>3, <1>5, <3>1
  <2> QED  BY <1>3, <2>2, <2>3, <2>4 DEF WorldTyped
<1>7. Docs' = Docs /\ (\A d : FormFor(d)' = FormFor(d)) /\ Stages' = Stages /\ Counter!Kinds' = Counter!Kinds
      /\ \A p : DocsFit(p)' = DocsFit(p)
  BY DEF Docs, Counter!Docs, FormFor, Counter!FormOfDoc, Stages, Counter!Kinds, DocsFit, Counter!Answers
<1>8. r.kind = "create" => \A d \in r.docs : d \notin used /\ (d \notin Papers => f \in used)
  BY <1>1, <1>2 DEF Arriving
<1>9. used \subseteq used'
  BY <1>3
<1>10. ASSUME NEW p \in Hands, req[p].at # "done", req[p].kind = "create" PROVE req[p].docs \subseteq used
  BY <1>10 DEF Asks, Asked
<1>11. MadeOnce'
  <2>1. \A d \in Docs : size'[d] # 0 => d \in used'
    BY <1>3, <1>9 DEF MadeOnce
  <2>2. ASSUME NEW n \in Papers \X Numbers, n \in used' PROVE FormFor(n) \in used'
    <3>1. CASE n \in used
      BY <1>9, <3>1 DEF MadeOnce
    <3>2. CASE n \notin used
      <4>1. n \in r.docs /\ r.kind = "create"
        BY <1>3, <2>2, <3>2
      <4> QED  BY <1>2, <1>8, <1>9, <4>1, CounterAssumed
    <3> QED  BY <3>1, <3>2
  <2>3. ASSUME NEW p1 \in Hands, NEW p2 \in Hands, p1 # p2, req'[p1].at # "done", req'[p2].at # "done",
               req'[p1].kind = "create", req'[p2].kind = "create"
        PROVE  req'[p1].docs \cap req'[p2].docs = {}
    <3>1. CASE p1 = q
      BY <1>3, <1>8, <1>10, <2>3, <3>1
    <3>2. CASE p2 = q
      BY <1>3, <1>8, <1>10, <2>3, <3>2
    <3>3. CASE p1 # q /\ p2 # q
      BY <1>3, <2>3, <3>3 DEF MadeOnce
    <3> QED  BY <3>1, <3>2, <3>3
  <2> QED  BY <1>7, <2>1, <2>2, <2>3 DEF MadeOnce
<1>12. Asks'
  <2> SUFFICES ASSUME NEW p \in Hands PROVE Asked(req[p])'
    BY DEF Asks
  <2>1. CASE p # q
    <3>1. req'[p] = req[p] /\ Asked(req[p])
      BY <1>3, <2>1 DEF Asks
    <3>2. ASSUME req[p].at = "write", req[p].kind = "create", NEW d \in req[p].docs,
                 NEW n \in Papers \X Numbers, FormFor(n) = d
          PROVE  size'[d] = 0 /\ n \notin used'
      <4>1. size[d] = 0 /\ n \notin used
        BY <3>1, <3>2 DEF Asked
      <4>2. ASSUME n \in r.docs, r.kind = "create" PROVE FALSE
        <5>1. Counts(n) /\ n \notin Papers
          BY <1>1, <4>2, CounterAssumed DEF Arriving
        <5> QED  BY <3>2, <4>1, <5>1 DEF Counts
      <4> QED  BY <1>3, <4>1, <4>2
    <3>3. ASSUME req[p].at = "write", req[p].kind = "create", NEW d \in req[p].docs PROVE size'[d] = 0
      BY <1>3, <3>1, <3>3 DEF Asked
    <3> QED  BY <1>7, <1>9, <3>1, <3>2, <3>3 DEF Asked
  <2>2. CASE p = q
    <3>1. /\ r.kind \in Counter!Kinds /\ r.at = (IF r.kind = "create" THEN "write" ELSE "before") /\ r.who = Nobody
      BY <1>1 DEF Arriving
    <3>2. r.at \in Stages[r.kind] /\ r.at # "count"
      BY <3>1 DEF Counter!Kinds, Stages
    <3>3. ASSUME r.kind = "create", NEW d \in r.docs
          PROVE  d \in used' /\ size'[d] = 0 /\ \A n \in Papers \X Numbers : FormFor(n) = d => n \notin used'
      <4>1. d \notin used /\ d \in used' /\ d \in Docs
        BY <1>2, <1>3, <1>8, <3>3
      <4>2. size'[d] = 0
        BY <1>3, <4>1 DEF MadeOnce
      <4>3. ASSUME NEW n \in Papers \X Numbers, FormFor(n) = d PROVE n \notin used'
        <5>1. n \notin used
          BY <4>1, <4>3 DEF MadeOnce
        <5>2. n \notin r.docs
          <6>1. d \in Papers /\ n \notin Papers
            BY <4>3, CounterAssumed, FormsFound
          <6>2. PICK e \in Docs : r.docs = {e}
            BY <1>1, <3>3 DEF DocsFit
          <6> QED  BY <3>3, <6>1, <6>2
        <5> QED  BY <1>3, <5>1, <5>2
      <4> QED  BY <4>1, <4>2, <4>3
    <3> QED  BY <1>1, <1>3, <1>7, <2>2, <3>1, <3>2, <3>3 DEF Asked
  <2> QED  BY <2>1, <2>2
<1>13. MeterInv'
  <2> SUFFICES ASSUME NEW t \in Counter!Measuring PROVE Measured(t)'
    BY <1>3 DEF MeterInv
  <2>1. t \in Meters /\ Measured(t)
    BY DEF MeterInv, Counter!Measuring
  <2>2. CASE ~task'[t].alone
    <3>1. task'[t].who \notin Trusted'
      BY <1>3, <1>5, <2>1, <2>2 DEF Measured, Trusted
    <3> QED  BY <2>2, <3>1 DEF Measured
  <2>3. CASE task'[t].alone
    <3>1. task'[t] = task[t] /\ task[t].alone
      BY <1>5, <2>1, <2>3
    <3>2. PICK k : k = task[t]
      OBVIOUS
    <3>3. k.who # Counter!Owner(f)
      BY <1>3, <2>3, <3>2
    <3>4. Counter!Quiet(k.who)'
      BY <1>3, <2>1, <3>1, <3>2, <3>3 DEF Counter!Quiet, Measured, Active
    <3>5. \A u \in Counter!Measuring : u # t => task'[u].who # k.who
      <4>1. \A u \in Counter!Measuring : u \in Meters
        BY DEF Counter!Measuring
      <4> QED  BY <1>5, <2>1, <3>1, <3>2, <4>1 DEF Measured
    <3>6. /\ Standing(k.who)' = Standing(k.who)
          /\ Counter!Sum(Standing(k.who))' = Counter!Sum(Standing(k.who))
          /\ Counter!Usage(k.who)' = Counter!Usage(k.who)
      <4>1. Counter!FormsOf(k.who)' = Counter!FormsOf(k.who)
        BY <1>3 DEF Counter!FormsOf, Counter!Owner
      <4> QED  BY <1>3, <4>1, UsageStays
    <3> QED  BY <1>3, <2>1, <2>3, <3>1, <3>2, <3>4, <3>5, <3>6 DEF Measured
  <2> QED  BY <2>2, <2>3
<1> QED  BY <1>6, <1>11, <1>12, <1>13

\* An arrival that meets another request on one document costs the account its trust.
LEMMA ArriveWork ==
  ASSUME WorldTyped, Asks, WorkInv, NEW q \in Hands, NEW r, Lets(q, r)
  PROVE  WorkInv'
<1>1. DocsFit(r) /\ r \in Wants /\ Arriving(r)
  BY DEF Lets, Arriving
<1>2. PICK f \in Papers : r.docs # {} /\ r.docs \subseteq Docs /\ \A d \in r.docs : FormFor(d) = f
  BY <1>1, FitMeans
<1>3. Arrived(q, r, f)
  BY <1>2, ArriveFrame
<1>4. \A d : Payer(d)' = Payer(d)
  BY <1>3 DEF Arrived, Payer, FormFor, Counter!FormOfDoc, Counter!Owner
<1>5. \A p \in Active : p \in Hands /\ Asked(req[p]) /\ p # q /\ req'[p] = req[p]
  BY <1>3 DEF Asks, Active, Counter!Active, Arrived
<1>6. ASSUME NEW p \in Active, Counter!Touches(p) \cap Counter!Touches(q)' # {}
      PROVE  (\A d \in r.docs : Payer(d) \notin Trusted') /\ (\A d \in req[p].docs : Payer(d) \notin Trusted')
  <2>1. Counter!Owner(f) \notin Trusted'
    BY <1>3, <1>6 DEF Arrived
  <2>2. \A d \in r.docs : Payer(d) \notin Trusted'
    BY <1>2, <2>1 DEF Payer
  <2>3. PICK e : e \in Counter!Touches(p) /\ e \in Counter!Touches(q)'
    BY <1>6
  <2>4. FormFor(e) = f
    BY <1>2, <1>3, <2>3 DEF Arrived
  <2>5. \A d \in req[p].docs : FormFor(d) = f
    BY <1>5, <2>3, <2>4, RequestIs
  <2> QED  BY <2>1, <2>2, <2>5 DEF Payer
<1>7. ASSUME NEW p1 \in Active', NEW p2 \in Active', p1 # p2 PROVE Apart(p1, p2)'
  <2> SUFFICES ASSUME Counter!Touches(p1)' \cap Counter!Touches(p2)' # {}, NEW d \in req'[p2].docs
               PROVE  Payer(d)' \notin Trusted'
    BY DEF Apart
  <2>1. \A p \in Active : Counter!Touches(p)' = Counter!Touches(p)
    BY <1>3 DEF Arrived
  <2>2. CASE p1 = q
    <3>1. p2 \in Active
      BY <1>3, <1>7, <2>2 DEF Arrived
    <3> QED  BY <1>4, <1>5, <1>6, <2>1, <2>2, <3>1
  <2>3. CASE p2 = q
    <3>1. p1 \in Active /\ req'[q] = r
      BY <1>3, <1>7, <2>3 DEF Arrived
    <3> QED  BY <1>4, <1>6, <2>1, <2>3, <3>1
  <2>4. CASE p1 # q /\ p2 # q
    <3>1. p1 \in Active /\ p2 \in Active /\ Trusted' \subseteq Trusted
      BY <1>3, <2>4 DEF Arrived
    <3>2. Counter!Touches(p1) \cap Counter!Touches(p2) # {} /\ d \in req[p2].docs
      BY <1>5, <2>1, <3>1
    <3>3. Apart(p1, p2)
      BY <1>7, <3>1 DEF WorkInv, Works, Active
    <3> QED  BY <1>4, <3>1, <3>2, <3>3 DEF Apart
  <2> QED  BY <2>2, <2>3, <2>4
<1>8. ASSUME NEW p \in Active', NEW d \in req'[p].docs
      PROVE  /\ req'[p].kind = "purge" /\ d \in Papers /\ Payer(d)' \in Trusted' =>
                  \A n \in Counter!Answers({d})' : size'[n] = 0
             /\ req'[p].at = "count" /\ {Payer(d)', req'[p].who} \cap Trusted' # {} => Payer(d)' = req'[p].who
  <2>1. CASE p = q
    <3>1. req'[p] = r
      BY <1>3, <2>1 DEF Arrived
    <3> QED  BY <1>1, <1>8, <3>1 DEF Arriving
  <2>2. CASE p # q
    <3>1. p \in Active /\ Trusted' \subseteq Trusted /\ size' = size
      BY <1>3, <2>2 DEF Arrived
    <3>2. req'[p] = req[p] /\ Payer(d)' = Payer(d)
      BY <1>4, <1>5, <3>1
    <3>3. Counter!Answers({d})' = Counter!Answers({d})
      BY DEF Counter!Answers
    <3> QED  BY <1>8, <3>1, <3>2, <3>3 DEF WorkInv, Works, Active
  <2> QED  BY <2>1, <2>2
<1> QED  BY <1>7, <1>8 DEF WorkInv, Works, Active

\* An arrival finds its documents charged for what they count for.
LEMMA ArriveBooks ==
  ASSUME WorldTyped, Asks, MadeOnce, WorkInv, BooksInv, NEW q \in Hands, NEW r, Lets(q, r)
  PROVE  BooksInv'
<1>1. DocsFit(r) /\ r \in Wants /\ Arriving(r)
  BY DEF Lets, Arriving
<1>2. PICK f \in Papers : r.docs # {} /\ r.docs \subseteq Docs /\ \A d \in r.docs : FormFor(d) = f
  BY <1>1, FitMeans
<1>3. Arrived(q, r, f)
  BY <1>2, ArriveFrame
<1>4. PICK paid \in [Docs -> Sized] : Charged(paid)
  BY DEF BooksInv
<1>5. /\ \A d : Payer(d)' = Payer(d) /\ Due(d)' = Due(d) /\ (Counts(d)' <=> Counts(d))
      /\ \A o : DocsOf(o)' = DocsOf(o)
  BY <1>3 DEF Arrived, Payer, FormFor, Counter!FormOfDoc, Counter!Owner, Due, Counts, DocsOf, Docs, Counter!Docs
<1>6. \A p \in Active : p \in Hands /\ Asked(req[p]) /\ p # q /\ req'[p] = req[p] /\ p \in Active'
  BY <1>3 DEF Asks, Active, Counter!Active, Arrived
<1>7. Trusted' \subseteq Trusted /\ Counter!Measuring' = Counter!Measuring /\ req'[q] = r /\ counter' = counter
      /\ size' = size
      /\ Active' = Active \cup {q}
  BY <1>3 DEF Arrived
<1>8. Docs' = Docs /\ Sized' = Sized
  BY DEF Docs, Counter!Docs, Sized
<1>9. ASSUME NEW o \in Trusted', \A t \in Counter!Measuring' : task'[t].who # o
      PROVE  counter'[o] = Total(paid, DocsOf(o)')
  <2>1. \A t \in Counter!Measuring : task'[t].who = task[t].who
    <3>1. \A t \in Counter!Measuring : task'[t] = task[t] \/ task'[t] = [task[t] EXCEPT !.alone = FALSE]
      BY <1>3 DEF Arrived, Counter!Measuring
    <3>2. \A t \in Counter!Measuring : task[t] \in [at : Meterings \cup {"off"}, who : Accounts \cup {Nobody},
                                          stored : Int, forms : SUBSET Papers, sum : Nat, alone : BOOLEAN]
      BY DEF WorldTyped, Counter!Measuring
    <3>3. PICK no \in BOOLEAN : no = FALSE
      OBVIOUS
    <3> QED  BY <3>1, <3>2, <3>3
  <2> QED  BY <1>4, <1>5, <1>7, <1>9, <2>1 DEF Charged
<1>10. ASSUME NEW d \in Docs, Payer(d) \in Trusted', ~InWork(d)' PROVE paid[d] = Due(d)
  <2>1. ~InWork(d)
    BY <1>6, <1>10 DEF InWork, Active
  <2> QED  BY <1>4, <1>7, <1>10, <2>1 DEF Charged
<1>11. ASSUME NEW d \in r.docs, Payer(d) \in Trusted' PROVE Accounted(r, d, paid[d])'
  <2>1. d \in Docs /\ d \in Counter!Touches(q)' /\ Payer(d) = Counter!Owner(f)
    BY <1>2, <1>3 DEF Arrived, Payer
  <2>2. ~InWork(d)
    <3> SUFFICES ASSUME NEW p \in Active, d \in req[p].docs PROVE FALSE
      BY DEF InWork, Active
    <3>1. d \in Counter!Touches(p)
      BY <1>6, RequestIs
    <3> QED  BY <1>3, <1>11, <2>1, <3>1 DEF Arrived
  <2>3. paid[d] = Due(d)
    BY <1>4, <1>7, <1>11, <2>1, <2>2 DEF Charged
  <2>4. PICK n : n = paid[d]
    OBVIOUS
  <2>5. CASE r.kind = "create"
    <3>1. r.at = "write" /\ r.bytes = 0 /\ d \notin used
      BY <1>1, <2>5 DEF Arriving
    <3>2. size[d] = 0
      BY <2>1, <3>1 DEF MadeOnce
    <3>3. n = 0 /\ size'[d] = 0
      BY <1>7, <2>3, <2>4, <3>2 DEF Due
    <3> QED  BY <2>4, <2>5, <3>1, <3>3 DEF Accounted
  <2>6. CASE r.kind # "create"
    <3>1. r.at = "before"
      BY <1>1, <2>6 DEF Arriving
    <3>2. n = Due(d)'
      BY <1>5, <2>3, <2>4
    <3> QED  BY <2>4, <2>6, <3>1, <3>2 DEF Accounted
  <2> QED  BY <2>5, <2>6
<1>12. ASSUME NEW p \in Active', NEW d \in req'[p].docs, Payer(d) \in Trusted'
       PROVE  Accounted(req[p], d, paid[d])'
  <2>1. CASE p = q
    BY <1>7, <1>11, <1>12, <2>1 DEF Accounted
  <2>2. CASE p # q
    <3>1. p \in Active /\ req'[p] = req[p]
      BY <1>6, <1>7, <2>2
    <3>2. PICK k : k = req[p]
      OBVIOUS
    <3>3. Accounted(k, d, paid[d])
      BY <1>4, <1>7, <1>12, <3>1, <3>2 DEF Charged, Active
    <3>4. Counter!Sum(k.docs)' = Counter!Sum(k.docs)
      BY <1>7 DEF Counter!Sum
    <3>5. Accounted(k, d, paid[d])'
      <4>1. size'[d] = size[d]
        BY <1>7
      <4> QED  BY <1>5, <3>3, <3>4, <4>1, AccountedStays
    <3> QED  BY <3>1, <3>2, <3>5 DEF Accounted
  <2> QED  BY <2>1, <2>2
<1>13. Charged(paid)'
  BY <1>5, <1>8, <1>9, <1>10, <1>12 DEF Charged, Active
<1> QED  BY <1>4, <1>8, <1>13 DEF BooksInv

\* However many were let in on a stale reading: what is here has been paid for, under the ceiling,
\* or a request of its own is at work on it.
LEMMA RoomLeft ==
  ASSUME WorldTyped, Asks, WorkInv, RoomInv, NEW paid \in [Docs -> Sized], Charged(paid),
         NEW o \in Trusted, counter[o] <= Counter!Ceiling, NEW q \in Hands, q \notin Active
  PROVE  /\ Cardinality(Here(o)) \in Nat
         /\ Least * (Cardinality(Here(o)) + 1) <= Counter!Ceiling + Least * Cardinality(Hands)
<1> DEFINE P == {d \in Here(o) : paid[d] # 0}
           U == {d \in Here(o) : paid[d] = 0}
           g == [d \in U |-> CHOOSE p \in Active : req[p].docs = {d}]
<1>1. \A p \in Active : p \in Hands /\ Asked(req[p]) /\ p # q
  BY DEF Asks, Active, Counter!Active
<1>2. \A d \in Here(o) : d \in Docs /\ Payer(d) = o /\ d \in DocsOf(o)
  BY DEF Here, DocsOf
<1>3. ASSUME NEW d \in U PROVE \E p \in Active : req[p].docs = {d}
  <2>1. d \in Docs /\ Payer(d) = o /\ (size[d] # 0 \/ d \in Coming) /\ d \notin Counter!Leaving
    BY DEF Here, DocsOf
  <2>2. Counts(d)
    BY <2>1 DEF RoomInv
  <2>3. Due(d) = size[d]
    BY <2>2 DEF Due
  <2>4. CASE d \in Coming
    <3>1. PICK p \in Active : d \in req[p].docs /\ req[p].kind = "create"
      BY <2>4 DEF Coming, Active
    <3>2. req[p].docs = {d}
      BY <1>1, <3>1, RequestIs
    <3> QED  BY <3>2
  <2>5. CASE d \notin Coming
    <3>1. size[d] # 0
      BY <2>1, <2>5
    <3>2. InWork(d)
      BY <2>1, <2>3, <3>1 DEF Charged
    <3>3. PICK p \in Active : d \in req[p].docs
      BY <3>2 DEF InWork, Active
    <3>4. Accounted(req[p], d, paid[d]) /\ req[p].kind \in Counter!Kinds /\ req[p].at \in Stages[req[p].kind]
      BY <2>1, <3>3 DEF Charged, Asks, Asked, Active, Counter!Active
    <3>5. req[p].kind # "purge"
      <4> SUFFICES ASSUME req[p].kind = "purge" PROVE FALSE
        OBVIOUS
      <4>1. req[p].at \in {"before", "owner", "count", "delete"}
        BY <3>4 DEF Stages
      <4>2. req[p].at = "delete"
        BY <2>3, <3>1, <3>4, <4>1 DEF Accounted
      <4> QED  BY <2>1, <3>3, <4>2 DEF Counter!Leaving, Active
    <3>6. req[p].docs = {d}
      BY <1>1, <3>3, <3>5, RequestIs
    <3> QED  BY <3>6
  <2> QED  BY <2>4, <2>5
<1>4. IsFiniteSet(DocsOf(o)) /\ IsFiniteSet(Here(o)) /\ IsFiniteSet(Hands) /\ Least \in Nat
  <2>1. DocsOf(o) \subseteq Docs
    BY DEF DocsOf
  <2> QED  BY <2>1, HereFinite, CounterAssumed, FS_Subset
<1>5. Cardinality(P) \in Nat /\ Least * Cardinality(P) <= Counter!Ceiling
  <2>1. counter[o] = Total(paid, DocsOf(o))
    BY DEF Charged, RoomInv
  <2>2. \A d \in DocsOf(o) : paid[d] \in Nat /\ paid[d] \in Sized
    BY SizesTyped DEF DocsOf
  <2>3. \A d \in P : paid[d] >= Least
    BY <1>2, <2>2, CounterAssumed DEF Sized
  <2>4. P \in SUBSET DocsOf(o)
    BY <1>2
  <2>5. Cardinality(P) \in Nat /\ Least * Cardinality(P) <= Total(paid, DocsOf(o))
    <3> HIDE DEF P
    <3> QED  BY <1>4, <2>2, <2>3, <2>4, TotalLeast
  <2>6. Total(paid, DocsOf(o)) \in Nat
    BY <1>4, <2>2, TotalType
  <2>7. Counter!Ceiling \in Int
    BY DEF WorldTyped, Counter!SceneTypes, Counter!Ceiling
  <2>8. Least * Cardinality(P) \in Int
    BY <1>4, <2>5
  <2> HIDE DEF P
  <2> QED  BY <2>1, <2>5, <2>6, <2>7, <2>8
<1>6. IsFiniteSet(U) /\ Cardinality(U) \in Nat /\ Cardinality(U) <= Cardinality(Hands) - 1
  <2>1. g \in Injection(U, Hands \ {q})
    <3>1. \A d \in U : g[d] \in Hands \ {q} /\ req[g[d]].docs = {d}
      BY <1>1, <1>3
    <3>2. g \in [U -> Hands \ {q}]
      <4>1. g = [d \in U |-> g[d]]
        OBVIOUS
      <4> HIDE DEF g, U
      <4> QED  BY <3>1, <4>1
    <3>3. \A d, e \in U : g[d] = g[e] => d = e
      <4> HIDE DEF g, U
      <4> QED  BY <3>1
    <3> HIDE DEF g, U
    <3> QED  BY <3>2, <3>3 DEF Injection, IsInjective
  <2>2. IsFiniteSet(Hands \ {q}) /\ Cardinality(Hands \ {q}) = Cardinality(Hands) - 1
    BY <1>4, FS_RemoveElement
  <2>3. IsFiniteSet(U) /\ Cardinality(U) <= Cardinality(Hands \ {q})
    <3> HIDE DEF g, U
    <3> QED  BY <2>1, <2>2, FS_Injection
  <2>4. Cardinality(U) \in Nat
    BY <2>3, FS_CardinalityType
  <2> HIDE DEF g, U
  <2> QED  BY <2>2, <2>3, <2>4
<1>7. IsFiniteSet(P)
  BY <1>4, FS_Subset
<1>8. Cardinality(Here(o)) = Cardinality(P) + Cardinality(U)
  <2>1. P \cup U = Here(o) /\ P \cap U = {}
    OBVIOUS
  <2>2. Cardinality(P \cup U) = Cardinality(P) + Cardinality(U) - Cardinality({})
    <3> HIDE DEF P, U
    <3> QED  BY <1>6, <1>7, <2>1, FS_Union
  <2>3. Cardinality({}) = 0
    BY FS_EmptySet
  <2>4. Cardinality(P) \in Nat /\ Cardinality(U) \in Nat
    BY <1>5, <1>6
  <2>5. Cardinality(P) + Cardinality(U) - 0 = Cardinality(P) + Cardinality(U)
    <3> HIDE DEF P, U
    <3> QED  BY <2>4
  <2>6. Cardinality(P \cup U) = Cardinality(P) + Cardinality(U)
    <3> HIDE DEF P, U
    <3> QED  BY <2>2, <2>3, <2>5
  <2> HIDE DEF P, U
  <2> QED  BY <2>1, <2>6
<1> DEFINE cp == Cardinality(P)
           cu == Cardinality(U)
           ch == Cardinality(Hands)
<1>9. ch \in Nat /\ cp \in Nat /\ cu \in Nat /\ cu + 1 <= ch
  <2>1. ch \in Nat
    BY <1>4, FS_CardinalityType
  <2> HIDE DEF P, U
  <2> QED  BY <1>5, <1>6, <2>1
<1>10. Least * (cu + 1) <= Least * ch
  <2> HIDE DEF cp, cu, ch
  <2>1. PICK c \in Nat : ch = (cu + 1) + c
    <3>1. ch - (cu + 1) \in Nat /\ ch = (cu + 1) + (ch - (cu + 1))
      BY <1>9
    <3> QED  BY <3>1
  <2>2. Least * ch = Least * (cu + 1) + Least * c
    BY <1>4, <1>9, <2>1
  <2>3. Least * c \in Nat /\ Least * (cu + 1) \in Nat
    BY <1>4, <1>9, <2>1
  <2> QED  BY <2>2, <2>3
<1>11. Least * (cp + cu + 1) = Least * cp + Least * (cu + 1)
  <2> HIDE DEF cp, cu, ch
  <2> QED  BY <1>4, <1>9
<1>12. Counter!Ceiling \in Int /\ Least * cp \in Int /\ Least * (cu + 1) \in Int /\ Least * ch \in Int
  <2>1. Counter!Ceiling \in Int
    BY DEF WorldTyped, Counter!SceneTypes, Counter!Ceiling
  <2> HIDE DEF cp, cu, ch
  <2> QED  BY <1>4, <1>9, <2>1
<1>13. Least * cp <= Counter!Ceiling
  BY <1>5
<1>14. Cardinality(Here(o)) = cp + cu
  BY <1>8
<1> HIDE DEF cp, cu
<1> QED  BY <1>9, <1>10, <1>11, <1>12, <1>13, <1>14

\* An arrival that is let in finds room.
LEMMA ArriveRoom ==
  ASSUME WorldTyped, Asks, MadeOnce, WorkInv, BooksInv, RoomInv, NEW q \in Hands, NEW r, Lets(q, r)
  PROVE  RoomInv'
<1>1. DocsFit(r) /\ r \in Wants /\ Arriving(r)
  BY DEF Lets, Arriving
<1>2. PICK f \in Papers : r.docs # {} /\ r.docs \subseteq Docs /\ \A d \in r.docs : FormFor(d) = f
  BY <1>1, FitMeans
<1>3. Arrived(q, r, f)
  BY <1>2, ArriveFrame
<1>4. PICK paid \in [Docs -> Sized] : Charged(paid)
  BY DEF BooksInv
<1>5. /\ \A d : Payer(d)' = Payer(d) /\ (Counts(d)' <=> Counts(d))
      /\ \A o : DocsOf(o)' = DocsOf(o)
  BY <1>3 DEF Arrived, Payer, FormFor, Counter!FormOfDoc, Counter!Owner, Counts, DocsOf, Docs, Counter!Docs
<1>6. \A p \in Active : p \in Hands /\ req'[p] = req[p] /\ p \in Active'
  BY <1>3 DEF Active, Counter!Active, Arrived
<1>7. /\ Trusted' \subseteq Trusted /\ Counter!Measuring' = {} /\ req'[q] = r /\ size' = size
      /\ Active' = Active \cup {q} /\ q \notin Active /\ Counter!Ceiling' = Counter!Ceiling /\ Docs' = Docs
  BY <1>3 DEF Arrived, RoomInv, Counter!Ceiling, Docs, Counter!Docs
<1>8. Counter!Leaving \subseteq Counter!Leaving'
  BY <1>6 DEF Counter!Leaving, Active
<1>9. ASSUME NEW d \in Coming', d \notin Coming PROVE r.kind = "create" /\ r.docs = {d}
  <2>1. PICK p \in Active' : req'[p].kind = "create" /\ req'[p].at = "write" /\ d \in req'[p].docs
    BY <1>9 DEF Coming, Active
  <2>2. p = q
    <3> SUFFICES ASSUME p # q PROVE FALSE
      OBVIOUS
    <3>1. p \in Active /\ req'[p] = req[p]
      BY <1>6, <1>7
    <3> QED  BY <1>9, <2>1, <3>1 DEF Coming, Active
  <2>3. r.kind = "create" /\ d \in r.docs
    BY <1>7, <2>1, <2>2
  <2>4. PICK e \in Docs : r.docs = {e}
    BY <1>1, <2>3 DEF DocsFit
  <2> QED  BY <2>3, <2>4
<1>10. ASSUME NEW o \in Trusted'
       PROVE  Least * Cardinality(Here(o)') <= Counter!Ceiling + Least * Cardinality(Hands)
  <2>1. o \in Trusted /\ Least * Cardinality(Here(o)) <= Counter!Ceiling + Least * Cardinality(Hands)
    BY <1>7, <1>10 DEF RoomInv
  <2>2. Least \in Nat /\ Cardinality(Hands) \in Nat /\ Cardinality(Here(o)) \in Nat /\ Counter!Ceiling \in Int
    <3>1. Counter!Ceiling \in Int
      BY DEF WorldTyped, Counter!SceneTypes, Counter!Ceiling
    <3> QED  BY <3>1, HereFinite, CounterAssumed, FS_CardinalityType
  <2>3. CASE Here(o)' \subseteq Here(o)
    <3>1. /\ Cardinality(Here(o)') \in Nat
          /\ Least * Cardinality(Here(o)') <= Least * Cardinality(Here(o))
      BY <2>3, LessRoom, HereFinite
    <3>2. Least * Cardinality(Here(o)') \in Int /\ Least * Cardinality(Here(o)) \in Int
          /\ Least * Cardinality(Hands) \in Int
      BY <2>2, <3>1
    <3> QED  BY <2>1, <2>2, <3>1, <3>2
  <2>4. CASE ~(Here(o)' \subseteq Here(o))
    <3>1. PICK d \in Here(o)' : d \notin Here(o)
      BY <2>4
    <3>2. d \in Coming' /\ d \notin Coming /\ d \in DocsOf(o)
      BY <1>5, <1>7, <1>8, <3>1 DEF Here
    <3>3. r.kind = "create" /\ r.docs = {d}
      BY <1>9, <3>2
    <3>4. counter[o] <= Counter!Ceiling
      BY <1>1, <3>2, <3>3 DEF Arriving, DocsOf
    <3>5. Here(o)' \subseteq Here(o) \cup {d}
      BY <1>5, <1>7, <1>8, <1>9, <3>3 DEF Here
    <3>6. Least * (Cardinality(Here(o)) + 1) <= Counter!Ceiling + Least * Cardinality(Hands)
      BY <1>3, <1>4, <2>1, <3>4, RoomLeft DEF Arrived
    <3>7. IsFiniteSet(Here(o) \cup {d}) /\ Cardinality(Here(o) \cup {d}) = Cardinality(Here(o)) + 1
      BY <3>1, HereFinite, FS_AddElement
    <3>8. /\ Cardinality(Here(o)') \in Nat
          /\ Least * Cardinality(Here(o)') <= Least * Cardinality(Here(o) \cup {d})
      BY <3>5, <3>7, LessRoom
    <3>9. Least * Cardinality(Here(o)') \in Int /\ Least * (Cardinality(Here(o)) + 1) \in Int
          /\ Least * Cardinality(Hands) \in Int
      BY <2>2, <3>8
    <3> QED  BY <2>2, <3>6, <3>7, <3>8, <3>9
  <2> QED  BY <2>3, <2>4
<1>11. ASSUME NEW d \in Docs, Payer(d) \in Trusted', size'[d] # 0 \/ d \in Coming' PROVE Counts(d)
  <2>1. CASE size[d] # 0 \/ d \in Coming
    BY <1>7, <1>11, <2>1 DEF RoomInv
  <2>2. CASE ~(size[d] # 0 \/ d \in Coming)
    <3>1. r.kind = "create" /\ r.docs = {d}
      BY <1>7, <1>9, <1>11, <2>2
    <3> QED  BY <1>1, <3>1 DEF Arriving
  <2> QED  BY <2>1, <2>2
<1> QED  BY <1>5, <1>7, <1>10, <1>11 DEF RoomInv

-----------------------------------------------------------------------------
(* A request ends in the middle, or an account is measured.                    *)

Tasked == [at : Meterings \cup {"off"}, who : Accounts \cup {Nobody}, stored : Int,
           forms : SUBSET Papers, sum : Nat, alone : BOOLEAN]

\* A crash costs the account its trust, and no more.
LEMMA CrashTyped ==
  ASSUME WorldTyped, Asks, MadeOnce, MeterInv, NEW q \in Hands, Counter!Crash(q)
  PROVE  /\ WorldTyped' /\ Asks' /\ MadeOnce' /\ MeterInv'
         /\ q \in Active /\ Active' = Active \ {q} /\ \A p \in Hands : p # q => req'[p] = req[p]
         /\ UNCHANGED <<scene, size, place, holder, counter, task, met, used, moves>>
         /\ Trusted' = Trusted \ Counter!Concerns(q)
<1>1. /\ req[q].at # "done" /\ Counter!End(q) /\ crossed' = crossed \cup Counter!Concerns(q)
      /\ UNCHANGED <<scene, size, place, holder, counter, task, met, used, moves>>
  BY DEF Counter!Crash, Counter!world
<1>2. /\ req' \in [Hands -> Wants] /\ req'[q] = Counter!NoRequest /\ req'[q].at = "done"
      /\ \A p \in Hands : p # q => req'[p] = req[p]
  BY <1>1, EndTyped
<1>3. q \in Active /\ Active' = Active \ {q}
  BY <1>1, <1>2 DEF Active, Counter!Active
<1>4. Counter!Concerns(q) \subseteq Accounts
  <2>1. Counter!Concerns(q) = {Counter!Owner(Form(q))} \cup ({req[q].who} \ {Nobody}) /\ Form(q) \in Papers
    BY <1>3, RequestIs DEF Asks
  <2>2. req[q].who \in Accounts \cup {Nobody}
    BY DEF WorldTyped, Counter!TypeOK
  <2> QED  BY <2>1, <2>2, OwnersAre
<1>5. Trusted' = Trusted \ Counter!Concerns(q)
  BY <1>1 DEF Trusted
<1>6. WorldTyped'
  <2>1. Counter!TypeOK'
    BY <1>1, <1>2, <1>4 DEF WorldTyped, Counter!TypeOK, Wants, Docs
  <2> QED  BY <1>1, <2>1 DEF WorldTyped, Counter!Measuring
<1>7. Docs' = Docs /\ (\A d : FormFor(d)' = FormFor(d)) /\ Stages' = Stages /\ Counter!Kinds' = Counter!Kinds
      /\ \A p : DocsFit(p)' = DocsFit(p)
  BY DEF Docs, Counter!Docs, FormFor, Counter!FormOfDoc, Stages, Counter!Kinds, DocsFit, Counter!Answers
<1>8. Asks'
  <2> SUFFICES ASSUME NEW p \in Hands PROVE Asked(req[p])'
    BY DEF Asks
  <2>1. CASE p = q
    BY <1>2, <2>1 DEF Asked
  <2>2. CASE p # q
    <3>1. req'[p] = req[p] /\ Asked(req[p])
      BY <1>2, <2>2 DEF Asks
    <3> QED  BY <1>1, <1>7, <3>1 DEF Asked
  <2> QED  BY <2>1, <2>2
<1>9. MadeOnce'
  <2>1. ASSUME NEW p1 \in Hands, NEW p2 \in Hands, p1 # p2, req'[p1].at # "done", req'[p2].at # "done",
               req'[p1].kind = "create", req'[p2].kind = "create"
        PROVE  req'[p1].docs \cap req'[p2].docs = {}
    BY <1>2, <2>1 DEF MadeOnce
  <2> QED  BY <1>1, <1>7, <2>1 DEF MadeOnce
<1>10. MeterInv'
  <2>1. Counter!Measuring' = Counter!Measuring
    BY <1>1 DEF Counter!Measuring
  <2> SUFFICES ASSUME NEW t \in Counter!Measuring PROVE Measured(t)'
    BY <2>1 DEF MeterInv
  <2>2. PICK k : k = task[t]
    OBVIOUS
  <2>3. Measured(t)
    BY DEF MeterInv
  <2>4. k.alone => Counter!Quiet(k.who)'
    <3>1. \A p \in Active' : Counter!Concerns(p)' = Counter!Concerns(p)
      <4> SUFFICES ASSUME NEW p \in Active' PROVE Counter!Concerns(p)' = Counter!Concerns(p)
        OBVIOUS
      <4>1. req'[p] = req[p]
        BY <1>2, <1>3 DEF Active, Counter!Active
      <4> QED  BY <1>1, <4>1 DEF Counter!Concerns, Counter!Owner, Counter!FormOfDoc
    <3> QED  BY <1>3, <2>2, <2>3, <3>1 DEF Counter!Quiet, Measured, Active
  <2>5. /\ Standing(k.who)' = Standing(k.who)
        /\ Counter!Sum(Standing(k.who))' = Counter!Sum(Standing(k.who))
        /\ Counter!Usage(k.who)' = Counter!Usage(k.who)
    <3>1. Counter!FormsOf(k.who)' = Counter!FormsOf(k.who)
      BY <1>1 DEF Counter!FormsOf, Counter!Owner
    <3> QED  BY <1>1, <3>1, UsageStays
  <2> QED  BY <1>1, <1>5, <2>1, <2>2, <2>3, <2>4, <2>5 DEF Measured
<1> QED  BY <1>1, <1>2, <1>3, <1>5, <1>6, <1>8, <1>9, <1>10

\* What a smaller trust still asks of requests that go on as they were.
LEMMA FewerTrusted ==
  ASSUME UNCHANGED <<size, place, holder>>, Trusted' \subseteq Trusted, Active' \subseteq Active,
         \A p \in Active' : req'[p] = req[p], WorkInv
  PROVE  WorkInv'
<1>1. \A d : Payer(d)' = Payer(d) /\ Counter!Answers({d})' = Counter!Answers({d})
  BY DEF Payer, FormFor, Counter!FormOfDoc, Counter!Owner, Counter!Answers
<1>2. \A p \in Active' : Counter!Touches(p)' = Counter!Touches(p)
  BY DEF Counter!Touches, Counter!FormOfDoc, Counter!Answers
<1>3. ASSUME NEW p1 \in Active', NEW p2 \in Active', p1 # p2 PROVE Apart(p1, p2)'
  <2>1. Apart(p1, p2)
    BY <1>3 DEF WorkInv, Works, Active
  <2> QED  BY <1>1, <1>2, <2>1 DEF Apart
<1>4. ASSUME NEW p \in Active', NEW d \in req'[p].docs
      PROVE  /\ req'[p].kind = "purge" /\ d \in Papers /\ Payer(d)' \in Trusted' =>
                  \A n \in Counter!Answers({d})' : size'[n] = 0
             /\ req'[p].at = "count" /\ {Payer(d)', req'[p].who} \cap Trusted' # {} => Payer(d)' = req'[p].who
  <2>1. p \in Active /\ d \in req[p].docs /\ req'[p] = req[p]
    BY <1>4
  <2> QED  BY <1>1, <2>1 DEF WorkInv, Works, Active
<1> QED  BY <1>3, <1>4 DEF WorkInv, Works, Active

\* The books of the accounts that are still trusted are as they were.
LEMMA CrashBooks ==
  ASSUME WorldTyped, Asks, MadeOnce, MeterInv, BooksInv, NEW q \in Hands, Counter!Crash(q)
  PROVE  BooksInv'
<1>1. /\ q \in Active /\ Active' = Active \ {q} /\ \A p \in Hands : p # q => req'[p] = req[p]
      /\ UNCHANGED <<scene, size, place, holder, counter, task, met, used, moves>>
      /\ Trusted' = Trusted \ Counter!Concerns(q)
  BY CrashTyped
<1>2. PICK paid \in [Docs -> Sized] : Charged(paid)
  BY DEF BooksInv
<1>3. /\ \A d : Payer(d)' = Payer(d) /\ Due(d)' = Due(d) /\ (Counts(d)' <=> Counts(d))
      /\ \A o : DocsOf(o)' = DocsOf(o)
      /\ Docs' = Docs /\ Sized' = Sized /\ Counter!Measuring' = Counter!Measuring
  BY <1>1 DEF Payer, FormFor, Counter!FormOfDoc, Counter!Owner, Due, Counts, DocsOf, Docs, Counter!Docs, Sized,
              Counter!Measuring
<1>4. ASSUME NEW d \in Docs, Payer(d) \in Trusted' PROVE d \notin req[q].docs /\ Payer(d) \in Trusted
  <2>1. \A e \in req[q].docs : Payer(e) \in Counter!Concerns(q)
    BY <1>1, RequestIs DEF Asks
  <2> QED  BY <1>1, <1>4, <2>1
<1>5. \A p \in Active' : p \in Hands /\ p \in Active /\ p # q /\ req'[p] = req[p]
  BY <1>1 DEF Active, Counter!Active
<1>6. ASSUME NEW d \in Docs, Payer(d) \in Trusted', ~InWork(d)' PROVE paid[d] = Due(d)
  <2>1. ~InWork(d)
    <3> SUFFICES ASSUME NEW p \in Active, d \in req[p].docs PROVE FALSE
      BY DEF InWork, Active
    <3>1. p \in Active' /\ d \in req'[p].docs
      BY <1>1, <1>4, <1>5, <1>6
    <3> QED  BY <1>6, <3>1 DEF InWork, Active
  <2> QED  BY <1>2, <1>4, <1>6, <2>1 DEF Charged
<1>7. ASSUME NEW p \in Active', NEW d \in req'[p].docs, Payer(d) \in Trusted'
      PROVE  Accounted(req[p], d, paid[d])'
  <2>1. p \in Active /\ req'[p] = req[p] /\ Payer(d) \in Trusted
    BY <1>1, <1>5, <1>7
  <2>2. PICK k : k = req[p]
    OBVIOUS
  <2>3. Accounted(k, d, paid[d])
    BY <1>2, <1>7, <2>1, <2>2 DEF Charged, Active
  <2>4. Counter!Sum(k.docs)' = Counter!Sum(k.docs) /\ size'[d] = size[d]
    BY <1>1 DEF Counter!Sum
  <2>5. Accounted(k, d, paid[d])'
    BY <1>3, <2>3, <2>4, AccountedStays
  <2> QED  BY <2>1, <2>2, <2>5 DEF Accounted
<1>8. \A o \in Trusted' : (\A t \in Counter!Measuring' : task'[t].who # o) => counter'[o] = Total(paid, DocsOf(o)')
  BY <1>1, <1>2, <1>3 DEF Charged
<1>9. Charged(paid)'
  BY <1>3, <1>6, <1>7, <1>8 DEF Charged, Active
<1> QED  BY <1>2, <1>3, <1>9 DEF BooksInv

\* And so is what they hold.
LEMMA CrashRoom ==
  ASSUME WorldTyped, Asks, MadeOnce, MeterInv, RoomInv, NEW q \in Hands, Counter!Crash(q)
  PROVE  RoomInv'
<1>1. /\ q \in Active /\ Active' = Active \ {q} /\ \A p \in Hands : p # q => req'[p] = req[p]
      /\ UNCHANGED <<scene, size, place, holder, counter, task, met, used, moves>>
      /\ Trusted' = Trusted \ Counter!Concerns(q)
  BY CrashTyped
<1>2. /\ \A d : Payer(d)' = Payer(d) /\ (Counts(d)' <=> Counts(d))
      /\ \A o : DocsOf(o)' = DocsOf(o)
      /\ Docs' = Docs /\ Counter!Measuring' = Counter!Measuring /\ Counter!Ceiling' = Counter!Ceiling
  BY <1>1 DEF Payer, FormFor, Counter!FormOfDoc, Counter!Owner, Counts, DocsOf, Docs, Counter!Docs,
              Counter!Measuring, Counter!Ceiling
<1>3. \A p \in Active' : p \in Hands /\ p \in Active /\ p # q /\ req'[p] = req[p]
  BY <1>1 DEF Active, Counter!Active
<1>4. Coming' \subseteq Coming
  BY <1>3 DEF Coming, Active
<1>5. ASSUME NEW d \in Docs, Payer(d) \in Trusted', d \in Counter!Leaving PROVE d \in Counter!Leaving'
  <2>1. PICK p \in Active : req[p].kind = "purge" /\ req[p].at = "delete" /\ d \in req[p].docs
    BY <1>5 DEF Counter!Leaving, Active
  <2>2. p # q
    <3>1. \A e \in req[q].docs : Payer(e) \in Counter!Concerns(q)
      BY <1>1, RequestIs DEF Asks
    <3> QED  BY <1>1, <1>5, <2>1, <3>1
  <2>3. p \in Active' /\ req'[p] = req[p]
    BY <1>1, <1>3, <2>2
  <2> QED  BY <2>1, <2>3 DEF Counter!Leaving, Active
<1>6. ASSUME NEW o \in Trusted'
      PROVE  Least * Cardinality(Here(o)') <= Counter!Ceiling + Least * Cardinality(Hands)
  <2>1. \A d \in DocsOf(o) : d \in Docs /\ Payer(d) = o
    BY DEF DocsOf
  <2>2. Here(o)' \subseteq Here(o)
    BY <1>1, <1>2, <1>4, <1>5, <1>6, <2>1 DEF Here
  <2>3. /\ Cardinality(Here(o)) \in Nat /\ Cardinality(Here(o)') \in Nat
        /\ Least * Cardinality(Here(o)') <= Least * Cardinality(Here(o))
    BY <2>2, LessRoom, HereFinite
  <2>4. Least * Cardinality(Here(o)) <= Counter!Ceiling + Least * Cardinality(Hands)
    BY <1>1, <1>6 DEF RoomInv
  <2>5. /\ Least * Cardinality(Here(o)) \in Int /\ Least * Cardinality(Here(o)') \in Int
        /\ Least * Cardinality(Hands) \in Int
    BY <2>3, CounterAssumed, FS_CardinalityType
  <2>6. Counter!Ceiling \in Int
    BY DEF WorldTyped, Counter!SceneTypes, Counter!Ceiling
  <2> QED  BY <2>3, <2>4, <2>5, <2>6
<1>7. ASSUME NEW d \in Docs, Payer(d) \in Trusted', size'[d] # 0 \/ d \in Coming' PROVE Counts(d)
  BY <1>1, <1>4, <1>7 DEF RoomInv
<1>8. Counter!Measuring' = {}
  BY <1>2 DEF RoomInv
<1> QED  BY <1>2, <1>6, <1>7, <1>8 DEF RoomInv

\* Where no request moves and nothing is written, what was said of requests and books stays so.
LEMMA RestStays ==
  ASSUME UNCHANGED <<scene, size, place, holder, req, used, moves>>, Asks, MadeOnce, Trusted' \subseteq Trusted,
         \A o \in Trusted' : (\A t \in Counter!Measuring' : task'[t].who # o) => Settling(o) /\ counter'[o] = counter[o]
  PROVE  Asks' /\ MadeOnce' /\ (WorkInv => WorkInv') /\ (BooksInv => BooksInv')
<1>1. /\ \A d : Payer(d)' = Payer(d) /\ Due(d)' = Due(d) /\ (Counts(d)' <=> Counts(d)) /\ FormFor(d)' = FormFor(d)
      /\ \A o : DocsOf(o)' = DocsOf(o)
      /\ Docs' = Docs /\ Sized' = Sized /\ Active' = Active
  BY DEF Payer, FormFor, Counter!FormOfDoc, Counter!Owner, Due, Counts, DocsOf, Docs, Counter!Docs, Sized, Active,
         Counter!Active
<1>2. Asks'
  <2>1. Stages' = Stages /\ Counter!Kinds' = Counter!Kinds /\ \A p : DocsFit(p)' = DocsFit(p)
    BY DEF Docs, Counter!Docs, Stages, Counter!Kinds, DocsFit, Counter!Answers
  <2> SUFFICES ASSUME NEW p \in Hands PROVE Asked(req[p])'
    BY DEF Asks
  <2>2. Asked(req[p])
    BY DEF Asks
  <2> QED  BY <1>1, <2>1, <2>2 DEF Asked
<1>3. MadeOnce'
  BY <1>1 DEF MadeOnce
<1>4. WorkInv => WorkInv'
  BY <1>1, FewerTrusted
<1>5. ASSUME BooksInv PROVE BooksInv'
  <2>1. PICK paid \in [Docs -> Sized] : Charged(paid)
    BY <1>5 DEF BooksInv
  <2>2. \A d \in Docs : Payer(d)' \in Trusted' /\ ~InWork(d)' => paid[d] = Due(d)'
    BY <1>1, <2>1 DEF Charged, InWork, Active
  <2>3. ASSUME NEW p \in Active', NEW d \in req'[p].docs, Payer(d)' \in Trusted'
        PROVE  Accounted(req[p], d, paid[d])'
    <3>1. PICK k : k = req[p]
      OBVIOUS
    <3>2. Accounted(k, d, paid[d])
      BY <1>1, <2>1, <2>3, <3>1 DEF Charged, Active
    <3>3. Counter!Sum(k.docs)' = Counter!Sum(k.docs) /\ size'[d] = size[d]
      BY DEF Counter!Sum
    <3>4. Accounted(k, d, paid[d])'
      BY <1>1, <3>2, <3>3, AccountedStays
    <3> QED  BY <3>1, <3>4 DEF Accounted
  <2>4. \A o \in Trusted' : (\A t \in Counter!Measuring' : task'[t].who # o) => counter'[o] = Total(paid, DocsOf(o)')
    BY <1>1, <2>1 DEF Charged, Settling
  <2>5. Charged(paid)'
    BY <1>1, <2>2, <2>3, <2>4 DEF Charged, Active
  <2> QED  BY <1>1, <2>1, <2>5 DEF BooksInv
<1> QED  BY <1>2, <1>3, <1>4, <1>5

\* Measurements begin: each of its account alone, unless it is not, and then not trusted.
Starts(asked, quiet) ==
  /\ task' \in [Meters -> Tasked]
  /\ met \subseteq met' /\ met' \subseteq Accounts
  /\ quiet /\ (\A t \in Counter!Measuring : \A u \in Meters : task[t].who # asked[u]) => met' = met
  /\ Counter!Measuring' = Counter!Measuring \cup {t \in Meters : asked[t] # Nobody}
  /\ \A t \in Meters : asked[t] # Nobody =>
       /\ t \notin Counter!Measuring /\ task'[t].at = "start" /\ task'[t].who = asked[t]
       /\ task'[t].alone => quiet /\ \A u \in Counter!Measuring : task[u].who # asked[t]
       /\ ~task'[t].alone => asked[t] \in met'
  /\ \A t \in Counter!Measuring :
       /\ task'[t].who = task[t].who
       /\ task'[t].alone => task'[t] = task[t] /\ \A u \in Meters : asked[u] # task[t].who
       /\ ~task'[t].alone => ~task[t].alone \/ task[t].who \in met'

\* Every measurement begins like this.
LEMMA MeasureMeans ==
  ASSUME WorldTyped, NEW asked \in [Meters -> Accounts \cup {Nobody}], NEW quiet \in BOOLEAN,
         Counter!Measure(asked, quiet)
  PROVE  Starts(asked, quiet)
<1> DEFINE O == {asked[t] : t \in Meters} \ {Nobody}
           New(t) == [Counter!NoTask EXCEPT !.at = "start", !.who = asked[t],
                                            !.alone = quiet /\ Counter!On({asked[t]}) = {}]
<1>1. /\ \A t \in Meters : asked[t] # Nobody => task[t].at = "off"
      /\ task' = [t \in Meters |-> IF asked[t] # Nobody THEN New(t)
                                   ELSE IF t \in Counter!On(O) THEN [task[t] EXCEPT !.alone = FALSE] ELSE task[t]]
      /\ met' = met \cup (IF quiet THEN {task[t].who : t \in Counter!On(O)} ELSE O)
  BY DEF Counter!Measure
<1>2. task \in [Meters -> Tasked] /\ met \subseteq Accounts /\ \A t \in Counter!Measuring : task[t].who \in Accounts
  BY DEF WorldTyped, Tasked, Counter!TypeOK
<1>3. O \subseteq Accounts
  OBVIOUS
<1>4. \A S : Counter!On(S) = {t \in Counter!Measuring : task[t].who \in S}
  BY DEF Counter!On
<1>5. Nobody \notin Accounts /\ \A t \in Counter!Measuring : t \in Meters /\ task[t].at # "off"
  BY CounterAssumed DEF Counter!Measuring
<1>6. met \subseteq met' /\ met' \subseteq Accounts
  BY <1>1, <1>2, <1>3, <1>4
<1>7. ASSUME NEW t \in Meters, asked[t] # Nobody
      PROVE  /\ task'[t] \in Tasked /\ task'[t].at = "start" /\ task'[t].who = asked[t]
             /\ task'[t].alone = (quiet /\ Counter!On({asked[t]}) = {}) /\ task[t].at = "off"
  <2>1. PICK b \in BOOLEAN : b = (quiet /\ Counter!On({asked[t]}) = {})
    OBVIOUS
  <2>2. PICK k1 : k1 = [Counter!NoTask EXCEPT !.at = "start"]
    OBVIOUS
  <2>3. PICK k2 : k2 = [k1 EXCEPT !.who = asked[t]]
    OBVIOUS
  <2>4. PICK k : k = [k2 EXCEPT !.alone = b]
    OBVIOUS
  <2>5. New(t) = k
    BY <2>1, <2>2, <2>3, <2>4
  <2>6. task'[t] = New(t)
    BY <1>1, <1>7
  <2>7. Counter!NoTask \in Tasked
    BY DEF Counter!NoTask, Tasked, Meterings
  <2>8. k1 \in Tasked /\ k1.at = "start"
    BY <2>2, <2>7 DEF Tasked, Meterings
  <2>9. k2 \in Tasked /\ k2.at = "start" /\ k2.who = asked[t]
    BY <2>3, <2>8 DEF Tasked
  <2>10. k \in Tasked /\ k.at = "start" /\ k.who = asked[t] /\ k.alone = b
    BY <2>1, <2>4, <2>9 DEF Tasked
  <2>11. task'[t] = k /\ task[t].at = "off"
    BY <1>1, <1>7, <2>5, <2>6
  <2> HIDE DEF New
  <2> QED  BY <2>1, <2>10, <2>11
<1>8. ASSUME NEW t \in Meters, asked[t] = Nobody, t \in Counter!On(O)
      PROVE  /\ task'[t] \in Tasked /\ task'[t].at = task[t].at /\ task'[t].who = task[t].who
             /\ task'[t].alone = FALSE
  <2>1. PICK no \in BOOLEAN : no = FALSE
    OBVIOUS
  <2>2. task'[t] = [task[t] EXCEPT !.alone = no]
    BY <1>1, <1>8, <2>1
  <2> QED  BY <1>2, <2>1, <2>2 DEF Tasked
<1>9. ASSUME NEW t \in Meters, asked[t] = Nobody, t \notin Counter!On(O) PROVE task'[t] = task[t]
  BY <1>1, <1>9
<1>10. task' \in [Meters -> Tasked]
  <2>1. task' = [t \in Meters |-> task'[t]]
    <3> HIDE DEF O, New
    <3> QED  BY <1>1
  <2>2. \A t \in Meters : task'[t] \in Tasked
    BY <1>2, <1>7, <1>8, <1>9
  <2> HIDE DEF O, New
  <2> QED  BY <2>1, <2>2
<1>11. Counter!Measuring' = Counter!Measuring \cup {t \in Meters : asked[t] # Nobody}
  <2>1. \A t \in Meters : asked[t] = Nobody => task'[t].at = task[t].at
    BY <1>8, <1>9
  <2>2. \A t \in Meters : asked[t] # Nobody => task'[t].at # "off"
    BY <1>7
  <2> QED  BY <2>1, <2>2 DEF Counter!Measuring
<1>12. ASSUME NEW t \in Meters, asked[t] # Nobody, ~task'[t].alone PROVE asked[t] \in met'
  <2>1. ~quiet \/ Counter!On({asked[t]}) # {}
    BY <1>7, <1>12
  <2>2. CASE ~quiet
    BY <1>1, <1>12, <2>2
  <2>3. CASE quiet
    <3>1. PICK u \in Counter!Measuring : task[u].who = asked[t]
      BY <1>4, <2>1, <2>3
    <3>2. u \in Counter!On(O)
      BY <1>4, <1>12, <3>1
    <3> QED  BY <1>1, <2>3, <3>1, <3>2
  <2> QED  BY <2>2, <2>3
<1>13. ASSUME NEW t \in Counter!Measuring
       PROVE  /\ task'[t].who = task[t].who
              /\ task'[t].alone => task'[t] = task[t] /\ \A u \in Meters : asked[u] # task[t].who
              /\ ~task'[t].alone => ~task[t].alone \/ task[t].who \in met'
  <2>1. t \in Meters /\ asked[t] = Nobody /\ task[t].who \in Accounts
    BY <1>1, <1>2, <1>5
  <2>2. CASE t \in Counter!On(O)
    <3>1. task[t].who \in O
      BY <1>4, <2>2
    <3>2. task[t].who \in met'
      BY <1>1, <2>2, <3>1
    <3> QED  BY <1>8, <2>1, <2>2, <3>2
  <2>3. CASE t \notin Counter!On(O)
    <3>1. task[t].who \notin O
      BY <1>4, <2>3
    <3>2. \A u \in Meters : asked[u] # task[t].who
      BY <1>5, <2>1, <3>1
    <3> QED  BY <1>9, <2>1, <2>3, <3>2
  <2> QED  BY <2>2, <2>3
<1>14. quiet /\ (\A t \in Counter!Measuring : \A u \in Meters : task[t].who # asked[u]) => met' = met
  <2> SUFFICES ASSUME quiet, \A t \in Counter!Measuring : \A u \in Meters : task[t].who # asked[u] PROVE met' = met
    OBVIOUS
  <2>1. Counter!On(O) = {}
    BY <1>4
  <2> QED  BY <1>1, <2>1
<1>15. \A t \in Meters : asked[t] # Nobody =>
         /\ t \notin Counter!Measuring /\ task'[t].at = "start" /\ task'[t].who = asked[t]
         /\ task'[t].alone => quiet /\ \A u \in Counter!Measuring : task[u].who # asked[t]
         /\ ~task'[t].alone => asked[t] \in met'
  BY <1>4, <1>5, <1>7, <1>12
<1> QED  BY <1>6, <1>10, <1>11, <1>13, <1>14, <1>15 DEF Starts

\* The daily measurement begins.
LEMMA DailyKeeps ==
  ASSUME WorldTyped, Asks, MadeOnce, MeterInv, NEW m \in Meters, NEW o \in Accounts, Counter!Daily(m, o)
  PROVE  WorldTyped' /\ Asks' /\ MadeOnce' /\ MeterInv' /\ (WorkInv => WorkInv') /\ (BooksInv => BooksInv')
<1> DEFINE asks == [u \in Meters |-> IF u = m THEN o ELSE Nobody]
<1>1. Nobody \notin Accounts
  BY CounterAssumed
<1>2. PICK quiet \in BOOLEAN : quiet = Counter!Quiet(o)
  BY DEF Counter!Quiet
<1>3. PICK asked \in [Meters -> Accounts \cup {Nobody}] : asked = asks
  OBVIOUS
<1>4. Counter!Measure(asked, quiet) /\ UNCHANGED <<scene, size, place, holder, counter, req, crossed, used, moves>>
  BY <1>2, <1>3 DEF Counter!Daily, Counter!world, Counter!bounds
<1>5. Starts(asked, quiet)
  BY <1>4, MeasureMeans
<1>6. \A t \in Meters : asked[t] = IF t = m THEN o ELSE Nobody
  BY <1>3
<1> HIDE DEF asks
<1>7. /\ task' \in [Meters -> Tasked] /\ met \subseteq met' /\ met' \subseteq Accounts
      /\ Counter!Measuring' = Counter!Measuring \cup {m} /\ m \notin Counter!Measuring
      /\ task'[m].at = "start" /\ task'[m].who = o
      /\ task'[m].alone => quiet /\ \A u \in Counter!Measuring : task[u].who # o
      /\ ~task'[m].alone => o \in met'
      /\ \A t \in Counter!Measuring :
           /\ task'[t].who = task[t].who
           /\ task'[t].alone => task'[t] = task[t] /\ o # task[t].who
           /\ ~task'[t].alone => ~task[t].alone \/ task[t].who \in met'
  BY <1>1, <1>5, <1>6 DEF Starts
<1>8. Trusted' \subseteq Trusted
  BY <1>4, <1>7 DEF Trusted
<1>9. WorldTyped'
  <2>1. Counter!TypeOK'
    BY <1>4, <1>7 DEF WorldTyped, Counter!TypeOK
  <2>2. \A t \in Counter!Measuring' : task'[t].who \in Accounts
    BY <1>7 DEF WorldTyped
  <2> QED  BY <1>4, <1>7, <2>1, <2>2 DEF WorldTyped, Tasked
<1>10. MeterInv'
  <2> SUFFICES ASSUME NEW t \in Counter!Measuring' PROVE Measured(t)'
    BY DEF MeterInv
  <2>1. PICK w : w = task'[t].who
    OBVIOUS
  <2>2. Counter!Quiet(w)' = Counter!Quiet(w)
    BY <1>4 DEF Counter!Quiet, Counter!Active, Counter!Concerns, Counter!Owner, Counter!FormOfDoc
  <2>3. CASE t = m
    <3>1. CASE ~task'[t].alone
      BY <1>7, <2>3, <3>1 DEF Measured, Trusted
    <3>2. CASE task'[t].alone
      <4>1. Counter!Quiet(w)'
        BY <1>2, <1>7, <2>1, <2>2, <2>3, <3>2
      <4> QED  BY <1>7, <2>1, <2>3, <3>2, <4>1 DEF Measured
    <3> QED  BY <3>1, <3>2
  <2>4. CASE t \in Counter!Measuring
    <3>1. Measured(t)
      BY <2>4 DEF MeterInv
    <3>2. CASE ~task'[t].alone
      <4>1. task'[t].who \notin Trusted'
        BY <1>7, <1>8, <2>4, <3>1, <3>2 DEF Measured, Trusted
      <4> QED  BY <3>2, <4>1 DEF Measured
    <3>3. CASE task'[t].alone
      <4>1. task'[t] = task[t] /\ w = task[t].who /\ o # w
        BY <1>7, <2>1, <2>4, <3>3
      <4>2. /\ Standing(w)' = Standing(w) /\ Counter!Sum(Standing(w))' = Counter!Sum(Standing(w))
            /\ Counter!Usage(w)' = Counter!Usage(w)
        <5>1. Counter!FormsOf(w)' = Counter!FormsOf(w)
          BY <1>4 DEF Counter!FormsOf, Counter!Owner
        <5> QED  BY <1>4, <5>1, UsageStays
      <4>3. \A u \in Counter!Measuring' : u # t => task'[u].who # w
        BY <1>7, <3>1, <3>3, <4>1 DEF Measured
      <4> QED  BY <1>4, <2>2, <3>1, <3>3, <4>1, <4>2, <4>3 DEF Measured
    <3> QED  BY <3>2, <3>3
  <2> QED  BY <1>7, <2>3, <2>4
<1>11. Asks' /\ MadeOnce' /\ (WorkInv => WorkInv') /\ (BooksInv => BooksInv')
  <2>1. \A x \in Trusted' : (\A t \in Counter!Measuring' : task'[t].who # x) => Settling(x) /\ counter'[x] = counter[x]
    BY <1>4, <1>7 DEF Settling
  <2> QED  BY <1>4, <1>8, <2>1, RestStays
<1> QED  BY <1>9, <1>10, <1>11

\* A measurement goes on, or sets the counter of the account it measures.
Going(m) == Counter!ReadStored(m) \/ Counter!ReadForms(m) \/ Counter!SumForms(m) \/ Counter!SumResponses(m)
            \/ Counter!ReadAgain(m) \/ Counter!Correct(m)

\* What it does to the measurement.
Went(m, k) ==
  /\ UNCHANGED <<scene, size, place, holder, req, crossed, met, used, moves>>
  /\ m \in Counter!Measuring /\ task' = [task EXCEPT ![m] = k]
  /\ k \in Tasked /\ k.at # "off" /\ k.who = task[m].who /\ k.alone = task[m].alone
  /\ counter' \in [Accounts -> Int] /\ \A o \in Accounts : o # k.who => counter'[o] = counter[o]

\* What it has read is so.
Knows(k, w, c) ==
  /\ k.at \notin {"start", "over"} => k.stored = c
  /\ k.at \in {"formBytes", "responseBytes"} => k.forms = Standing(w)
  /\ k.at = "responseBytes" => k.sum = Counter!Sum(Standing(w))
  /\ k.at \in {"again", "set"} => k.sum = Counter!Usage(w)
  /\ k.at = "over" => c = Counter!Usage(w)

\* What is standing adds up, and its answers add to it.
LEMMA StandingSum ==
  ASSUME WorldTyped, NEW w
  PROVE  /\ Counter!Sum(Standing(w)) \in Nat /\ Counter!Sum(Counter!Answers(Standing(w))) \in Nat
         /\ Counter!Usage(w) = Counter!Sum(Standing(w)) + Counter!Sum(Counter!Answers(Standing(w)))
<1> DEFINE F == Standing(w)
           A == Counter!Answers(F)
<1>1. F \subseteq Papers /\ A \subseteq Papers \X Numbers
  BY FormsFound DEF Standing, Counter!FormsOf
<1>2. F \subseteq Docs /\ A \subseteq Docs /\ F \cap A = {}
  BY <1>1, CounterAssumed
<1>3. Counter!Sum(F) \in Nat /\ Counter!Sum(A) \in Nat
  BY <1>2, OwnersAre
<1>4. IsFiniteSet(F) /\ IsFiniteSet(A) /\ \A d \in F \cup A : size[d] \in Nat
  BY <1>2, CounterAssumed, FS_Subset, SizesTyped
<1>5. Counter!Usage(w) = Counter!Sum(F \cup A)
  BY DEF Counter!Usage, Standing
<1>6. Total(size, F \cup A) = Total(size, F) + Total(size, A)
  <2> HIDE DEF F, A
  <2> QED  BY <1>2, <1>4, TotalSplit
<1> QED  BY <1>3, <1>5, <1>6, SumIs

\* A step of a measurement finds out what it reads.
LEMMA GoingMeans ==
  ASSUME WorldTyped, NEW m \in Meters, Going(m)
  PROVE  \E k : Went(m, k) /\ (Knows(task[m], task[m].who, counter[task[m].who])
                                 => Knows(k, task[m].who, counter'[task[m].who]))
<1> DEFINE t == task[m]
           w == t.who
<1>1. task \in [Meters -> Tasked] /\ counter \in [Accounts -> Int]
  BY DEF WorldTyped, Tasked, Counter!TypeOK
<1>2. m \in Counter!Measuring
  BY DEF Going, Counter!ReadStored, Counter!ReadForms, Counter!SumForms, Counter!SumResponses, Counter!ReadAgain,
         Counter!Correct, Counter!Step, Counter!Measuring
<1>3. w \in Accounts /\ t \in Tasked /\ counter[w] \in Int
  BY <1>1, <1>2 DEF WorldTyped
<1>4. Counter!Sum(Standing(w)) \in Nat /\ Counter!Sum(Counter!Answers(Standing(w))) \in Nat
      /\ Counter!Usage(w) = Counter!Sum(Standing(w)) + Counter!Sum(Counter!Answers(Standing(w)))
  BY StandingSum
<1>5. Standing(w) \in SUBSET Papers
  BY DEF Standing, Counter!FormsOf
<1>6. ASSUME NEW at, NEW k, Counter!Step(m, at, k), k \in Tasked, k.at # "off", k.who = w, k.alone = t.alone
      PROVE  Went(m, k) /\ counter' = counter
  BY <1>1, <1>2, <1>6 DEF Counter!Step, Counter!world, Counter!seen, Counter!bounds, Went
<1>7. CASE Counter!ReadStored(m)
  <2>1. PICK k1 : k1 = [t EXCEPT !.at = "forms"]
    OBVIOUS
  <2>2. PICK k : k = [k1 EXCEPT !.stored = counter[w]]
    OBVIOUS
  <2>3. Counter!Step(m, "start", k)
    BY <1>7, <2>1, <2>2 DEF Counter!ReadStored
  <2>4. k \in Tasked /\ k.at = "forms" /\ k.stored = counter[w] /\ k.who = w /\ k.alone = t.alone
    BY <1>3, <2>1, <2>2 DEF Tasked, Meterings
  <2>5. Went(m, k) /\ counter' = counter
    BY <1>6, <2>3, <2>4
  <2>6. Knows(k, w, counter[w])
    BY <2>4 DEF Knows
  <2> QED  BY <2>5, <2>6
<1>8. CASE Counter!ReadForms(m)
  <2>1. PICK k1 : k1 = [t EXCEPT !.at = "formBytes"]
    OBVIOUS
  <2>2. PICK k : k = [k1 EXCEPT !.forms = Standing(w)]
    OBVIOUS
  <2>3. Counter!Step(m, "forms", k) /\ t.at = "forms"
    BY <1>8, <2>1, <2>2 DEF Counter!ReadForms, Standing, Counter!Step
  <2>4. k \in Tasked /\ k.at = "formBytes" /\ k.stored = t.stored /\ k.who = w /\ k.alone = t.alone
        /\ k.forms = Standing(w)
    BY <1>3, <1>5, <2>1, <2>2 DEF Tasked, Meterings
  <2>5. Went(m, k) /\ counter' = counter
    BY <1>6, <2>3, <2>4
  <2>6. Knows(t, w, counter[w]) => Knows(k, w, counter[w])
    BY <2>3, <2>4 DEF Knows
  <2> QED  BY <2>5, <2>6
<1>9. CASE Counter!SumForms(m)
  <2>1. PICK k1 : k1 = [t EXCEPT !.at = "responseBytes"]
    OBVIOUS
  <2>2. PICK k : k = [k1 EXCEPT !.sum = Counter!Sum(t.forms)]
    OBVIOUS
  <2>3. Counter!Step(m, "formBytes", k) /\ t.at = "formBytes"
    BY <1>9, <2>1, <2>2 DEF Counter!SumForms, Counter!Step
  <2>4. Counter!Sum(t.forms) \in Nat
    <3>1. t.forms \subseteq Docs
      BY <1>3, CounterAssumed DEF Tasked
    <3> QED  BY <3>1, OwnersAre
  <2>5. k \in Tasked /\ k.at = "responseBytes" /\ k.stored = t.stored /\ k.who = w /\ k.alone = t.alone
        /\ k.forms = t.forms /\ k.sum = Counter!Sum(t.forms)
    BY <1>3, <2>1, <2>2, <2>4 DEF Tasked, Meterings
  <2>6. Went(m, k) /\ counter' = counter
    BY <1>6, <2>3, <2>5
  <2>7. Knows(t, w, counter[w]) => Knows(k, w, counter[w])
    BY <2>3, <2>5 DEF Knows
  <2> QED  BY <2>6, <2>7
<1>10. CASE Counter!SumResponses(m)
  <2>1. PICK k1 : k1 = [t EXCEPT !.at = "again"]
    OBVIOUS
  <2>2. PICK k : k = [k1 EXCEPT !.sum = t.sum + Counter!Sum(Counter!Answers(t.forms))]
    OBVIOUS
  <2>3. t.at = "responseBytes" /\ Counter!Step(m, "responseBytes", k)
    <3>1. [t EXCEPT !.at = "again", !.sum = @ + Counter!Sum(Counter!Answers(t.forms))] = k
      BY <1>3, <2>1, <2>2 DEF Tasked
    <3> QED  BY <1>10, <3>1 DEF Counter!SumResponses, Counter!Step
  <2>4. Counter!Sum(Counter!Answers(t.forms)) \in Nat
    <3>1. Counter!Answers(t.forms) \subseteq Docs
      BY FormsFound, CounterAssumed
    <3> QED  BY <3>1, OwnersAre
  <2>5. t.sum + Counter!Sum(Counter!Answers(t.forms)) \in Nat
    BY <1>3, <2>4 DEF Tasked
  <2>6. k \in Tasked /\ k.at = "again" /\ k.stored = t.stored /\ k.who = w /\ k.alone = t.alone
        /\ k.sum = t.sum + Counter!Sum(Counter!Answers(t.forms))
    BY <1>3, <2>1, <2>2, <2>5 DEF Tasked, Meterings
  <2>7. Went(m, k) /\ counter' = counter
    BY <1>6, <2>3, <2>6
  <2>8. ASSUME Knows(t, w, counter[w]) PROVE Knows(k, w, counter[w])
    <3>1. t.forms = Standing(w) /\ t.sum = Counter!Sum(Standing(w)) /\ t.stored = counter[w]
      BY <2>3, <2>8 DEF Knows
    <3>2. k.sum = Counter!Usage(w)
      BY <1>4, <2>6, <3>1
    <3> QED  BY <2>6, <3>1, <3>2 DEF Knows
  <2> QED  BY <2>7, <2>8
<1>11. PICK d : d = Counter!Done(m)
  OBVIOUS
<1>12. d \in Tasked /\ d.at = "over" /\ d.who = w /\ d.alone = t.alone
  <2>1. PICK d0 : d0 = [Counter!NoTask EXCEPT !.at = "over"]
    OBVIOUS
  <2>2. PICK d1 : d1 = [d0 EXCEPT !.who = w]
    OBVIOUS
  <2>3. d = [d1 EXCEPT !.alone = t.alone]
    BY <1>11, <2>1, <2>2 DEF Counter!Done
  <2>4. Counter!NoTask \in Tasked
    BY DEF Counter!NoTask, Tasked, Meterings
  <2>5. d1 \in Tasked /\ d1.at = "over" /\ d1.who = w
    BY <1>3, <2>1, <2>2, <2>4 DEF Tasked, Meterings
  <2>6. t.alone \in BOOLEAN
    BY <1>3 DEF Tasked
  <2> QED  BY <2>3, <2>5, <2>6 DEF Tasked
<1>13. CASE Counter!ReadAgain(m) /\ counter[w] = t.stored /\ t.stored # t.sum
  <2>1. PICK k : k = [t EXCEPT !.at = "set"]
    OBVIOUS
  <2>2. Counter!Step(m, "again", k) /\ t.at = "again"
    BY <1>13, <2>1 DEF Counter!ReadAgain, Counter!Step
  <2>3. k \in Tasked /\ k.at = "set" /\ k.stored = t.stored /\ k.who = w /\ k.alone = t.alone /\ k.sum = t.sum
    BY <1>3, <2>1 DEF Tasked, Meterings
  <2>4. Went(m, k) /\ counter' = counter
    BY <1>6, <2>2, <2>3
  <2>5. Knows(t, w, counter[w]) => Knows(k, w, counter[w])
    BY <2>2, <2>3 DEF Knows
  <2> QED  BY <2>4, <2>5
<1>14. CASE Counter!ReadAgain(m) /\ ~(counter[w] = t.stored /\ t.stored # t.sum)
  <2>1. Counter!Step(m, "again", d) /\ t.at = "again"
    BY <1>11, <1>14 DEF Counter!ReadAgain, Counter!Step
  <2>2. Went(m, d) /\ counter' = counter
    BY <1>6, <1>12, <2>1
  <2>3. ASSUME Knows(t, w, counter[w]) PROVE Knows(d, w, counter[w])
    <3>1. t.stored = counter[w] /\ t.sum = Counter!Usage(w)
      BY <2>1, <2>3 DEF Knows
    <3>2. counter[w] = Counter!Usage(w)
      BY <1>14, <3>1
    <3> QED  BY <1>12, <3>2 DEF Knows
  <2> QED  BY <2>2, <2>3
<1>15. CASE Counter!Correct(m)
  <2>1. /\ t.at = "set" /\ counter' = [counter EXCEPT ![w] = t.sum] /\ task' = [task EXCEPT ![m] = d]
        /\ UNCHANGED <<scene, size, place, holder, req, crossed, met, used, moves>>
    BY <1>11, <1>15 DEF Counter!Correct, Counter!seen, Counter!bounds
  <2>2. t.sum \in Int
    BY <1>3 DEF Tasked
  <2>3. Went(m, d)
    BY <1>1, <1>2, <1>3, <1>12, <2>1, <2>2 DEF Went
  <2>4. ASSUME Knows(t, w, counter[w]) PROVE Knows(d, w, counter'[w])
    <3>1. t.sum = Counter!Usage(w)
      BY <2>1, <2>4 DEF Knows
    <3>2. counter'[w] = Counter!Usage(w)
      BY <1>1, <1>3, <2>1, <3>1
    <3> QED  BY <1>12, <3>2 DEF Knows
  <2> QED  BY <2>3, <2>4
<1> QED  BY <1>7, <1>8, <1>9, <1>10, <1>13, <1>14, <1>15 DEF Going

\* And it changes no account but its own, to what the account uses.
LEMMA GoingKeeps ==
  ASSUME WorldTyped, Asks, MadeOnce, MeterInv, NEW m \in Meters, Going(m)
  PROVE  WorldTyped' /\ Asks' /\ MadeOnce' /\ MeterInv' /\ (WorkInv => WorkInv') /\ (BooksInv => BooksInv')
<1>1. PICK k : Went(m, k) /\ (Knows(task[m], task[m].who, counter[task[m].who])
                                => Knows(k, task[m].who, counter'[task[m].who]))
  BY GoingMeans
<1>2. /\ UNCHANGED <<scene, size, place, holder, req, crossed, met, used, moves>>
      /\ m \in Counter!Measuring /\ task' = [task EXCEPT ![m] = k]
      /\ k \in Tasked /\ k.at # "off" /\ k.who = task[m].who /\ k.alone = task[m].alone
      /\ counter' \in [Accounts -> Int] /\ \A o \in Accounts : o # k.who => counter'[o] = counter[o]
  BY <1>1 DEF Went
<1>3. task \in [Meters -> Tasked] /\ task' \in [Meters -> Tasked] /\ task'[m] = k
      /\ \A t \in Meters : t # m => task'[t] = task[t]
  <2>1. task \in [Meters -> Tasked]
    BY DEF WorldTyped, Tasked
  <2> QED  BY <1>2, <2>1
<1>4. Counter!Measuring' = Counter!Measuring /\ \A t \in Counter!Measuring : t \in Meters /\ task'[t].who = task[t].who
      /\ task[t].who \in Accounts
  BY <1>2, <1>3 DEF Counter!Measuring, WorldTyped
<1>5. Trusted' = Trusted
  BY <1>2 DEF Trusted
<1>6. WorldTyped'
  <2>1. Counter!TypeOK'
    BY <1>2 DEF WorldTyped, Counter!TypeOK
  <2> QED  BY <1>2, <1>3, <1>4, <2>1 DEF WorldTyped, Tasked
<1>7. MeterInv'
  <2> SUFFICES ASSUME NEW t \in Counter!Measuring PROVE Measured(t)'
    BY <1>4 DEF MeterInv
  <2>1. Measured(t) /\ Measured(m)
    BY <1>2 DEF MeterInv
  <2>2. PICK w : w = task[t].who
    OBVIOUS
  <2>3. w \in Accounts /\ task'[t].who = w
    BY <1>4, <2>2
  <2>4. Counter!Quiet(w)' = Counter!Quiet(w)
    BY <1>2 DEF Counter!Quiet, Counter!Active, Counter!Concerns, Counter!Owner, Counter!FormOfDoc
  <2>5. /\ Standing(w)' = Standing(w) /\ Counter!Sum(Standing(w))' = Counter!Sum(Standing(w))
        /\ Counter!Usage(w)' = Counter!Usage(w)
    <3>1. Counter!FormsOf(w)' = Counter!FormsOf(w)
      BY <1>2 DEF Counter!FormsOf, Counter!Owner
    <3> QED  BY <1>2, <3>1, UsageStays
  <2>6. CASE t = m
    <3>1. CASE ~k.alone
      BY <1>2, <1>3, <1>5, <2>1, <2>6, <3>1 DEF Measured
    <3>2. CASE k.alone
      <4>1. Knows(task[m], w, counter[w])
        BY <1>2, <2>1, <2>2, <2>6, <3>2 DEF Measured, Knows
      <4>2. Knows(k, w, counter'[w])
        BY <1>1, <2>2, <2>6, <4>1
      <4>3. Counter!Quiet(w)' /\ \A u \in Counter!Measuring : u # t => task'[u].who # w
        BY <1>2, <1>4, <2>1, <2>2, <2>4, <2>6, <3>2 DEF Measured
      <4> QED  BY <1>2, <1>3, <1>4, <2>2, <2>3, <2>5, <2>6, <3>2, <4>2, <4>3 DEF Measured, Knows
    <3> QED  BY <3>1, <3>2
  <2>7. CASE t # m
    <3>1. task'[t] = task[t]
      BY <1>3, <1>4, <2>7
    <3>2. CASE ~task[t].alone
      BY <1>5, <2>1, <3>1, <3>2 DEF Measured
    <3>3. CASE task[t].alone
      <4>1. counter'[w] = counter[w]
        BY <1>2, <2>1, <2>2, <2>3, <2>7, <3>3 DEF Measured
      <4> QED  BY <1>4, <2>1, <2>2, <2>4, <2>5, <3>1, <3>3, <4>1 DEF Measured
    <3> QED  BY <3>2, <3>3
  <2> QED  BY <2>6, <2>7
<1>8. Asks' /\ MadeOnce' /\ (WorkInv => WorkInv') /\ (BooksInv => BooksInv')
  <2>1. ASSUME NEW o \in Trusted', \A t \in Counter!Measuring' : task'[t].who # o
        PROVE  Settling(o) /\ counter'[o] = counter[o]
    BY <1>2, <1>3, <1>4, <2>1 DEF Settling, Trusted
  <2> QED  BY <1>2, <1>5, <2>1, RestStays
<1> QED  BY <1>6, <1>7, <1>8

\* A measurement that nothing disturbed settles its account.
LEMMA FinishKeeps ==
  ASSUME WorldTyped, Asks, MadeOnce, MeterInv, NEW m \in Meters, Counter!Finish(m)
  PROVE  /\ WorldTyped' /\ Asks' /\ MadeOnce' /\ MeterInv'
         /\ WorkInv => WorkInv'
         /\ BooksInv => BooksInv'
<1> DEFINE w == task[m].who
<1>1. /\ task[m].at = "over" /\ task' = [task EXCEPT ![m] = Counter!NoTask]
      /\ task[m].alone => crossed' = crossed \ {w} /\ met' = met \ {w}
      /\ ~task[m].alone => crossed' = crossed /\ met' = met
      /\ UNCHANGED <<scene, size, place, holder, counter, req, used, moves>>
  BY DEF Counter!Finish, Counter!world, Counter!seen, Counter!bounds
<1>2. task \in [Meters -> Tasked] /\ Counter!NoTask \in Tasked /\ crossed \subseteq Accounts /\ met \subseteq Accounts
  BY DEF WorldTyped, Tasked, Counter!TypeOK, Counter!NoTask
<1>3. task' \in [Meters -> Tasked] /\ task'[m].at = "off" /\ \A t \in Meters : t # m => task'[t] = task[t]
  BY <1>1, <1>2 DEF Counter!NoTask
<1>4. m \in Counter!Measuring /\ Counter!Measuring' = Counter!Measuring \ {m}
      /\ \A t \in Counter!Measuring : t \in Meters /\ task[t].who \in Accounts
  BY <1>1, <1>3 DEF Counter!Measuring, WorldTyped
<1>5. Measured(m)
  BY <1>4 DEF MeterInv
<1>6. Trusted' = IF task[m].alone THEN Trusted \cup {w} ELSE Trusted
  <2>1. w \in Accounts
    BY <1>4
  <2>2. CASE task[m].alone
    BY <1>1, <2>1, <2>2 DEF Trusted
  <2>3. CASE ~task[m].alone
    BY <1>1, <2>3 DEF Trusted
  <2> QED  BY <2>2, <2>3
<1>7. WorldTyped'
  <2>1. crossed' \subseteq Accounts /\ met' \subseteq Accounts
    BY <1>1, <1>2
  <2>2. Counter!TypeOK'
    BY <1>1, <2>1 DEF WorldTyped, Counter!TypeOK
  <2>3. \A t \in Counter!Measuring' : task'[t].who \in Accounts
    BY <1>3, <1>4
  <2> QED  BY <1>1, <1>3, <2>2, <2>3 DEF WorldTyped, Tasked
<1>8. \A x : Counter!Quiet(x)' = Counter!Quiet(x) /\ Counter!FormsOf(x)' = Counter!FormsOf(x)
  BY <1>1 DEF Counter!Quiet, Counter!Active, Counter!Concerns, Counter!Owner, Counter!FormOfDoc, Counter!FormsOf
<1>9. MeterInv'
  <2> SUFFICES ASSUME NEW t \in Counter!Measuring, t # m PROVE Measured(t)'
    BY <1>4 DEF MeterInv
  <2>1. PICK k : k = task[t]
    OBVIOUS
  <2>2. task'[t] = task[t] /\ Measured(t)
    BY <1>3, <1>4 DEF MeterInv
  <2>3. /\ Standing(k.who)' = Standing(k.who) /\ Counter!Sum(Standing(k.who))' = Counter!Sum(Standing(k.who))
        /\ Counter!Usage(k.who)' = Counter!Usage(k.who)
    BY <1>1, <1>8, UsageStays
  <2>4. CASE ~k.alone
    <3>1. k.who \notin Trusted /\ (task[m].alone => k.who # w)
      BY <1>4, <1>5, <2>1, <2>2, <2>4 DEF Measured
    <3> QED  BY <1>6, <2>1, <2>2, <2>4, <3>1 DEF Measured
  <2>5. CASE k.alone
    <3>1. \A u \in Counter!Measuring' : u # t => task'[u].who # k.who
      BY <1>3, <1>4, <2>1, <2>2, <2>5 DEF Measured
    <3> QED  BY <1>1, <1>8, <2>1, <2>2, <2>3, <2>5, <3>1 DEF Measured
  <2> QED  BY <2>4, <2>5
<1>10. CASE ~task[m].alone
  <2>1. w \notin Trusted
    BY <1>5, <1>10 DEF Measured
  <2>2. ASSUME NEW o \in Trusted', \A t \in Counter!Measuring' : task'[t].who # o PROVE Settling(o) /\ counter'[o] = counter[o]
    BY <1>1, <1>3, <1>4, <1>6, <1>10, <2>1, <2>2 DEF Settling
  <2>3. Asks' /\ MadeOnce' /\ (WorkInv => WorkInv') /\ (BooksInv => BooksInv')
    BY <1>1, <1>6, <1>10, <2>2, RestStays
  <2> QED  BY <1>7, <1>9, <2>3
<1>11. CASE task[m].alone
  <2>1. Counter!Quiet(w) /\ counter[w] = Counter!Usage(w) /\ \A t \in Counter!Measuring : t # m => task[t].who # w
    BY <1>1, <1>5, <1>11 DEF Measured
  <2>2. \A p \in Active : w \notin Counter!Concerns(p)
    BY <2>1 DEF Counter!Quiet, Active
  <2>3. \A p \in Active : /\ p \in Hands /\ Asked(req[p])
                          /\ \A d \in req[p].docs : Payer(d) # w
                          /\ req[p].who # w
    <3> SUFFICES ASSUME NEW p \in Active
                 PROVE  p \in Hands /\ Asked(req[p]) /\ (\A d \in req[p].docs : Payer(d) # w) /\ req[p].who # w
      OBVIOUS
    <3>1. p \in Hands /\ Asked(req[p])
      BY DEF Asks, Active, Counter!Active
    <3>2. /\ \A d \in req[p].docs : Payer(d) = Counter!Owner(Form(p))
          /\ Counter!Concerns(p) = {Counter!Owner(Form(p))} \cup ({req[p].who} \ {Nobody})
      BY <3>1, RequestIs
    <3>3. w # Nobody
      BY <1>4, CounterAssumed
    <3> QED  BY <2>2, <3>1, <3>2, <3>3
  <2>4. /\ \A d : Payer(d)' = Payer(d) /\ Due(d)' = Due(d) /\ (Counts(d)' <=> Counts(d)) /\ FormFor(d)' = FormFor(d)
        /\ \A o : DocsOf(o)' = DocsOf(o)
        /\ Docs' = Docs /\ Sized' = Sized /\ Active' = Active /\ \A d : Counter!Answers({d})' = Counter!Answers({d})
    BY <1>1 DEF Payer, FormFor, Counter!FormOfDoc, Counter!Owner, Due, Counts, DocsOf, Docs, Counter!Docs, Sized,
                Active, Counter!Active, Counter!Answers
  <2>5. Asks'
    <3>1. Stages' = Stages /\ Counter!Kinds' = Counter!Kinds /\ \A p : DocsFit(p)' = DocsFit(p)
      BY DEF Docs, Counter!Docs, Stages, Counter!Kinds, DocsFit, Counter!Answers
    <3> SUFFICES ASSUME NEW p \in Hands PROVE Asked(req[p])'
      BY DEF Asks
    <3>2. Asked(req[p])
      BY DEF Asks
    <3> QED  BY <1>1, <2>4, <3>1, <3>2 DEF Asked
  <2>6. MadeOnce'
    BY <1>1, <2>4 DEF MadeOnce
  <2>7. WorkInv => WorkInv'
    <3> SUFFICES ASSUME WorkInv PROVE WorkInv'
      OBVIOUS
    <3>1. \A p \in Active : Counter!Touches(p)' = Counter!Touches(p)
      BY <1>1 DEF Counter!Touches, Counter!FormOfDoc, Counter!Answers
    <3>2. ASSUME NEW p1 \in Active, NEW p2 \in Active, p1 # p2 PROVE Apart(p1, p2)'
      <4>1. Apart(p1, p2)
        BY <3>2 DEF WorkInv, Works, Active
      <4> QED  BY <1>1, <1>6, <1>11, <2>3, <2>4, <3>1, <4>1 DEF Apart
    <3>3. ASSUME NEW p \in Active, NEW d \in req[p].docs
          PROVE  /\ req'[p].kind = "purge" /\ d \in Papers /\ Payer(d)' \in Trusted' =>
                      \A n \in Counter!Answers({d})' : size'[n] = 0
                 /\ req'[p].at = "count" /\ {Payer(d)', req'[p].who} \cap Trusted' # {} => Payer(d)' = req'[p].who
      <4>1. Payer(d) # w /\ req[p].who # w
        BY <2>3
      <4> QED  BY <1>1, <1>6, <1>11, <2>4, <4>1 DEF WorkInv, Works, Active
    <3> QED  BY <1>1, <2>4, <3>2, <3>3 DEF WorkInv, Works, Active
  <2>8. BooksInv => BooksInv'
    <3> SUFFICES ASSUME BooksInv PROVE BooksInv'
      OBVIOUS
    <3>1. PICK paid \in [Docs -> Sized] : Charged(paid)
      BY DEF BooksInv
    <3>2. PICK new : new = [d \in Docs |-> IF Payer(d) = w THEN Due(d) ELSE paid[d]]
      OBVIOUS
    <3>3. new \in [Docs -> Sized]
      BY <3>1, <3>2, SizesTyped
    <3>4. ASSUME NEW o \in Trusted', \A t \in Counter!Measuring' : task'[t].who # o
          PROVE  counter'[o] = Total(new, DocsOf(o)')
      <4>1. CASE o = w
        <5>1. counter'[o] = Total(Dues, DocsOf(o))
          BY <1>1, <2>1, <4>1, UsageIs
        <5>2. \A d \in DocsOf(o) : new[d] = Dues[d]
          BY <3>2, <4>1 DEF DocsOf, Dues
        <5>3. Total(new, DocsOf(o)) = Total(Dues, DocsOf(o))
          BY <5>2, TotalSame
        <5> QED  BY <2>4, <5>1, <5>3
      <4>2. CASE o # w
        <5>1. o \in Trusted /\ \A t \in Counter!Measuring : task[t].who # o
          BY <1>3, <1>4, <1>6, <1>11, <3>4, <4>2
        <5>2. counter[o] = Total(paid, DocsOf(o))
          BY <3>1, <5>1 DEF Charged
        <5>3. \A d \in DocsOf(o) : new[d] = paid[d]
          BY <3>2, <4>2 DEF DocsOf
        <5>4. Total(new, DocsOf(o)) = Total(paid, DocsOf(o))
          BY <5>3, TotalSame
        <5> QED  BY <1>1, <2>4, <5>2, <5>4
      <4> QED  BY <4>1, <4>2
    <3>5. ASSUME NEW d \in Docs, Payer(d)' \in Trusted', ~InWork(d)' PROVE new[d] = Due(d)'
      <4>1. ~InWork(d)
        BY <1>1, <2>4, <3>5 DEF InWork, Active
      <4>2. Payer(d) # w => Payer(d) \in Trusted
        BY <1>6, <1>11, <2>4, <3>5
      <4>3. Payer(d) # w => paid[d] = Due(d)
        BY <3>1, <4>1, <4>2 DEF Charged
      <4> QED  BY <2>4, <3>2, <4>3
    <3>6. ASSUME NEW p \in Active', NEW d \in req'[p].docs, Payer(d)' \in Trusted'
          PROVE  Accounted(req[p], d, new[d])'
      <4>1. p \in Active /\ req'[p] = req[p] /\ d \in req[p].docs /\ d \in Docs
        BY <1>1, <2>3, <2>4, <3>6, RequestIs
      <4>2. Payer(d) # w /\ Payer(d) \in Trusted
        BY <1>6, <1>11, <2>3, <2>4, <3>6, <4>1
      <4>3. PICK k : k = req[p]
        OBVIOUS
      <4>4. Accounted(k, d, paid[d])
        BY <3>1, <4>1, <4>2, <4>3 DEF Charged, Active
      <4>5. Counter!Sum(k.docs)' = Counter!Sum(k.docs) /\ size'[d] = size[d]
        BY <1>1 DEF Counter!Sum
      <4>6. Accounted(k, d, paid[d])'
        BY <2>4, <4>4, <4>5, AccountedStays
      <4>7. new[d] = paid[d]
        BY <3>2, <4>1, <4>2
      <4> QED  BY <4>1, <4>3, <4>6, <4>7 DEF Accounted
    <3>7. Charged(new)'
      BY <2>4, <3>4, <3>5, <3>6 DEF Charged, Active
    <3> QED  BY <2>4, <3>3, <3>7 DEF BooksInv
  <2> QED  BY <1>7, <1>9, <2>5, <2>6, <2>7, <2>8
<1> QED  BY <1>10, <1>11

\* A form moves: measurements of the accounts it leaves and joins are disturbed.
LEMMA MoveKeeps ==
  ASSUME WorldTyped, Asks, MadeOnce, MeterInv, NEW f \in Papers, NEW p \in Rooms, Counter!MoveForm(f, p)
  PROVE  WorldTyped' /\ Asks' /\ MadeOnce' /\ MeterInv' /\ moves' # 0
<1> DEFINE two == {Counter!Owner(f), holder[p]}
           hit == {t \in Counter!Measuring : task[t].who \in two}
<1>1. /\ place' = [place EXCEPT ![f] = p] /\ moves' = moves + 1
      /\ crossed' = crossed \/ crossed' = crossed \cup two
      /\ (\E q \in Active : Counter!Touches(q) \cap ({f} \cup Counter!Answers({f})) # {}) => crossed' = crossed \cup two
      /\ met' = met \cup {task[t].who : t \in hit}
      /\ task' = [t \in Meters |-> IF t \in hit THEN [task[t] EXCEPT !.alone = FALSE] ELSE task[t]]
      /\ UNCHANGED <<scene, size, holder, counter, req, used>>
  BY DEF Counter!MoveForm, Active
<1>2. /\ task \in [Meters -> Tasked] /\ place \in [Papers -> Rooms] /\ holder \in [Rooms -> Accounts]
      /\ crossed \subseteq Accounts /\ met \subseteq Accounts /\ moves \in Nat
      /\ \A t \in Counter!Measuring : task[t].who \in Accounts /\ t \in Meters
  BY DEF WorldTyped, Tasked, Counter!TypeOK, Counter!Measuring
<1>3. two \subseteq Accounts
  BY <1>2, OwnersAre
<1>4. \A t \in Meters : /\ task'[t] \in Tasked /\ task'[t].at = task[t].at /\ task'[t].who = task[t].who
                        /\ task'[t].alone => task'[t] = task[t] /\ t \notin hit
                        /\ ~task'[t].alone => ~task[t].alone \/ t \in hit
  <2> SUFFICES ASSUME NEW t \in Meters
               PROVE  /\ task'[t] \in Tasked /\ task'[t].at = task[t].at /\ task'[t].who = task[t].who
                      /\ task'[t].alone => task'[t] = task[t] /\ t \notin hit
                      /\ ~task'[t].alone => ~task[t].alone \/ t \in hit
    OBVIOUS
  <2>1. CASE t \in hit
    <3>1. PICK no \in BOOLEAN : no = FALSE
      OBVIOUS
    <3>2. task'[t] = [task[t] EXCEPT !.alone = no]
      BY <1>1, <2>1, <3>1
    <3>3. task'[t] \in Tasked /\ task'[t].at = task[t].at /\ task'[t].who = task[t].who /\ task'[t].alone = no
      BY <1>2, <3>2 DEF Tasked
    <3> QED  BY <2>1, <3>1, <3>3
  <2>2. CASE t \notin hit
    <3>1. task'[t] = task[t]
      BY <1>1, <2>2
    <3> QED  BY <1>2, <2>2, <3>1
  <2> QED  BY <2>1, <2>2
<1>5. Counter!Measuring' = Counter!Measuring
  BY <1>4 DEF Counter!Measuring
<1>6. Trusted' \subseteq Trusted /\ crossed' \subseteq Accounts /\ met' \subseteq Accounts
  BY <1>1, <1>2, <1>3 DEF Trusted
<1>7. WorldTyped'
  <2>1. place' \in [Papers -> Rooms] /\ moves' \in Nat
    BY <1>1, <1>2
  <2>2. Counter!TypeOK'
    BY <1>1, <1>6, <2>1 DEF WorldTyped, Counter!TypeOK
  <2>3. task' \in [Meters -> Tasked]
    <3>1. task' = [t \in Meters |-> task'[t]]
      BY <1>1
    <3> QED  BY <1>4, <3>1
  <2>4. \A t \in Counter!Measuring' : task'[t].who \in Accounts
    BY <1>2, <1>4, <1>5
  <2> QED  BY <1>1, <2>1, <2>2, <2>3, <2>4 DEF WorldTyped, Tasked
<1>8. Asks' /\ MadeOnce'
  <2>1. Stages' = Stages /\ Counter!Kinds' = Counter!Kinds /\ (\A r : DocsFit(r)' = DocsFit(r)) /\ Docs' = Docs
        /\ \A d : FormFor(d)' = FormFor(d)
    BY DEF Docs, Counter!Docs, Stages, Counter!Kinds, DocsFit, Counter!Answers, FormFor, Counter!FormOfDoc
  <2>2. MadeOnce'
    BY <1>1, <2>1 DEF MadeOnce
  <2> SUFFICES ASSUME NEW q \in Hands PROVE Asked(req[q])'
    BY <2>2 DEF Asks
  <2>3. Asked(req[q])
    BY DEF Asks
  <2> QED  BY <1>1, <2>1, <2>3 DEF Asked
\* Only the form's owner changes.
<1>9. \A g \in Papers : g # f => Counter!Owner(g)' = Counter!Owner(g)
  BY <1>1, <1>2 DEF Counter!Owner
<1>10. Counter!Owner(f)' = holder[p]
  BY <1>1, <1>2 DEF Counter!Owner
<1>11. MeterInv'
  <2> SUFFICES ASSUME NEW t \in Counter!Measuring PROVE Measured(t)'
    BY <1>5 DEF MeterInv
  <2>1. PICK w : w = task[t].who
    OBVIOUS
  <2>2. t \in Meters /\ task'[t].who = w /\ Measured(t)
    BY <1>2, <1>4, <2>1 DEF MeterInv
  <2>3. CASE ~task'[t].alone
    <3>1. w \notin Trusted'
      <4>1. CASE ~task[t].alone
        BY <1>6, <2>1, <2>2, <4>1 DEF Measured
      <4>2. CASE t \in hit
        BY <1>1, <2>1, <4>2 DEF Trusted
      <4> QED  BY <1>4, <2>2, <2>3, <4>1, <4>2
    <3> QED  BY <2>2, <2>3, <3>1 DEF Measured
  <2>4. CASE task'[t].alone
    <3>1. task'[t] = task[t] /\ w \notin two
      BY <1>4, <2>1, <2>2, <2>4
    <3>2. Counter!FormsOf(w)' = Counter!FormsOf(w)
      BY <1>9, <1>10, <3>1 DEF Counter!FormsOf
    <3>3. /\ Standing(w)' = Standing(w) /\ Counter!Sum(Standing(w))' = Counter!Sum(Standing(w))
          /\ Counter!Usage(w)' = Counter!Usage(w)
      BY <1>1, <3>2, UsageStays
    <3>4. Counter!Quiet(w)'
      <4> SUFFICES ASSUME NEW q \in Active PROVE w \notin Counter!Concerns(q)'
        BY <1>1 DEF Counter!Quiet, Counter!Active, Active
      <4>1. w \notin Counter!Concerns(q) /\ req'[q] = req[q]
        BY <1>1, <2>1, <2>2, <2>4, <3>1 DEF Measured, Counter!Quiet, Active
      <4>2. \A d \in req[q].docs : FormFor(d) \in Papers
        BY RequestIs DEF Asks, Active, Counter!Active
      <4>3. \A d \in req[q].docs : Counter!Owner(FormFor(d))' # w
        BY <1>9, <1>10, <3>1, <4>1, <4>2 DEF Counter!Concerns, FormFor
      <4>4. Counter!Concerns(q)' = {Counter!Owner(FormFor(d))' : d \in req[q].docs} \cup ({req[q].who} \ {Nobody})
        BY <4>1 DEF Counter!Concerns, FormFor, Counter!FormOfDoc, Counter!Owner
      <4>5. w \notin {req[q].who} \ {Nobody}
        BY <4>1 DEF Counter!Concerns
      <4> QED  BY <4>3, <4>4, <4>5
    <3>5. \A u \in Counter!Measuring : u # t => task'[u].who # w
      BY <1>2, <1>4, <2>1, <2>2, <2>4, <3>1 DEF Measured
    <3> QED  BY <1>1, <1>5, <2>1, <2>2, <2>4, <3>1, <3>3, <3>4, <3>5 DEF Measured
  <2> QED  BY <2>3, <2>4
<1> QED  BY <1>1, <1>2, <1>7, <1>8, <1>11

\* A workspace is handed over: both accounts are measured, each by one measurement, and are
\* trusted afterwards only when nothing was at work on them.
LEMMA TransferKeeps ==
  ASSUME WorldTyped, Asks, MadeOnce, MeterInv, NEW p \in Rooms, NEW o \in Accounts, Counter!Transfer(p, o)
  PROVE  /\ WorldTyped' /\ Asks' /\ MadeOnce' /\ MeterInv' /\ scene.tasks # {}
         /\ WorkInv => WorkInv'
         /\ BooksInv => BooksInv'
<1>1. PICK old \in Accounts : old = holder[p]
  BY DEF WorldTyped, Counter!TypeOK
<1> DEFINE both == {old, o}
<1>2. PICK quiet \in BOOLEAN : quiet <=> \A x \in both : Counter!Quiet(x) /\ Counter!On({x}) = {}
  OBVIOUS
<1>3. PICK asked \in [Meters -> both \cup {Nobody}] :
        /\ \A x \in both : \E t \in scene.tasks : {u \in Meters : asked[u] = x} = {t}
        /\ Counter!Measure(asked, quiet)
        /\ crossed' = IF quiet THEN crossed ELSE crossed \cup both
  <2>1. quiet = \A x \in both : Counter!Quiet(x) /\ Counter!On({x}) = {}
    BY <1>2
  <2> QED  BY <1>1, <2>1 DEF Counter!Transfer, Counter!Remeasured
<1>4. /\ holder' = [holder EXCEPT ![p] = o] /\ old # o
      /\ UNCHANGED <<scene, size, place, counter, req, used, moves>>
  BY <1>1 DEF Counter!Transfer
<1>5. Starts(asked, quiet)
  <2>1. asked \in [Meters -> Accounts \cup {Nobody}]
    OBVIOUS
  <2> QED  BY <1>3, <2>1, MeasureMeans
<1>6. scene.tasks # {}
  BY <1>3
<1>7. Nobody \notin Accounts /\ old # Nobody /\ o # Nobody
  BY CounterAssumed
<1>8. /\ task' \in [Meters -> Tasked] /\ met \subseteq met' /\ met' \subseteq Accounts
      /\ Counter!Measuring' = Counter!Measuring \cup {t \in Meters : asked[t] # Nobody}
      /\ \A t \in Meters : asked[t] # Nobody =>
           /\ t \notin Counter!Measuring /\ task'[t].at = "start" /\ task'[t].who = asked[t]
           /\ task'[t].alone => quiet /\ \A u \in Counter!Measuring : task[u].who # asked[t]
           /\ ~task'[t].alone => asked[t] \in met'
      /\ \A t \in Counter!Measuring :
           /\ task'[t].who = task[t].who
           /\ task'[t].alone => task'[t] = task[t] /\ task[t].who \notin both
           /\ ~task'[t].alone => ~task[t].alone \/ task[t].who \in met'
  <2>1. \A x \in both : \E u \in Meters : asked[u] = x
    BY <1>3
  <2>2. \A w : (\A u \in Meters : asked[u] # w) => w \notin both
    BY <2>1
  <2> QED  BY <1>5, <2>2 DEF Starts
<1>9. \A t, u \in Meters : asked[t] # Nobody /\ asked[t] = asked[u] => t = u
  <2> SUFFICES ASSUME NEW t \in Meters, NEW u \in Meters, asked[t] # Nobody, asked[t] = asked[u] PROVE t = u
    OBVIOUS
  <2>1. asked[t] \in both
    OBVIOUS
  <2>2. PICK v : {i \in Meters : asked[i] = asked[t]} = {v}
    BY <1>3, <2>1
  <2> QED  BY <2>2
<1>10. \A x \in both : \E t \in Counter!Measuring' : task'[t].who = x
  <2> SUFFICES ASSUME NEW x \in both PROVE \E t \in Counter!Measuring' : task'[t].who = x
    OBVIOUS
  <2>1. PICK t \in Meters : asked[t] = x
    BY <1>3
  <2>2. asked[t] # Nobody
    BY <1>7, <2>1
  <2> QED  BY <1>8, <2>1, <2>2
<1>11. crossed' = (IF quiet THEN crossed ELSE crossed \cup both) /\ both \subseteq Accounts
  BY <1>3
<1>12. Trusted' \subseteq Trusted /\ (~quiet => \A x \in both : x \notin Trusted')
  BY <1>8, <1>11 DEF Trusted
\* The workspace's forms change from one account to the other.
<1>13. \A f \in Papers : Counter!Owner(f)' = Counter!Owner(f) \/ (Counter!Owner(f) = old /\ Counter!Owner(f)' = o)
  <2>1. holder \in [Rooms -> Accounts] /\ place \in [Papers -> Rooms]
    BY DEF WorldTyped, Counter!TypeOK
  <2> QED  BY <1>1, <1>4, <2>1 DEF Counter!Owner
<1>14. /\ \A d : FormFor(d)' = FormFor(d) /\ Due(d)' = Due(d) /\ (Counts(d)' <=> Counts(d))
       /\ \A d \in Docs : Payer(d)' = Payer(d) \/ (Payer(d) = old /\ Payer(d)' = o)
       /\ Docs' = Docs /\ Sized' = Sized /\ Active' = Active
  <2>1. \A d : FormFor(d)' = FormFor(d) /\ Due(d)' = Due(d) /\ (Counts(d)' <=> Counts(d))
    BY <1>4 DEF FormFor, Counter!FormOfDoc, Due, Counts
  <2>2. \A d \in Docs : Payer(d)' = Payer(d) \/ (Payer(d) = old /\ Payer(d)' = o)
    BY <1>13, <2>1, FormsFound DEF Payer
  <2>3. Docs' = Docs /\ Sized' = Sized /\ Active' = Active
    BY <1>4 DEF Docs, Counter!Docs, Sized, Active, Counter!Active
  <2> QED  BY <2>1, <2>2, <2>3
<1>15. \A x : x \notin both => DocsOf(x)' = DocsOf(x) /\ Counter!FormsOf(x)' = Counter!FormsOf(x)
  BY <1>13, <1>14 DEF DocsOf, Counter!FormsOf
<1>16. \A q \in Active : q \in Hands /\ req'[q] = req[q] /\ req[q].docs \subseteq Docs
         /\ \A d \in req[q].docs : Payer(d) \in Counter!Concerns(q)
  BY <1>4, RequestIs, FormsFound DEF Asks, Active, Counter!Active, Counter!Concerns, Payer, FormFor
\* What a request is at work on stays whose it is where the account is trusted.
<1>17. ASSUME NEW q \in Active, NEW d \in req[q].docs, {Payer(d), Payer(d)'} \cap Trusted' # {}
       PROVE  Payer(d)' = Payer(d)
  <2> SUFFICES ASSUME Payer(d)' # Payer(d) PROVE FALSE
    OBVIOUS
  <2>1. Payer(d) = old /\ Payer(d)' = o
    BY <1>14, <1>16
  <2>2. ~quiet
    BY <1>2, <1>16, <2>1 DEF Counter!Quiet, Active
  <2> QED  BY <1>12, <1>17, <2>1, <2>2
<1>18. ASSUME NEW x, Counter!Quiet(x), x \notin both \/ quiet
       PROVE  Counter!Quiet(x)'
  <2> SUFFICES ASSUME NEW q \in Active PROVE x \notin Counter!Concerns(q)'
    BY <1>14 DEF Counter!Quiet, Active
  <2>1. x \notin Counter!Concerns(q)
    BY <1>18 DEF Counter!Quiet, Active
  <2>2. Counter!Concerns(q)' = {Payer(d)' : d \in req[q].docs} \cup ({req[q].who} \ {Nobody})
    BY <1>16 DEF Counter!Concerns, Payer, FormFor
  <2>3. \A d \in req[q].docs : Payer(d)' # x
    <3> SUFFICES ASSUME NEW d \in req[q].docs, Payer(d)' = x PROVE FALSE
      OBVIOUS
    <3>1. Payer(d) # x
      BY <1>16, <2>1
    <3>2. Payer(d) = old /\ x = o
      BY <1>14, <1>16, <3>1
    <3>3. quiet
      BY <1>18, <3>2
    <3>4. old \notin Counter!Concerns(q)
      BY <1>2, <3>3 DEF Counter!Quiet, Active
    <3> QED  BY <1>16, <3>2, <3>4
  <2> QED  BY <2>1, <2>2, <2>3 DEF Counter!Concerns
<1>19. WorldTyped'
  <2>1. holder' \in [Rooms -> Accounts]
    BY <1>4 DEF WorldTyped, Counter!TypeOK
  <2>2. crossed' \subseteq Accounts
    BY <1>11 DEF WorldTyped, Counter!TypeOK
  <2>3. Counter!TypeOK'
    BY <1>4, <1>8, <2>1, <2>2 DEF WorldTyped, Counter!TypeOK
  <2>4. \A t \in Counter!Measuring' : task'[t].who \in Accounts
    <3>1. \A t \in Counter!Measuring : task'[t].who \in Accounts
      BY <1>8 DEF WorldTyped
    <3>2. \A t \in Meters : asked[t] # Nobody => task'[t].who \in Accounts
      BY <1>8, <1>11
    <3> QED  BY <1>8, <3>1, <3>2
  <2> QED  BY <1>4, <1>8, <2>3, <2>4 DEF WorldTyped, Tasked
<1>20. Asks' /\ MadeOnce'
  <2>1. Stages' = Stages /\ Counter!Kinds' = Counter!Kinds /\ (\A r : DocsFit(r)' = DocsFit(r)) /\ Docs' = Docs
        /\ \A d : FormFor(d)' = FormFor(d)
    BY DEF Docs, Counter!Docs, Stages, Counter!Kinds, DocsFit, Counter!Answers, FormFor, Counter!FormOfDoc
  <2>2. MadeOnce'
    BY <1>4, <2>1 DEF MadeOnce
  <2> SUFFICES ASSUME NEW q \in Hands PROVE Asked(req[q])'
    BY <2>2 DEF Asks
  <2>3. Asked(req[q])
    BY DEF Asks
  <2> QED  BY <1>4, <2>1, <2>3 DEF Asked
<1>21. MeterInv'
  <2> SUFFICES ASSUME NEW t \in Counter!Measuring' PROVE Measured(t)'
    BY DEF MeterInv
  <2>1. PICK w : w = task'[t].who
    OBVIOUS
  <2>2. CASE t \notin Counter!Measuring
    <3>1. t \in Meters /\ asked[t] # Nobody /\ w = asked[t] /\ w \in both
      BY <1>8, <2>1, <2>2
    <3>2. CASE ~task'[t].alone
      <4>1. w \notin Trusted'
        BY <1>8, <3>1, <3>2 DEF Trusted
      <4> QED  BY <2>1, <3>2, <4>1 DEF Measured
    <3>3. CASE task'[t].alone
      <4>1. quiet /\ \A u \in Counter!Measuring : task[u].who # w
        BY <1>8, <3>1, <3>3
      <4>2. Counter!Quiet(w)'
        BY <1>2, <1>18, <3>1, <4>1
      <4>3. \A u \in Counter!Measuring' : u # t => task'[u].who # w
        <5> SUFFICES ASSUME NEW u \in Counter!Measuring', u # t, task'[u].who = w PROVE FALSE
          OBVIOUS
        <5>1. u \notin Counter!Measuring
          BY <1>8, <4>1
        <5>2. u \in Meters /\ asked[u] # Nobody /\ asked[u] = w
          BY <1>8, <5>1
        <5> QED  BY <1>9, <3>1, <5>2
      <4>4. task'[t].at = "start"
        BY <1>8, <3>1
      <4> QED  BY <2>1, <3>3, <4>2, <4>3, <4>4 DEF Measured
    <3> QED  BY <3>2, <3>3
  <2>3. CASE t \in Counter!Measuring
    <3>1. Measured(t) /\ task[t].who = w
      BY <1>8, <2>1, <2>3 DEF MeterInv
    <3>2. CASE ~task'[t].alone
      <4>1. w \notin Trusted'
        BY <1>8, <1>12, <2>3, <3>1, <3>2 DEF Measured, Trusted
      <4> QED  BY <2>1, <3>2, <4>1 DEF Measured
    <3>3. CASE task'[t].alone
      <4>1. task'[t] = task[t] /\ w \notin both
        BY <1>8, <2>3, <3>1, <3>3
      <4>2. /\ Standing(w)' = Standing(w) /\ Counter!Sum(Standing(w))' = Counter!Sum(Standing(w))
            /\ Counter!Usage(w)' = Counter!Usage(w)
        BY <1>4, <1>15, <4>1, UsageStays
      <4>3. Counter!Quiet(w)'
        BY <1>18, <3>1, <3>3, <4>1 DEF Measured
      <4>4. \A u \in Counter!Measuring' : u # t => task'[u].who # w
        <5>1. \A u \in Counter!Measuring : u # t => task'[u].who # w
          BY <1>8, <3>1, <3>3, <4>1 DEF Measured
        <5>2. \A u \in Meters : asked[u] # Nobody => task'[u].who \in both
          BY <1>8
        <5> QED  BY <1>8, <4>1, <5>1, <5>2
      <4> QED  BY <1>4, <2>1, <3>1, <3>3, <4>1, <4>2, <4>3, <4>4 DEF Measured
    <3> QED  BY <3>2, <3>3
  <2> QED  BY <2>2, <2>3
<1>22. ASSUME WorkInv PROVE WorkInv'
  <2> SUFFICES ASSUME NEW q \in Active PROVE Works(q)'
    BY <1>14 DEF WorkInv, Active
  <2>1. Works(q)
    BY <1>22 DEF WorkInv, Active
  <2>2. \A r \in Active : Counter!Touches(r)' = Counter!Touches(r)
    BY <1>4 DEF Counter!Touches, Counter!Answers, Counter!FormOfDoc
  <2>3. ASSUME NEW r \in Active, r # q PROVE Apart(r, q)'
    <3>1. Apart(r, q)
      BY <2>1, <2>3 DEF Works, Active
    <3>2. ASSUME Counter!Touches(r) \cap Counter!Touches(q) # {}, NEW d \in req[q].docs PROVE Payer(d)' \notin Trusted'
      BY <1>12, <1>17, <3>1, <3>2 DEF Apart
    <3> QED  BY <1>16, <2>2, <3>2 DEF Apart
  <2>4. ASSUME NEW d \in req[q].docs, req[q].kind = "purge", d \in Papers, Payer(d)' \in Trusted',
               NEW r \in Counter!Answers({d})
        PROVE  size'[r] = 0
    <3>1. Payer(d) \in Trusted
      BY <1>12, <1>17, <2>4
    <3>2. size[r] = 0
      BY <2>1, <2>4, <3>1 DEF Works
    <3> QED  BY <1>4, <3>2
  <2>5. ASSUME NEW d \in req[q].docs, req[q].at = "count", {Payer(d)', req[q].who} \cap Trusted' # {}
        PROVE  Payer(d)' = req[q].who
    <3>1. CASE Payer(d)' \in Trusted'
      <4>1. Payer(d)' = Payer(d) /\ Payer(d) \in Trusted
        BY <1>12, <1>17, <3>1
      <4> QED  BY <2>1, <2>5, <4>1 DEF Works
    <3>2. CASE req[q].who \in Trusted'
      <4>1. Payer(d) = req[q].who
        BY <1>12, <2>1, <2>5, <3>2 DEF Works
      <4> QED  BY <1>17, <3>2, <4>1
    <3> QED  BY <2>5, <3>1, <3>2
  <2>6. \A d \in Papers : Counter!Answers({d})' = Counter!Answers({d})
    BY DEF Counter!Answers
  <2> QED  BY <1>14, <1>16, <2>3, <2>4, <2>5, <2>6 DEF Works, Active
<1>23. ASSUME BooksInv PROVE BooksInv'
  <2>1. PICK paid \in [Docs -> Sized] : Charged(paid)
    BY <1>23 DEF BooksInv
  <2>2. PICK new : new = [d \in Docs |-> IF Payer(d)' # Payer(d) THEN Due(d) ELSE paid[d]]
    OBVIOUS
  <2>3. new \in [Docs -> Sized]
    BY <2>1, <2>2, SizesTyped
  <2>4. \A d \in Docs : new[d] = IF Payer(d)' # Payer(d) THEN Due(d) ELSE paid[d]
    BY <2>2
  <2>5. ASSUME NEW x \in Trusted', \A t \in Counter!Measuring' : task'[t].who # x
        PROVE  counter'[x] = Total(new, DocsOf(x)')
    <3>1. x \notin both
      BY <1>10, <2>5
    <3>2. DocsOf(x)' = DocsOf(x)
      BY <1>15, <3>1
    <3>3. \A d \in DocsOf(x) : new[d] = paid[d]
      BY <1>14, <2>4, <3>1, <3>2 DEF DocsOf
    <3>4. \A t \in Counter!Measuring : task[t].who # x
      BY <1>8, <2>5
    <3>5. counter[x] = Total(paid, DocsOf(x))
      BY <1>12, <2>1, <3>4 DEF Charged
    <3>6. Total(new, DocsOf(x)) = Total(paid, DocsOf(x))
      BY <3>3, TotalSame
    <3> QED  BY <1>4, <3>2, <3>5, <3>6
  <2>6. ASSUME NEW d \in Docs, Payer(d)' \in Trusted', ~InWork(d)' PROVE new[d] = Due(d)'
    <3>1. ~InWork(d)
      BY <1>14, <1>16, <2>6 DEF InWork, Active
    <3>2. Payer(d)' = Payer(d) => paid[d] = Due(d)
      BY <1>12, <2>1, <2>6, <3>1 DEF Charged
    <3> QED  BY <1>14, <2>4, <3>2
  <2>7. ASSUME NEW q \in Active', NEW d \in req'[q].docs, Payer(d)' \in Trusted'
        PROVE  Accounted(req[q], d, new[d])'
    <3>1. q \in Active /\ req'[q] = req[q] /\ d \in req[q].docs /\ d \in Docs
      BY <1>14, <1>16, <2>7
    <3>2. Payer(d)' = Payer(d) /\ Payer(d) \in Trusted
      BY <1>12, <1>17, <2>7, <3>1
    <3>3. PICK k : k = req[q]
      OBVIOUS
    <3>4. Accounted(k, d, paid[d])
      BY <2>1, <3>1, <3>2, <3>3 DEF Charged, Active
    <3>5. Counter!Sum(k.docs)' = Counter!Sum(k.docs) /\ size'[d] = size[d]
      BY <1>4 DEF Counter!Sum
    <3>6. Accounted(k, d, paid[d])'
      BY <1>14, <3>4, <3>5, AccountedStays
    <3>7. new[d] = paid[d]
      BY <2>4, <3>1, <3>2
    <3> QED  BY <3>1, <3>3, <3>6, <3>7 DEF Accounted
  <2>8. Charged(new)'
    BY <1>14, <2>5, <2>6, <2>7 DEF Charged, Active
  <2> QED  BY <1>14, <2>3, <2>8 DEF BooksInv
<1> QED  BY <1>6, <1>19, <1>20, <1>21, <1>22, <1>23

-----------------------------------------------------------------------------
(* The invariant holds from the first state on.                                *)

\* At first every account stores what it is charged for, and nothing is under way.
LEMMA InitHolds == Counter!Init => CounterInv
<1> SUFFICES ASSUME Counter!Init PROVE CounterInv
  OBVIOUS
<1>1. /\ scene \in Counter!SceneTypes /\ used \in {{}, Papers}
      /\ size = [d \in Docs |-> IF d \in used THEN Least ELSE 0]
      /\ holder \in scene.holders /\ place \in scene.homes
      /\ counter = [o \in Accounts |-> Counter!Usage(o)] /\ \A o \in Accounts : counter[o] <= Counter!Ceiling
      /\ req = [q \in Hands |-> Counter!NoRequest] /\ task = [t \in Meters |-> Counter!NoTask]
      /\ crossed = {} /\ met = {} /\ moves = 0
  <2>1. Scenes \subseteq Counter!SceneTypes
    BY StorageConstants DEF Counter!StorageAssumption
  <2> QED  BY <2>1 DEF Counter!Init, Docs
<1>2. \A q \in Hands : req[q] = Counter!NoRequest /\ req[q].at = "done"
  BY <1>1 DEF Counter!NoRequest
<1>3. Active = {} /\ Counter!Active = {}
  BY <1>2 DEF Active, Counter!Active
<1>4. Counter!Measuring = {}
  BY <1>1 DEF Counter!Measuring, Counter!NoTask
<1>5. size \in [Docs -> Sized] /\ used \subseteq Docs /\ \A d \in Docs : size[d] # 0 => d \in Papers /\ d \in used
  BY <1>1, CounterAssumed DEF Sized
<1>6. \A o \in Accounts : Counter!Usage(o) \in Nat
  <2> SUFFICES ASSUME NEW o \in Accounts PROVE Counter!Usage(o) \in Nat
    OBVIOUS
  <2> DEFINE F == {f \in Counter!FormsOf(o) : Counter!Stored(f)}
             In == F \cup Counter!Answers(F)
  <2>1. In \subseteq Docs
    BY FormsFound, CounterAssumed DEF Counter!FormsOf
  <2>2. Sized \subseteq Nat
    BY CounterAssumed DEF Sized
  <2>3. Counter!Usage(o) = Total(size, In)
    BY SumIs DEF Counter!Usage
  <2> HIDE DEF In
  <2>4. IsFiniteSet(In)
    BY <2>1, CounterAssumed, FS_Subset
  <2>5. \A d \in In : size[d] \in Nat
    BY <1>5, <2>1, <2>2
  <2> QED  BY <2>3, <2>4, <2>5, TotalType
<1>7. WorldTyped
  <2>1. holder \in [Rooms -> Accounts] /\ place \in [Papers -> Rooms]
    BY <1>1 DEF Counter!SceneTypes
  <2>2. counter \in [Accounts -> Int]
    BY <1>1, <1>6
  <2>3. Counter!NoRequest \in Wants
    BY DEF Counter!NoRequest, Wants
  <2>4. req \in [Hands -> Wants]
    BY <1>1, <2>3
  <2>5. Counter!TypeOK
    BY <1>1, <1>5, <2>1, <2>2, <2>4 DEF Counter!TypeOK, Wants, Docs, Sized
  <2>6. Counter!NoTask \in Tasked
    BY DEF Counter!NoTask, Tasked
  <2>7. task \in [Meters -> Tasked]
    BY <1>1, <2>6
  <2> QED  BY <1>1, <1>4, <2>5, <2>7 DEF WorldTyped, Tasked
<1>8. MadeOnce
  BY <1>1, <1>2, <1>5, CounterAssumed DEF MadeOnce
<1>9. MeterInv /\ WorkInv /\ \A q \in Hands : Asked(req[q])
  BY <1>2, <1>3, <1>4 DEF MeterInv, WorkInv, Asked
<1>10. \A o \in Accounts : counter[o] = Total(Dues, DocsOf(o))
  BY <1>1, <1>7, UsageIs
<1>11. BooksInv
  <2>1. Dues \in [Docs -> Sized] /\ \A d \in Docs : Dues[d] = Due(d)
    BY <1>7, SizesTyped DEF Dues
  <2>2. Charged(Dues)
    BY <1>3, <1>10, <2>1 DEF Charged, Trusted
  <2> QED  BY <2>1, <2>2 DEF BooksInv
<1>12. RoomInv
  <2>1. Coming = {}
    BY <1>3 DEF Coming
  <2>2. \A d \in Docs : size[d] # 0 => Counts(d) /\ Due(d) = Least
    BY <1>1, <1>5 DEF Counts, Due
  <2>3. ASSUME NEW o \in Trusted
        PROVE  Least * Cardinality(Here(o)) <= Counter!Ceiling + Least * Cardinality(Hands)
    <3>1. Here(o) \in SUBSET DocsOf(o) /\ \A d \in Here(o) : d \in Docs /\ size[d] # 0
      BY <2>1 DEF Here, DocsOf
    <3>2. IsFiniteSet(DocsOf(o)) /\ \A d \in DocsOf(o) : Dues[d] \in Nat
      <4>1. DocsOf(o) \subseteq Docs
        BY DEF DocsOf
      <4> QED  BY <1>7, <4>1, CounterAssumed, FS_Subset, SizesTyped DEF Dues
    <3>3. Least \in Nat /\ \A d \in Here(o) : Dues[d] >= Least
      <4>1. Least \in Nat
        BY CounterAssumed
      <4>2. \A d \in Here(o) : Dues[d] = Least
        BY <2>2, <3>1 DEF Dues
      <4> QED  BY <4>1, <4>2
    <3>4. Cardinality(Here(o)) \in Nat /\ Least * Cardinality(Here(o)) <= Total(Dues, DocsOf(o))
      BY <3>1, <3>2, <3>3, TotalLeast
    <3>5. Total(Dues, DocsOf(o)) \in Nat
      BY <3>2, TotalType
    <3>6. Total(Dues, DocsOf(o)) <= Counter!Ceiling
      BY <1>1, <1>10 DEF Trusted
    <3>7. Counter!Ceiling \in Int
      BY <1>1 DEF Counter!SceneTypes, Counter!Ceiling
    <3>8. Cardinality(Hands) \in Nat
      BY CounterAssumed, FS_CardinalityType
    <3>9. Least * Cardinality(Hands) \in Nat /\ Least * Cardinality(Here(o)) \in Nat
      BY <3>3, <3>4, <3>8
    <3> QED  BY <3>4, <3>5, <3>6, <3>7, <3>9
  <2> QED  BY <1>4, <2>1, <2>2, <2>3 DEF RoomInv
<1> QED  BY <1>7, <1>8, <1>9, <1>11, <1>12 DEF CounterInv

\* Every step keeps it.
LEMMA CounterInductive == CounterInv /\ [Counter!Next]_storageVars => CounterInv'
<1> SUFFICES ASSUME CounterInv, [Counter!Next]_storageVars PROVE CounterInv'
  OBVIOUS
<1>1. WorldTyped /\ Asks /\ MadeOnce /\ MeterInv
  BY DEF CounterInv, Asks
<1>2. /\ moves = 0 => WorkInv /\ BooksInv
      /\ moves = 0 /\ scene.tasks = {} => WorkInv /\ BooksInv /\ RoomInv
  BY DEF CounterInv
<1>3. moves \in Nat /\ scene.requests \subseteq Hands /\ scene.tasks \subseteq Meters /\ scene.handed \subseteq Rooms
  BY <1>1 DEF WorldTyped, Counter!SceneTypes
<1>4. ASSUME WorldTyped', Asks', MadeOnce', MeterInv', moves' = 0 => WorkInv' /\ BooksInv',
             moves' = 0 /\ scene'.tasks = {} => RoomInv'
      PROVE  CounterInv'
  BY <1>4 DEF CounterInv, Asks
<1>5. ASSUME NEW q \in Hands, Counter!Arrive(q) PROVE CounterInv'
  <2>1. PICK r : Lets(q, r)
    BY <1>1, <1>5, ArriveMeans DEF Lets
  <2>2. WorldTyped' /\ Asks' /\ MadeOnce' /\ MeterInv'
    BY <1>1, <2>1, ArriveTyped
  <2>3. UNCHANGED <<scene, moves>>
    BY <2>1 DEF Lets, Counter!Begin
  <2>4. moves = 0 => WorkInv' /\ BooksInv'
    BY <1>1, <1>2, <2>1, ArriveWork, ArriveBooks
  <2>5. moves = 0 /\ scene.tasks = {} => RoomInv'
    BY <1>1, <1>2, <2>1, ArriveRoom
  <2> QED  BY <1>4, <2>2, <2>3, <2>4, <2>5
<1>6. ASSUME NEW q \in Hands, Counter!Serve(q) PROVE CounterInv'
  <2>1. WorldTyped' /\ Asks' /\ MadeOnce' /\ MeterInv'
    BY <1>1, <1>6, DeskTyped, DeskMeters
  <2>2. UNCHANGED <<scene, moves>>
    BY <1>1, <1>6, DeskStep DEF Apartments
  <2>3. moves = 0 => WorkInv'
    BY <1>1, <1>2, <1>6, DeskWork
  <2>4. moves = 0 => BooksInv'
    BY <1>1, <1>2, <1>6, BeforeBooks, WriteBooks, AfterBooks, ChargeBooks, AdjustBooks, DeleteBooks DEF Counter!Serve
  <2>5. moves = 0 /\ scene.tasks = {} => RoomInv'
    BY <1>1, <1>2, <1>6, DeskRoom
  <2> QED  BY <1>4, <2>1, <2>2, <2>3, <2>4, <2>5
<1>7. ASSUME NEW q \in Hands, Counter!Crash(q) PROVE CounterInv'
  <2>1. /\ WorldTyped' /\ Asks' /\ MadeOnce' /\ MeterInv'
        /\ Active' = Active \ {q} /\ \A p \in Hands : p # q => req'[p] = req[p]
        /\ UNCHANGED <<scene, size, place, holder, moves>>
        /\ Trusted' = Trusted \ Counter!Concerns(q)
    BY <1>1, <1>7, CrashTyped
  <2>2. Trusted' \subseteq Trusted /\ Active' \subseteq Active /\ \A p \in Active' : req'[p] = req[p]
    BY <2>1 DEF Active, Counter!Active
  <2>3. moves = 0 => WorkInv'
    BY <1>2, <2>1, <2>2, FewerTrusted
  <2>4. moves = 0 => BooksInv'
    BY <1>1, <1>2, <1>7, CrashBooks
  <2>5. moves = 0 /\ scene.tasks = {} => RoomInv'
    BY <1>1, <1>2, <1>7, CrashRoom
  <2> QED  BY <1>4, <2>1, <2>3, <2>4, <2>5
<1>8. ASSUME NEW f \in Papers, NEW p \in Rooms, Counter!MoveForm(f, p) PROVE CounterInv'
  BY <1>1, <1>4, <1>8, MoveKeeps
<1>9. ASSUME NEW p \in Rooms, NEW o \in Accounts, Counter!Transfer(p, o) PROVE CounterInv'
  <2>1. UNCHANGED <<scene, moves>>
    BY <1>9 DEF Counter!Transfer
  <2> QED  BY <1>1, <1>2, <1>4, <1>9, <2>1, TransferKeeps
<1>10. ASSUME NEW t \in scene.tasks, (\E o \in Accounts : Counter!Daily(t, o)) \/ Counter!Reconcile(t) PROVE CounterInv'
  <2>1. t \in Meters /\ scene.tasks # {}
    BY <1>3
  <2>2. ASSUME UNCHANGED <<scene, moves>>, WorldTyped', Asks', MadeOnce', MeterInv',
               WorkInv => WorkInv', BooksInv => BooksInv'
        PROVE  CounterInv'
    BY <1>2, <1>4, <2>1, <2>2
  <2>3. ASSUME NEW o \in Accounts, Counter!Daily(t, o) PROVE CounterInv'
    <3>1. UNCHANGED <<scene, moves>>
      BY <2>3 DEF Counter!Daily, Counter!bounds
    <3> QED  BY <1>1, <2>1, <2>2, <2>3, <3>1, DailyKeeps
  <2>4. CASE Going(t)
    <3>1. UNCHANGED <<scene, moves>>
      BY <2>4 DEF Going, Counter!ReadStored, Counter!ReadForms, Counter!SumForms, Counter!SumResponses,
                  Counter!ReadAgain, Counter!Correct, Counter!Step, Counter!bounds
    <3> QED  BY <1>1, <2>1, <2>2, <2>4, <3>1, GoingKeeps
  <2>5. CASE Counter!Finish(t)
    <3>1. UNCHANGED <<scene, moves>>
      BY <2>5 DEF Counter!Finish, Counter!bounds
    <3> QED  BY <1>1, <2>1, <2>2, <2>5, <3>1, FinishKeeps
  <2> QED  BY <1>10, <2>3, <2>4, <2>5 DEF Counter!Reconcile, Going
<1>11. CASE UNCHANGED storageVars
  <2>1. WorldTyped' /\ MadeOnce' /\ (\A q \in Hands : Asked(req[q]))' /\ MeterInv'
    <3>1. WorldTyped'
      BY <1>1, <1>11 DEF storageVars, WorldTyped, Counter!TypeOK, Counter!Measuring
    <3>2. UNCHANGED <<scene, size, place, holder, req, used, moves>> /\ Trusted' \subseteq Trusted
          /\ \A o \in Trusted' : (\A t \in Counter!Measuring' : task'[t].who # o) => Settling(o) /\ counter'[o] = counter[o]
      BY <1>11 DEF storageVars, Trusted, Settling, Counter!Measuring
    <3>3. Asks' /\ MadeOnce'
      BY <1>1, <3>2, RestStays
    <3>4. MeterInv'
      <4>1. /\ \A o : Counter!FormsOf(o)' = Counter!FormsOf(o) /\ Counter!Quiet(o)' = Counter!Quiet(o)
            /\ Counter!Measuring' = Counter!Measuring /\ Trusted' = Trusted
        BY <1>11 DEF storageVars, Counter!FormsOf, Counter!Owner, Counter!Quiet, Counter!Active, Counter!Concerns,
                     Counter!FormOfDoc, Counter!Measuring, Trusted
      <4>2. ASSUME NEW t \in Counter!Measuring PROVE Measured(t)'
        <5>1. PICK k : k = task[t]
          OBVIOUS
        <5>2. /\ Standing(k.who)' = Standing(k.who) /\ Counter!Sum(Standing(k.who))' = Counter!Sum(Standing(k.who))
              /\ Counter!Usage(k.who)' = Counter!Usage(k.who)
          BY <1>11, <4>1, UsageStays DEF storageVars
        <5>3. Measured(t) /\ task' = task /\ counter' = counter
          BY <1>1, <1>11, <4>2 DEF MeterInv, storageVars
        <5> QED  BY <4>1, <5>1, <5>2, <5>3 DEF Measured
      <4> QED  BY <4>1, <4>2 DEF MeterInv
    <3> QED  BY <3>1, <3>3, <3>4 DEF Asks
  <2>2. (WorkInv => WorkInv') /\ (BooksInv => BooksInv')
    <3>1. UNCHANGED <<scene, size, place, holder, req, used, moves>> /\ Trusted' \subseteq Trusted
          /\ \A o \in Trusted' : (\A t \in Counter!Measuring' : task'[t].who # o) => Settling(o) /\ counter'[o] = counter[o]
      BY <1>11 DEF storageVars, Trusted, Settling, Counter!Measuring
    <3> QED  BY <1>1, <3>1, RestStays
  <2>3. RoomInv => RoomInv'
    <3>1. \A o : Here(o)' = Here(o)
      BY <1>11 DEF storageVars, Here, DocsOf, Payer, FormFor, Counter!FormOfDoc, Counter!Owner, Coming, Counter!Active,
                   Counter!Leaving, Docs, Counter!Docs
    <3>2. Counter!Ceiling' = Counter!Ceiling /\ Counter!Measuring' = Counter!Measuring /\ Trusted' = Trusted
      BY <1>11 DEF storageVars, Counter!Ceiling, Counter!Measuring, Trusted
    <3>3. \A d \in Docs : /\ Payer(d)' = Payer(d) /\ (Counts(d)' <=> Counts(d)) /\ size'[d] = size[d]
                          /\ (d \in Coming' <=> d \in Coming)
      BY <1>11 DEF storageVars, Payer, FormFor, Counter!FormOfDoc, Counter!Owner, Counts, Coming, Counter!Active
    <3> QED  BY <3>1, <3>2, <3>3 DEF RoomInv, Docs, Counter!Docs
  <2> QED  BY <1>2, <1>4, <1>11, <2>1, <2>2, <2>3 DEF storageVars, Asks
<1> QED  BY <1>3, <1>5, <1>6, <1>7, <1>8, <1>9, <1>10, <1>11 DEF Counter!Next, Counter!vars, storageVars

\* It says what is wanted: an account that is trusted and at rest has its usage on its counter,
\* and what it holds is here.
LEMMA CounterMeans == CounterInv => CounterHolds
<1> SUFFICES ASSUME CounterInv PROVE CounterHolds
  OBVIOUS
<1>1. WorldTyped /\ Asks
  BY DEF CounterInv, Asks
<1>2. ASSUME moves = 0, NEW o \in Accounts, Counter!Settled(o), o \notin crossed \cup met
      PROVE  counter[o] = Counter!Usage(o)
  <2>1. PICK paid \in [Docs -> Sized] : Charged(paid)
    BY <1>2 DEF CounterInv, BooksInv
  <2>2. o \in Trusted /\ Counter!Quiet(o) /\ \A t \in Counter!Measuring : task[t].who # o
    BY <1>2 DEF Trusted, Counter!Settled
  <2>3. counter[o] = Total(paid, DocsOf(o))
    BY <2>1, <2>2 DEF Charged
  <2>4. \A d \in DocsOf(o) : paid[d] = Dues[d]
    <3> SUFFICES ASSUME NEW d \in DocsOf(o) PROVE paid[d] = Dues[d]
      OBVIOUS
    <3>1. d \in Docs /\ Payer(d) = o
      BY DEF DocsOf
    <3>2. ~InWork(d)
      <4> SUFFICES ASSUME NEW q \in Counter!Active, d \in req[q].docs PROVE FALSE
        BY DEF InWork
      <4>1. o \in Counter!Concerns(q)
        BY <3>1 DEF Counter!Concerns, Payer, FormFor
      <4> QED  BY <2>2, <4>1 DEF Counter!Quiet
    <3> QED  BY <2>1, <2>2, <3>1, <3>2 DEF Charged, Dues
  <2>5. Total(paid, DocsOf(o)) = Total(Dues, DocsOf(o))
    BY <2>4, TotalSame
  <2> QED  BY <1>1, <2>3, <2>5, UsageIs
<1>3. ASSUME moves = 0, scene.tasks = {}, NEW o \in Accounts \ (crossed \cup met)
      PROVE  Least * Counter!Cardinality(Counter!Held(o)) <= Counter!Ceiling + Least * Counter!Cardinality(Hands)
  <2>1. o \in Trusted /\ RoomInv
    BY <1>3 DEF CounterInv, Trusted
  <2>2. Least * Cardinality(Here(o)) <= Counter!Ceiling + Least * Cardinality(Hands)
    BY <2>1 DEF RoomInv
  <2>3. Counter!Held(o) \in SUBSET Here(o)
    BY DEF Counter!Held, Here, DocsOf, Docs, Payer, FormFor, Counter!Stored
  <2>4. Cardinality(Here(o)) \in Nat /\ Cardinality(Counter!Held(o)) \in Nat
        /\ Least * Cardinality(Counter!Held(o)) <= Least * Cardinality(Here(o))
    BY <2>3, HereFinite, LessRoom
  <2>5. Cardinality(Hands) \in Nat /\ Least \in Nat
    BY CounterAssumed, FS_CardinalityType
  <2>6. Counter!Ceiling \in Int
    BY <1>1 DEF WorldTyped, Counter!SceneTypes, Counter!Ceiling
  <2>7. Least * Cardinality(Hands) \in Nat /\ Least * Cardinality(Here(o)) \in Nat
        /\ Least * Cardinality(Counter!Held(o)) \in Nat
    BY <2>4, <2>5
  <2>8. Least * Cardinality(Counter!Held(o)) <= Counter!Ceiling + Least * Cardinality(Hands)
    BY <2>2, <2>4, <2>6, <2>7
  <2> QED  BY <2>8, SameCount
<1>4. Counter!TypeOK
  BY <1>1 DEF WorldTyped
<1> QED  BY <1>2, <1>3, <1>4 DEF CounterHolds, Counter!CounterHolds, Counter!CounterIsUsage, Counter!OverageBounded

\* An account that is trusted and at rest has exactly its usage on its counter, and none holds
\* more than its ceiling and one document for every request: for any accounts, workspaces, forms,
\* answers, sizes, requests and measurements, and whatever the scenes allow.
THEOREM CounterKept == StorageSpec => []CounterHolds
<1>1. CounterInv /\ [Counter!Next]_storageVars => CounterInv'
  BY CounterInductive
<1> QED  BY <1>1, InitHolds, CounterMeans, PTL DEF StorageSpec

-----------------------------------------------------------------------------
(* The trash: what still refers to a form or a response that is gone.          *)

USE RetentionAssumption

FormPlaces == {"ids", "hanging", "responses", "setup", "row"}
ResponsePlaces == {"rhanging", "rrow"}
Jobs == [kind: {"idle", "item", "empty", "sweep"} \cup Endings, at: Places, forms: SUBSET Forms,
         resps: SUBSET Responses, target: Forms \cup Responses \cup {None}, ids: SUBSET Responses]

\* A purge that is at something is at a form or a response of its own kind; the
\* timer never ends a workspace.
JobsTyped ==
  /\ job \in [Actors -> Jobs]
  /\ pending \in [Responses -> {None, "submission", "note"}]
  /\ \A a \in Actors :
       /\ job[a].at \in FormPlaces => job[a].target \in Forms
       /\ job[a].at \in ResponsePlaces => job[a].target \in Responses
       /\ job[a].kind \in Endings => a \notin Timers
       /\ job[a].at \in {"members", "space"} => job[a].kind \in Endings

\* What is written for a response before and after it is submitted.
WritesInv ==
  \A r \in Responses :
    /\ pending[r] = "submission" => resp[r] = "none"
    /\ pending[r] = "note" => resp[r] # "none"
    /\ r \in files \cup hanging => resp[r] # "none"
    /\ resp[r] = "gone" /\ r \notin late => r \notin files \cup hanging

\* Nothing is left of a form, but for what was written late.
Clean(f) ==
  late \cap InForm(f) = {} =>
    /\ f \notin setup
    /\ \A r \in InForm(f) : ~Stored(r) /\ r \notin files \cup hanging

\* What the purge of a form has behind it at each step.
FormPurge(a) ==
  LET f == job[a].target
      Mine == InForm(f) \ late
  IN /\ job[a].at \in FormPlaces => Mine \cap files = {}
     /\ job[a].at = "hanging" => Mine \cap hanging \subseteq job[a].ids
     /\ job[a].at \in {"responses", "setup", "row"} => Mine \cap hanging = {}
     /\ job[a].at \in {"setup", "row"} => \A r \in Mine : ~Stored(r)
     /\ job[a].at = "row" => Clean(f)

\* The same of the purge of a response.
ResponsePurge(a) ==
  job[a].at \in ResponsePlaces /\ job[a].target \notin late =>
    /\ job[a].target \notin files
    /\ job[a].at = "rrow" => job[a].target \notin hanging

\* The end of a workspace has the forms behind it that it no longer lists.
EndPurge(a) ==
  job[a].kind \in Endings =>
    \A f \in Forms \ job[a].forms : (job[a].at \in FormPlaces /\ job[a].target = f) \/ Clean(f)

OrphanInv ==
  /\ TypeOK /\ JobsTyped /\ WritesInv
  /\ \A f \in Forms : form[f] = "gone" => Clean(f)
  /\ \A a \in Actors : FormPurge(a) /\ ResponsePurge(a) /\ EndPurge(a)

\* What a timer has in hand has expired.
RipeInv ==
  /\ expired \subseteq ripe
  /\ \A a \in Timers :
       /\ job[a].forms \subseteq ripe
       /\ job[a].at \in FormPlaces => job[a].target \in ripe
-----------------------------------------------------------------------------
(* Steps that only take away. *)

\* Nothing is added, and nothing that was gone comes back.
Shrinks ==
  /\ files' \subseteq files /\ hanging' \subseteq hanging /\ setup' \subseteq setup /\ late' = late
  /\ \A r \in Responses : Stored(r)' => Stored(r)

\* What was cleaned stays clean.
LEMMA CleanStays ==
  ASSUME Shrinks, NEW f \in Forms, Clean(f)
  PROVE  Clean(f)'
BY DEF Shrinks, Clean, InForm

\* A purge that does not move keeps what it has behind it.
LEMMA OthersKeep ==
  ASSUME Shrinks, JobsTyped, NEW b \in Actors, job'[b] = job[b],
         FormPurge(b), ResponsePurge(b), EndPurge(b)
  PROVE  FormPurge(b)' /\ ResponsePurge(b)' /\ EndPurge(b)'
<1>1. FormPurge(b)'
  <2>1. job[b].at = "row" => job[b].target \in Forms
    BY DEF JobsTyped, FormPlaces
  <2> QED  BY <2>1, CleanStays DEF FormPurge, Shrinks, InForm
<1>2. ResponsePurge(b)'
  BY DEF ResponsePurge, Shrinks
<1>3. EndPurge(b)'
  BY CleanStays DEF EndPurge
<1> QED  BY <1>1, <1>2, <1>3

\* The writes stay in order when a response is trashed, restored, or removed clean.
LEMMA WritesKeep ==
  ASSUME Shrinks, WritesInv, UNCHANGED pending,
         \A r \in Responses :
           \/ resp'[r] = resp[r]
           \/ Stored(r) /\ resp'[r] \in {"live", "trash"}
           \/ Stored(r) /\ resp'[r] = "gone" /\ (r \in late \/ r \notin files' \cup hanging')
  PROVE  WritesInv'
BY DEF WritesInv, Shrinks, Stored

\* One purge moves, and nothing is added.
LEMMA PurgeMoves ==
  ASSUME OrphanInv, NEW a \in Actors, NEW j \in Jobs, job' = [job EXCEPT ![a] = j],
         j.at \in FormPlaces => j.target \in Forms,
         j.at \in ResponsePlaces => j.target \in Responses,
         j.kind \in Endings => a \notin Timers,
         j.at \in {"members", "space"} => j.kind \in Endings,
         Shrinks, UNCHANGED pending, TypeOK', WritesInv',
         \A f \in Forms : form'[f] = "gone" => form[f] = "gone" \/ Clean(f)',
         FormPurge(a)', ResponsePurge(a)', EndPurge(a)'
  PROVE  OrphanInv'
<1>1. job'[a] = j /\ \A b \in Actors : b # a => job'[b] = job[b]
  BY DEF OrphanInv, JobsTyped
<1>2. job' \in [Actors -> Jobs]
  BY DEF OrphanInv, JobsTyped
<1>3. JobsTyped'
  <2>1. pending' \in [Responses -> {None, "submission", "note"}]
    BY DEF OrphanInv, JobsTyped
  <2>2. ASSUME NEW b \in Actors
        PROVE  /\ job'[b].at \in FormPlaces => job'[b].target \in Forms
               /\ job'[b].at \in ResponsePlaces => job'[b].target \in Responses
               /\ job'[b].kind \in Endings => b \notin Timers
               /\ job'[b].at \in {"members", "space"} => job'[b].kind \in Endings
    BY <1>1 DEF OrphanInv, JobsTyped
  <2>3. Jobs' = Jobs
    BY DEF Jobs, Places, Endings
  <2> QED  BY <1>2, <2>1, <2>2, <2>3 DEF JobsTyped
<1>4. \A f \in Forms : form'[f] = "gone" => Clean(f)'
  BY CleanStays DEF OrphanInv
<1>5. \A b \in Actors : FormPurge(b)' /\ ResponsePurge(b)' /\ EndPurge(b)'
  BY <1>1, OthersKeep DEF OrphanInv
<1> QED  BY <1>3, <1>4, <1>5 DEF OrphanInv

\* No purge moves, and nothing is added.
LEMMA PurgesRest ==
  ASSUME OrphanInv, UNCHANGED job, Shrinks, TypeOK', WritesInv',
         pending' \in [Responses -> {None, "submission", "note"}],
         \A f \in Forms : form'[f] = "gone" => form[f] = "gone"
  PROVE  OrphanInv'
<1>1. JobsTyped'
  BY DEF OrphanInv, JobsTyped
<1>2. \A f \in Forms : form'[f] = "gone" => Clean(f)'
  BY CleanStays DEF OrphanInv
<1>3. \A b \in Actors : FormPurge(b)' /\ ResponsePurge(b)' /\ EndPurge(b)'
  BY OthersKeep DEF OrphanInv
<1> QED  BY <1>1, <1>2, <1>3 DEF OrphanInv
-----------------------------------------------------------------------------
(* The steps beside the purges. *)

\* A write that is stored is on record as late wherever it could matter.
LEMMA StoreKeeps ==
  ASSUME OrphanInv, NEW r \in Responses, StoreWrite(r)
  PROVE  OrphanInv'
<1> USE DEF OrphanInv, rows, kept
<1>0. Of[r] \in Forms /\ r \in InForm(Of[r]) /\ job' = job /\ form' = form
  BY DEF InForm, StoreWrite
<1>1. TypeOK' /\ JobsTyped'
  <2>1. /\ files' \cup hanging' \cup late' \subseteq Responses /\ setup' \subseteq Forms
        /\ resp' \in [Responses -> {"none", "live", "trash", "gone"}]
        /\ pending' \in [Responses -> {None, "submission", "note"}]
    BY <1>0 DEF StoreWrite, TypeOK, JobsTyped
  <2>2. \A q \in Responses : resp[q] = "trash" => resp'[q] = "trash"
    BY DEF StoreWrite, TypeOK, WritesInv
  <2> QED  BY <1>0, <2>1, <2>2 DEF StoreWrite, TypeOK, JobsTyped
<1>2. WritesInv'
  <2>1. /\ pending' = [pending EXCEPT ![r] = None] /\ late \subseteq late'
        /\ resp[r] = "gone" => r \in late'
    BY DEF StoreWrite
  <2>2. CASE pending[r] = "submission"
    <3>1. resp' = [resp EXCEPT ![r] = "live"] /\ files' = files \cup {r} /\ hanging' = hanging
      BY <2>2 DEF StoreWrite
    <3> QED  BY <2>1, <3>1 DEF TypeOK, WritesInv, JobsTyped, None
  <2>3. CASE pending[r] # "submission"
    <3>1. resp' = resp /\ files' = files /\ hanging' = hanging \cup {r} /\ pending[r] = "note"
      BY <2>3 DEF StoreWrite, JobsTyped
    <3> QED  BY <2>1, <3>1 DEF TypeOK, WritesInv, JobsTyped, None
  <2> QED  BY <2>2, <2>3
<1>3. /\ files' \subseteq files \cup {r} /\ hanging' \subseteq hanging \cup {r} /\ setup' \subseteq setup \cup {Of[r]}
      /\ late \subseteq late' /\ \A q \in Responses : q # r => Stored(q)' = Stored(q)
  BY DEF StoreWrite, TypeOK, Stored
<1>4. r \in late' \/ (form[Of[r]] # "gone" /\ ~Ending /\ \A a \in Actors : job[a].target # Of[r] /\ job[a].target # r)
  BY DEF StoreWrite, Busy
<1>5. ASSUME NEW f \in Forms, f # Of[r], Clean(f) PROVE Clean(f)'
  BY <1>3, <1>5 DEF Clean, InForm
<1>6. r \in late' => Clean(Of[r])'
  BY <1>0 DEF Clean, InForm
<1>7. \A f \in Forms : form'[f] = "gone" => Clean(f)'
  BY <1>0, <1>4, <1>5, <1>6
<1>8. ASSUME NEW a \in Actors PROVE FormPurge(a)' /\ ResponsePurge(a)' /\ EndPurge(a)'
  <2>1. FormPurge(a)'
    <3>1. r \in late' \/ job[a].at \notin FormPlaces \/ (job[a].target \in Forms /\ job[a].target # Of[r])
      BY <1>4 DEF JobsTyped
    <3>2. job[a].at = "row" => job[a].target \in Forms /\ (Clean(job[a].target) => Clean(job[a].target)')
      BY <1>0, <1>4, <1>5, <1>6 DEF JobsTyped, FormPlaces
    <3> QED  BY <1>0, <1>3, <3>1, <3>2 DEF FormPurge, InForm, FormPlaces
  <2>2. ResponsePurge(a)'
    BY <1>0, <1>3, <1>4 DEF ResponsePurge
  <2>3. EndPurge(a)'
    BY <1>0, <1>4, <1>5, <1>6 DEF EndPurge, Ending
  <2> QED  BY <2>1, <2>2, <2>3
<1> QED  BY <1>1, <1>2, <1>7, <1>8

\* What members and time do: a check, trashing, restoring, expiring.
LEMMA DesksKeep ==
  ASSUME OrphanInv,
         \/ \E r \in Responses : CheckWrite(r) \/ TrashResponse(r) \/ RestoreResponse(r)
         \/ \E f \in Forms : TrashForm(f) \/ RestoreForm(f)
         \/ \E x \in Forms \cup Responses : Expire(x)
  PROVE  OrphanInv'
<1> USE DEF OrphanInv, rows, kept, Shrinks
<1>1. ASSUME NEW r \in Responses, CheckWrite(r) PROVE OrphanInv'
  <2>1. TypeOK' /\ WritesInv' /\ pending' \in [Responses -> {None, "submission", "note"}]
    BY <1>1 DEF CheckWrite, TypeOK, WritesInv, JobsTyped
  <2>2. Shrinks /\ UNCHANGED <<job, form>>
    BY <1>1 DEF CheckWrite, Stored
  <2> QED  BY <2>1, <2>2, PurgesRest
<1>2. ASSUME NEW r \in Responses, TrashResponse(r) \/ RestoreResponse(r) PROVE OrphanInv'
  <2>1. TypeOK' /\ UNCHANGED <<pending, job, form>>
    BY <1>2 DEF TrashResponse, RestoreResponse, TypeOK
  <2>2. Shrinks
    BY <1>2 DEF TrashResponse, RestoreResponse, TypeOK, Stored
  <2>3. WritesInv'
    BY <1>2, <2>1 DEF TrashResponse, RestoreResponse, WritesInv, TypeOK
  <2> QED  BY <2>1, <2>2, <2>3, PurgesRest DEF JobsTyped
<1>3. ASSUME NEW f \in Forms, TrashForm(f) \/ RestoreForm(f) PROVE OrphanInv'
  <2>1. TypeOK' /\ UNCHANGED <<pending, job, resp, files, hanging, setup, late>>
    BY <1>3 DEF TrashForm, RestoreForm, TypeOK
  <2>2. Shrinks /\ WritesInv'
    BY <2>1 DEF Stored, WritesInv
  <2>3. \A g \in Forms : form'[g] = "gone" => form[g] = "gone"
    BY <1>3 DEF TrashForm, RestoreForm, TypeOK
  <2> QED  BY <2>1, <2>2, <2>3, PurgesRest DEF JobsTyped
<1>4. ASSUME NEW x \in Forms \cup Responses, Expire(x) PROVE OrphanInv'
  <2>1. TypeOK' /\ UNCHANGED <<pending, job, resp, files, hanging, setup, late, form>>
    BY <1>4 DEF Expire, TypeOK
  <2>2. Shrinks /\ WritesInv'
    BY <2>1 DEF Stored, WritesInv
  <2> QED  BY <2>1, <2>2, PurgesRest DEF JobsTyped
<1> QED  BY <1>1, <1>2, <1>3, <1>4
-----------------------------------------------------------------------------
(* The steps of a purge. *)

\* A purge that begins, reads its ids or its responses, or ends moves only itself.
LEMMA BeginKeeps ==
  ASSUME OrphanInv, NEW a \in Actors,
         PurgeItem(a) \/ EmptyTrash(a) \/ Sweep(a) \/ DeleteWorkspace(a) \/ CloseAccount(a)
  PROVE  OrphanInv'
<1> USE DEF OrphanInv, rows, kept
<1> DEFINE Begun ==
             \E j \in Jobs :
               /\ job' = [job EXCEPT ![a] = j] /\ j.at = "next"
               /\ j.kind \in Endings => a \notin Timers /\ j.forms = {f \in Forms : form[f] # "gone"}
<1>0. Begun
  <2>1. ASSUME NEW kind \in {"item", "empty", "sweep"} \cup Endings, NEW fs \in SUBSET Forms,
               NEW rs \in SUBSET Responses, job' = [job EXCEPT ![a] = Purge(kind, fs, rs)],
               kind \in Endings => a \notin Timers /\ fs = {f \in Forms : form[f] # "gone"}
        PROVE  Begun
    <3>1. /\ Purge(kind, fs, rs) \in Jobs /\ Purge(kind, fs, rs).at = "next"
          /\ Purge(kind, fs, rs).kind = kind /\ Purge(kind, fs, rs).forms = fs
      BY DEF Purge, Idle, Jobs, Places, Endings, None
    <3> HIDE DEF Purge
    <3> QED  BY <2>1, <3>1
  <2> HIDE DEF Begun
  <2>2. "workspace" \in Endings /\ "account" \in Endings /\ {"item", "empty", "sweep"} \cap Endings = {}
    BY DEF Endings
  <2>3. CASE PurgeItem(a)
    <3>1. PICK fs \in SUBSET Forms, rs \in SUBSET Responses : job' = [job EXCEPT ![a] = Purge("item", fs, rs)]
      BY <2>3 DEF PurgeItem, Begin
    <3> QED  BY <2>1, <2>2, <3>1
  <2>4. CASE EmptyTrash(a)
    <3>1. PICK fs \in SUBSET Forms : job' = [job EXCEPT ![a] = Purge("empty", fs, {})]
      BY <2>4 DEF EmptyTrash, Begin
    <3> QED  BY <2>1, <2>2, <3>1
  <2>5. CASE Sweep(a)
    <3>1. PICK fs \in SUBSET Forms : job' = [job EXCEPT ![a] = Purge("sweep", fs, {})]
      BY <2>5 DEF Sweep, Begin, Batches, ExpiredForms
    <3> QED  BY <2>1, <2>2, <3>1
  <2>6. CASE DeleteWorkspace(a) \/ CloseAccount(a)
    <3>1. PICK kind \in Endings : job' = [job EXCEPT ![a] = Purge(kind, {f \in Forms : form[f] # "gone"}, {})]
      BY <2>2, <2>6 DEF DeleteWorkspace, CloseAccount, Begin
    <3>2. a \notin Timers
      BY <2>6 DEF DeleteWorkspace, CloseAccount
    <3> QED  BY <2>1, <2>2, <3>1, <3>2
  <2> QED  BY <2>3, <2>4, <2>5, <2>6
<1>1. PICK j \in Jobs : /\ job' = [job EXCEPT ![a] = j] /\ j.at = "next"
                        /\ j.kind \in Endings => a \notin Timers /\ j.forms = {f \in Forms : form[f] # "gone"}
  BY <1>0 DEF Begun
<1>2. UNCHANGED <<form, resp, expired, files, hanging, setup, space, late, pending>>
  BY DEF PurgeItem, EmptyTrash, Sweep, DeleteWorkspace, CloseAccount, Begin
<1>3. TypeOK' /\ Shrinks /\ WritesInv'
  <2>1. job'[a] = j /\ \A b \in Actors : b # a => job'[b] = job[b]
    BY <1>1 DEF JobsTyped
  <2> QED  BY <1>1, <1>2, <2>1 DEF TypeOK, Shrinks, Stored, WritesInv, Places
<1>4. FormPurge(a)' /\ ResponsePurge(a)'
  BY <1>1 DEF FormPurge, ResponsePurge, FormPlaces, ResponsePlaces, JobsTyped
<1>5. EndPurge(a)'
  <2>1. job'[a] = j
    BY <1>1 DEF JobsTyped
  <2>2. j.kind \in Endings => \A f \in Forms \ j.forms : Clean(f)'
    BY <1>1, <1>3, CleanStays
  <2> QED  BY <2>1, <2>2 DEF EndPurge
<1> QED  BY <1>1, <1>2, <1>3, <1>4, <1>5, PurgeMoves DEF FormPlaces, ResponsePlaces

\* A purge reads, ends or stops without touching a row.
LEMMA ReadKeeps ==
  ASSUME OrphanInv, NEW a \in Actors,
         ReadIds(a) \/ TakeTrashedResponses(a) \/ Finish(a) \/ Fail(a)
  PROVE  OrphanInv'
<1> USE DEF OrphanInv, rows, kept
<1>1. UNCHANGED <<form, resp, expired, files, hanging, setup, space, late, pending>>
  BY DEF ReadIds, TakeTrashedResponses, Finish, Fail
<1>2. Shrinks /\ WritesInv' /\ \A f \in Forms : Clean(f)' = Clean(f)
  BY <1>1 DEF Shrinks, Stored, WritesInv, Clean, InForm
<1>3. job \in [Actors -> Jobs]
  BY DEF JobsTyped
<1>4. ASSUME NEW j \in Jobs, job' = [job EXCEPT ![a] = j] PROVE TypeOK' /\ job'[a] = j
  BY <1>1, <1>3, <1>4 DEF TypeOK, Jobs
<1>5. CASE ReadIds(a)
  <2> DEFINE j == [job[a] EXCEPT !.at = "hanging", !.ids = {r \in InForm(job[a].target) : Stored(r)}]
  <2>1. /\ j \in Jobs /\ j.at = "hanging" /\ j.target = job[a].target /\ j.kind = job[a].kind
        /\ j.forms = job[a].forms /\ j.ids = {r \in InForm(job[a].target) : Stored(r)}
    BY <1>3 DEF Jobs, Places, InForm
  <2>2. job' = [job EXCEPT ![a] = j] /\ job[a].at = "ids"
    BY <1>3, <1>5 DEF ReadIds
  <2> HIDE DEF j
  <2>3. job'[a] = j /\ TypeOK'
    BY <1>4, <2>1, <2>2
  <2>4. FormPurge(a)'
    <3>1. \A r \in InForm(j.target) \ late : r \in hanging => Stored(r)
      BY DEF WritesInv, TypeOK, Stored, InForm
    <3> QED  BY <1>1, <2>1, <2>2, <2>3, <3>1 DEF FormPurge, FormPlaces, InForm
  <2>5. ResponsePurge(a)' /\ EndPurge(a)'
    BY <1>2, <2>1, <2>2, <2>3 DEF ResponsePurge, EndPurge, FormPlaces, ResponsePlaces
  <2> QED  BY <1>1, <1>2, <2>1, <2>2, <2>3, <2>4, <2>5, PurgeMoves DEF JobsTyped, FormPlaces, ResponsePlaces
<1>6. CASE TakeTrashedResponses(a)
  <2>1. PICK B \in SUBSET Responses : job' = [job EXCEPT ![a].kind = "item", ![a].resps = B]
    BY <1>6 DEF TakeTrashedResponses, Batches, ExpiredResponses
  <2> DEFINE j == [job[a] EXCEPT !.kind = "item", !.resps = B]
  <2>2. j \in Jobs /\ j.at = "next" /\ j.kind = "item"
    <3>1. job[a].at = "next"
      BY <1>6 DEF TakeTrashedResponses
    <3> QED  BY <1>3, <3>1 DEF Jobs
  <2>3. job' = [job EXCEPT ![a] = j]
    BY <1>3, <2>1
  <2> HIDE DEF j
  <2>4. job'[a] = j /\ TypeOK'
    BY <1>4, <2>2, <2>3
  <2>5. FormPurge(a)' /\ ResponsePurge(a)' /\ EndPurge(a)'
    BY <2>2, <2>4 DEF FormPurge, ResponsePurge, EndPurge, FormPlaces, ResponsePlaces, Endings
  <2> QED  BY <1>1, <1>2, <2>2, <2>3, <2>4, <2>5, PurgeMoves DEF FormPlaces, ResponsePlaces, Endings
<1>7. ASSUME job' = [job EXCEPT ![a] = Idle] PROVE OrphanInv'
  <2>1. Idle \in Jobs /\ Idle.at = "idle" /\ Idle.kind = "idle"
    BY DEF Idle, Jobs, Places, None
  <2> HIDE DEF Idle
  <2>2. job'[a] = Idle /\ TypeOK'
    BY <1>4, <1>7, <2>1
  <2>3. FormPurge(a)' /\ ResponsePurge(a)' /\ EndPurge(a)'
    BY <2>1, <2>2 DEF FormPurge, ResponsePurge, EndPurge, FormPlaces, ResponsePlaces, Endings
  <2> QED  BY <1>1, <1>2, <1>7, <2>1, <2>2, <2>3, PurgeMoves DEF FormPlaces, ResponsePlaces, Endings
<1>8. CASE Fail(a) /\ a \in Timers
  <2> DEFINE j == [job[a] EXCEPT !.at = "next", !.target = None, !.ids = {}]
  <2>1. j \in Jobs /\ j.at = "next" /\ j.kind = job[a].kind
    BY <1>3 DEF Jobs, Places
  <2>2. job' = [job EXCEPT ![a] = j]
    BY <1>3, <1>8 DEF Fail, Onward
  <2> HIDE DEF j
  <2>3. job'[a] = j /\ TypeOK' /\ j.kind \notin Endings
    BY <1>4, <1>8, <2>1, <2>2 DEF JobsTyped
  <2>4. FormPurge(a)' /\ ResponsePurge(a)' /\ EndPurge(a)'
    BY <2>1, <2>3 DEF FormPurge, ResponsePurge, EndPurge, FormPlaces, ResponsePlaces, Endings
  <2> QED  BY <1>1, <1>2, <2>1, <2>2, <2>3, <2>4, PurgeMoves DEF FormPlaces, ResponsePlaces
<1> QED  BY <1>5, <1>6, <1>7, <1>8 DEF Finish, Fail

\* The steps that delete a form's data leave behind them what the next one needs.
LEMMA FormStepsKeep ==
  ASSUME OrphanInv, NEW a \in Actors,
         TakeForm(a) \/ RemoveHanging(a) \/ RemoveResponses(a) \/ RemoveSetup(a) \/ RemoveForm(a)
  PROVE  OrphanInv'
<1> USE DEF OrphanInv, rows, kept
<1>0. job \in [Actors -> Jobs]
  BY DEF JobsTyped
<1>1. UNCHANGED <<pending, late>>
  BY DEF TakeForm, RemoveHanging, RemoveResponses, RemoveSetup, RemoveForm, Step
<1>2. ASSUME NEW j \in Jobs, job' = [job EXCEPT ![a] = j] PROVE job'[a] = j /\ \A b \in Actors : job'[b].at \in Places
  BY <1>0, <1>2 DEF Jobs
<1>3. CASE TakeForm(a)
  <2>1. PICK f \in job[a].forms : /\ job' = [job EXCEPT ![a].at = "ids", ![a].target = f, ![a].forms = @ \ {f}]
                                  /\ files' = files \ InForm(f)
    BY <1>3 DEF TakeForm
  <2> DEFINE j == [job[a] EXCEPT !.at = "ids", !.target = f, !.forms = job[a].forms \ {f}]
  <2>2. /\ j \in Jobs /\ j.at = "ids" /\ j.target = f /\ j.forms = job[a].forms \ {f} /\ j.kind = job[a].kind
        /\ f \in Forms
    BY <1>0 DEF Jobs, Places
  <2>3. job' = [job EXCEPT ![a] = j] /\ job[a].at = "next"
    BY <1>0, <1>3, <2>1 DEF TakeForm
  <2> HIDE DEF j
  <2>4. UNCHANGED <<form, resp, expired, hanging, setup, space, signIn>>
    BY <1>3 DEF TakeForm
  <2>5. Shrinks /\ WritesInv' /\ TypeOK' /\ job'[a] = j
    BY <1>1, <1>2, <2>1, <2>2, <2>3, <2>4 DEF Shrinks, Stored, WritesInv, TypeOK
  <2>6. FormPurge(a)' /\ ResponsePurge(a)'
    BY <2>1, <2>2, <2>5 DEF FormPurge, ResponsePurge, ResponsePlaces, InForm
  <2>7. EndPurge(a)'
    BY <2>2, <2>3, <2>5, CleanStays DEF EndPurge, FormPlaces
  <2> QED  BY <1>1, <2>2, <2>3, <2>4, <2>5, <2>6, <2>7, PurgeMoves DEF JobsTyped, ResponsePlaces
<1>4. ASSUME NEW to \in FormPlaces, job[a].at \in FormPlaces, job' = [job EXCEPT ![a].at = to]
      PROVE  \E j \in Jobs : /\ j.at = to /\ j.target = job[a].target /\ j.forms = job[a].forms
                             /\ j.kind = job[a].kind /\ j.ids = job[a].ids
                             /\ job' = [job EXCEPT ![a] = j] /\ job'[a] = j
  <2> DEFINE j == [job[a] EXCEPT !.at = to]
  <2>1. /\ j \in Jobs /\ j.at = to /\ j.target = job[a].target /\ j.forms = job[a].forms
        /\ j.kind = job[a].kind /\ j.ids = job[a].ids
    BY <1>0 DEF Jobs, Places, FormPlaces
  <2>2. job' = [job EXCEPT ![a] = j]
    BY <1>0, <1>4
  <2> HIDE DEF j
  <2> QED  BY <1>0, <2>1, <2>2
<1>5. CASE RemoveHanging(a)
  <2>1. /\ job[a].at = "hanging" /\ job' = [job EXCEPT ![a].at = "responses"] /\ hanging' = hanging \ job[a].ids
        /\ UNCHANGED <<form, resp, expired, files, setup, space, signIn>>
    BY <1>5 DEF RemoveHanging, Step
  <2>2. PICK j \in Jobs : /\ j.at = "responses" /\ j.target = job[a].target /\ j.forms = job[a].forms
                          /\ j.kind = job[a].kind /\ j.ids = job[a].ids
                          /\ job' = [job EXCEPT ![a] = j] /\ job'[a] = j
    BY <1>4, <2>1 DEF FormPlaces
  <2>3. Shrinks /\ WritesInv' /\ TypeOK'
    BY <1>1, <1>2, <2>1, <2>2 DEF Shrinks, Stored, WritesInv, TypeOK
  <2>4. FormPurge(a)' /\ ResponsePurge(a)'
    BY <1>1, <2>1, <2>2 DEF FormPurge, ResponsePurge, ResponsePlaces, FormPlaces, InForm
  <2>5. EndPurge(a)'
    BY <2>1, <2>2, <2>3, CleanStays DEF EndPurge, FormPlaces
  <2> QED  BY <1>1, <2>1, <2>2, <2>3, <2>4, <2>5, PurgeMoves DEF JobsTyped, FormPlaces, ResponsePlaces
<1>6. CASE RemoveResponses(a)
  <2> DEFINE f == job[a].target
  <2>1. /\ job[a].at = "responses" /\ job' = [job EXCEPT ![a].at = "setup"] /\ resp' = Removed(InForm(f))
        /\ expired' = expired \ InForm(f)
        /\ UNCHANGED <<form, files, hanging, setup, space, signIn>>
    BY <1>6 DEF RemoveResponses, Step
  <2>2. PICK j \in Jobs : /\ j.at = "setup" /\ j.target = job[a].target /\ j.forms = job[a].forms
                          /\ j.kind = job[a].kind /\ j.ids = job[a].ids
                          /\ job' = [job EXCEPT ![a] = j] /\ job'[a] = j
    BY <1>4, <2>1 DEF FormPlaces
  <2>3. Shrinks /\ \A r \in InForm(f) : ~Stored(r)'
    BY <1>1, <2>1 DEF Shrinks, Stored, Removed, TypeOK, InForm
  <2>4. TypeOK'
    <3>1. \A r \in Responses : r \notin InForm(f) => resp'[r] = resp[r]
      BY <2>1 DEF Removed
    <3>2. resp' \in [Responses -> {"none", "live", "trash", "gone"}]
      BY <2>1 DEF TypeOK, Removed
    <3>3. expired' \subseteq {g \in Forms : form'[g] = "trash"} \cup {r \in Responses : resp'[r] = "trash"}
      BY <2>1, <3>1 DEF TypeOK
    <3>4. (files \cup hanging \cup late)' \subseteq Responses /\ setup' \subseteq Forms
      BY <1>1, <2>1 DEF TypeOK
    <3> QED  BY <1>2, <2>1, <2>2, <3>2, <3>3, <3>4 DEF TypeOK
  <2>5. WritesInv'
    <3>1. \A r \in InForm(f) \ late : r \notin files \cup hanging
      BY <2>1 DEF FormPurge, FormPlaces
    <3>2. \A r \in Responses :
            \/ resp'[r] = resp[r]
            \/ Stored(r) /\ resp'[r] = "gone" /\ (r \in late \/ r \notin files' \cup hanging')
      BY <2>1, <3>1 DEF Removed
    <3> QED  BY <1>1, <2>3, <3>2, WritesKeep
  <2>6. FormPurge(a)' /\ ResponsePurge(a)'
    BY <1>1, <2>1, <2>2, <2>3 DEF FormPurge, ResponsePurge, ResponsePlaces, FormPlaces, InForm
  <2>7. EndPurge(a)'
    BY <2>1, <2>2, <2>3, CleanStays DEF EndPurge, FormPlaces
  <2> QED  BY <1>1, <2>1, <2>2, <2>3, <2>4, <2>5, <2>6, <2>7, PurgeMoves DEF JobsTyped, FormPlaces, ResponsePlaces
<1>7. CASE RemoveSetup(a) \/ RemoveForm(a)
  <2>1. PICK f \in Forms : f = job[a].target /\ job[a].at \in {"setup", "row"}
    BY <1>7 DEF RemoveSetup, RemoveForm, JobsTyped, FormPlaces
  <2> DEFINE next == [job[a] EXCEPT !.at = "next", !.target = None, !.ids = {}]
  <2>2. next \in Jobs /\ next.at = "next" /\ next.forms = job[a].forms /\ next.kind = job[a].kind
    BY <1>0 DEF Jobs, Places
  <2>3. Onward(a) = [job EXCEPT ![a] = next]
    BY <1>0 DEF Onward
  <2> HIDE DEF next
  <2>4. Clean(f)' /\ Shrinks /\ UNCHANGED <<resp, files, hanging, space, signIn>>
    <3>1. CASE RemoveSetup(a)
      <4>1. setup' = setup \ {f} /\ UNCHANGED <<resp, files, hanging, space, signIn>> /\ job[a].at = "setup"
        BY <2>1, <3>1 DEF RemoveSetup
      <4>2. \A r \in InForm(f) \ late : ~Stored(r) /\ r \notin files \cup hanging
        BY <2>1, <4>1 DEF FormPurge, FormPlaces
      <4> QED  BY <1>1, <4>1, <4>2 DEF Clean, Shrinks, Stored, InForm
    <3>2. CASE RemoveForm(a)
      <4>1. UNCHANGED <<resp, files, hanging, setup, space, signIn>> /\ job[a].at = "row"
        BY <3>2 DEF RemoveForm
      <4> QED  BY <1>1, <2>1, <4>1 DEF Clean, Shrinks, Stored, InForm, FormPurge
    <3> QED  BY <1>7, <3>1, <3>2
  <2>5. WritesInv'
    BY <1>1, <2>4 DEF WritesInv
  <2>6. \A g \in Forms : form'[g] = "gone" => form[g] = "gone" \/ Clean(g)'
    BY <1>7, <2>1, <2>4 DEF RemoveSetup, RemoveForm, TypeOK
  <2>7. /\ form' \in [Forms -> {"live", "trash", "gone"}] /\ setup' \subseteq Forms
        /\ expired' \subseteq {g \in Forms : form'[g] = "trash"} \cup {r \in Responses : resp'[r] = "trash"}
    BY <1>7, <2>1, <2>4 DEF RemoveSetup, RemoveForm, TypeOK
  <2>8. ASSUME job' = [job EXCEPT ![a] = next] PROVE OrphanInv'
    <3>1. job'[a] = next /\ TypeOK'
      BY <1>1, <1>2, <2>2, <2>4, <2>7, <2>8 DEF TypeOK
    <3>2. FormPurge(a)' /\ ResponsePurge(a)'
      BY <2>2, <3>1 DEF FormPurge, ResponsePurge, FormPlaces, ResponsePlaces
    <3>3. EndPurge(a)'
      <4> SUFFICES ASSUME job[a].kind \in Endings, NEW g \in Forms \ job[a].forms PROVE Clean(g)'
        BY <2>2, <3>1 DEF EndPurge
      <4> QED  BY <2>1, <2>4, CleanStays DEF EndPurge
    <3> QED  BY <1>1, <2>2, <2>4, <2>5, <2>6, <2>8, <3>1, <3>2, <3>3, PurgeMoves DEF JobsTyped, FormPlaces, ResponsePlaces
  <2>9. ASSUME RemoveSetup(a), job' = [job EXCEPT ![a].at = "row"] PROVE OrphanInv'
    <3>1. PICK j \in Jobs : /\ j.at = "row" /\ j.target = job[a].target /\ j.forms = job[a].forms
                            /\ j.kind = job[a].kind /\ j.ids = job[a].ids
                            /\ job' = [job EXCEPT ![a] = j] /\ job'[a] = j
      BY <1>4, <2>1, <2>9 DEF FormPlaces
    <3>2. TypeOK' /\ job[a].at = "setup"
      BY <1>1, <1>2, <2>4, <2>7, <2>9, <3>1 DEF TypeOK, RemoveSetup
    <3>3. FormPurge(a)' /\ ResponsePurge(a)'
      BY <1>1, <2>1, <2>4, <3>1, <3>2 DEF FormPurge, ResponsePurge, FormPlaces, ResponsePlaces, InForm, Stored
    <3>4. EndPurge(a)'
      BY <2>1, <2>4, <3>1, <3>2, CleanStays DEF EndPurge, FormPlaces
    <3> QED  BY <1>1, <2>1, <2>4, <2>5, <2>6, <3>1, <3>2, <3>3, <3>4, PurgeMoves DEF JobsTyped, FormPlaces, ResponsePlaces
  <2> QED  BY <1>7, <2>3, <2>8, <2>9 DEF RemoveSetup, RemoveForm
<1> QED  BY <1>3, <1>5, <1>6, <1>7

\* So do the steps that delete one response.
LEMMA ResponseStepsKeep ==
  ASSUME OrphanInv, NEW a \in Actors,
         TakeResponse(a) \/ RemoveResponseHanging(a) \/ RemoveResponse(a)
  PROVE  OrphanInv'
<1> USE DEF OrphanInv, rows, kept
<1>0. job \in [Actors -> Jobs]
  BY DEF JobsTyped
<1>1. UNCHANGED <<pending, late, form, setup, space>>
  BY DEF TakeResponse, RemoveResponseHanging, RemoveResponse, Step
<1>2. ASSUME NEW j \in Jobs, job' = [job EXCEPT ![a] = j] PROVE job'[a] = j /\ \A b \in Actors : job'[b].at \in Places
  BY <1>0, <1>2 DEF Jobs
<1>3. CASE TakeResponse(a)
  <2>1. PICK r \in job[a].resps :
          /\ job' = [job EXCEPT ![a].at = "rhanging", ![a].target = r, ![a].resps = @ \ {r}]
          /\ files' = files \ {r}
    BY <1>3 DEF TakeResponse
  <2> DEFINE j == [job[a] EXCEPT !.at = "rhanging", !.target = r, !.resps = job[a].resps \ {r}]
  <2>2. /\ j \in Jobs /\ j.at = "rhanging" /\ j.target = r /\ j.forms = job[a].forms /\ j.kind = job[a].kind
        /\ r \in Responses
    BY <1>0 DEF Jobs, Places
  <2>3. job' = [job EXCEPT ![a] = j] /\ job[a].at = "next"
    BY <1>0, <1>3, <2>1 DEF TakeResponse
  <2> HIDE DEF j
  <2>4. UNCHANGED <<resp, expired, hanging>>
    BY <1>3 DEF TakeResponse
  <2>5. Shrinks /\ WritesInv' /\ TypeOK' /\ job'[a] = j
    BY <1>1, <1>2, <2>1, <2>2, <2>3, <2>4 DEF Shrinks, Stored, WritesInv, TypeOK
  <2>6. FormPurge(a)' /\ ResponsePurge(a)'
    BY <2>1, <2>2, <2>5 DEF FormPurge, ResponsePurge, FormPlaces
  <2>7. EndPurge(a)'
    BY <2>2, <2>3, <2>5, CleanStays DEF EndPurge, FormPlaces
  <2> QED  BY <1>1, <2>2, <2>3, <2>5, <2>6, <2>7, PurgeMoves DEF JobsTyped, FormPlaces
<1>4. CASE RemoveResponseHanging(a)
  <2> DEFINE j == [job[a] EXCEPT !.at = "rrow"]
  <2>1. j \in Jobs /\ j.at = "rrow" /\ j.target = job[a].target /\ j.forms = job[a].forms /\ j.kind = job[a].kind
    BY <1>0 DEF Jobs, Places
  <2>2. job' = [job EXCEPT ![a] = j] /\ job[a].at = "rhanging"
    BY <1>0, <1>4 DEF RemoveResponseHanging, Step
  <2> HIDE DEF j
  <2>3. UNCHANGED <<resp, expired, files>> /\ hanging' = hanging \ {job[a].target}
    BY <1>4 DEF RemoveResponseHanging, Step
  <2>4. Shrinks /\ WritesInv' /\ TypeOK' /\ job'[a] = j
    BY <1>1, <1>2, <2>1, <2>2, <2>3 DEF Shrinks, Stored, WritesInv, TypeOK
  <2>5. FormPurge(a)' /\ ResponsePurge(a)'
    BY <1>1, <2>1, <2>2, <2>3, <2>4 DEF FormPurge, ResponsePurge, FormPlaces, ResponsePlaces
  <2>6. EndPurge(a)'
    BY <2>1, <2>2, <2>4, CleanStays DEF EndPurge, FormPlaces
  <2> QED  BY <1>1, <2>1, <2>2, <2>3, <2>4, <2>5, <2>6, PurgeMoves DEF JobsTyped, FormPlaces, ResponsePlaces
<1>5. CASE RemoveResponse(a)
  <2>1. PICK r \in Responses : r = job[a].target /\ job[a].at = "rrow"
    BY <1>5 DEF RemoveResponse, JobsTyped, ResponsePlaces
  <2> DEFINE j == [job[a] EXCEPT !.at = "next", !.target = None, !.ids = {}]
  <2>2. j \in Jobs /\ j.at = "next" /\ j.forms = job[a].forms /\ j.kind = job[a].kind
    BY <1>0 DEF Jobs, Places
  <2>3. job' = [job EXCEPT ![a] = j]
    BY <1>0, <1>5 DEF RemoveResponse, Onward
  <2> HIDE DEF j
  <2>4. resp' = Removed({r}) /\ expired' = expired \ {r} /\ UNCHANGED <<files, hanging>>
    BY <1>5, <2>1 DEF RemoveResponse
  <2>5. r \in late \/ r \notin files \cup hanging
    BY <2>1 DEF ResponsePurge, ResponsePlaces
  <2>6. Shrinks /\ job'[a] = j
    BY <1>1, <1>2, <2>2, <2>3, <2>4 DEF Shrinks, Stored, Removed, TypeOK
  <2>7. TypeOK'
    <3>1. resp' \in [Responses -> {"none", "live", "trash", "gone"}] /\ \A q \in Responses : q # r => resp'[q] = resp[q]
      BY <2>4 DEF TypeOK, Removed
    <3>2. expired' \subseteq {g \in Forms : form'[g] = "trash"} \cup {q \in Responses : resp'[q] = "trash"}
      BY <1>1, <2>4, <3>1 DEF TypeOK
    <3> QED  BY <1>1, <1>2, <2>2, <2>3, <2>4, <3>1, <3>2 DEF TypeOK
  <2>8. WritesInv'
    <3>1. \A q \in Responses :
            \/ resp'[q] = resp[q]
            \/ Stored(q) /\ resp'[q] = "gone" /\ (q \in late \/ q \notin files' \cup hanging')
      BY <2>4, <2>5 DEF Removed
    <3> QED  BY <1>1, <2>6, <3>1, WritesKeep
  <2>9. FormPurge(a)' /\ ResponsePurge(a)'
    BY <2>2, <2>6 DEF FormPurge, ResponsePurge, FormPlaces, ResponsePlaces
  <2>10. EndPurge(a)'
    BY <2>1, <2>2, <2>6, CleanStays DEF EndPurge, FormPlaces
  <2> QED  BY <1>1, <2>2, <2>3, <2>6, <2>7, <2>8, <2>9, <2>10, PurgeMoves DEF JobsTyped, FormPlaces, ResponsePlaces
<1> QED  BY <1>3, <1>4, <1>5

\* The end of a workspace: by now every form is clean.
LEMMA EndStepsKeep ==
  ASSUME OrphanInv, NEW a \in Actors,
         RemoveWorkspaceForms(a) \/ RemoveMembers(a) \/ RemoveWorkspace(a)
  PROVE  OrphanInv'
<1> USE DEF OrphanInv, rows, kept
<1>0. job \in [Actors -> Jobs]
  BY DEF JobsTyped
<1>1. UNCHANGED <<pending, late, resp, files, hanging, setup>>
  BY DEF RemoveWorkspaceForms, RemoveMembers, RemoveWorkspace, Step
<1>2. Shrinks /\ WritesInv'
  BY <1>1 DEF Shrinks, Stored, WritesInv
<1>3. PICK j \in Jobs :
        /\ job' = [job EXCEPT ![a] = j] /\ j.at \in {"members", "space", "idle"}
        /\ j.kind \in Endings => j.kind = job[a].kind /\ j.forms = job[a].forms
        /\ j.at \in {"members", "space"} => j.kind \in Endings
  <2>1. CASE RemoveWorkspaceForms(a)
    <3> DEFINE j == [job[a] EXCEPT !.at = "members"]
    <3>1. j \in Jobs /\ j.at = "members" /\ j.kind = job[a].kind /\ j.forms = job[a].forms
      BY <1>0 DEF Jobs, Places
    <3>2. job' = [job EXCEPT ![a] = j] /\ job[a].kind \in Endings
      BY <1>0, <2>1 DEF RemoveWorkspaceForms
    <3> HIDE DEF j
    <3> QED  BY <3>1, <3>2
  <2>2. CASE RemoveMembers(a)
    <3> DEFINE j == [job[a] EXCEPT !.at = "space"]
    <3>1. j \in Jobs /\ j.at = "space" /\ j.kind = job[a].kind /\ j.forms = job[a].forms
      BY <1>0 DEF Jobs, Places
    <3>2. job' = [job EXCEPT ![a] = j] /\ job[a].kind \in Endings
      BY <1>0, <2>2 DEF RemoveMembers, Step, JobsTyped
    <3> HIDE DEF j
    <3> QED  BY <3>1, <3>2
  <2>3. CASE RemoveWorkspace(a)
    <3>1. Idle \in Jobs /\ Idle.at = "idle" /\ Idle.kind \notin Endings
      BY DEF Idle, Jobs, Places, None, Endings
    <3> HIDE DEF Idle
    <3> QED  BY <2>3, <3>1 DEF RemoveWorkspace
  <2> QED  BY <2>1, <2>2, <2>3
<1>4. job'[a] = j /\ \A b \in Actors : job'[b].at \in Places
  BY <1>0, <1>3 DEF Jobs
<1>5. job[a].at \notin FormPlaces
  BY DEF RemoveWorkspaceForms, RemoveMembers, RemoveWorkspace, Step, FormPlaces
<1>6. TypeOK'
  BY <1>1, <1>4 DEF TypeOK, RemoveWorkspaceForms, RemoveMembers, RemoveWorkspace, Step
<1>7. \A f \in Forms : form'[f] = "gone" => form[f] = "gone" \/ Clean(f)'
  <2>1. CASE RemoveWorkspaceForms(a)
    BY <1>2, <1>5, <2>1, CleanStays DEF RemoveWorkspaceForms, EndPurge
  <2>2. CASE RemoveMembers(a) \/ RemoveWorkspace(a)
    BY <2>2 DEF RemoveMembers, RemoveWorkspace, Step
  <2> QED  BY <2>1, <2>2
<1>8. FormPurge(a)' /\ ResponsePurge(a)'
  BY <1>3, <1>4 DEF FormPurge, ResponsePurge, FormPlaces, ResponsePlaces
<1>9. EndPurge(a)'
  BY <1>2, <1>3, <1>4, <1>5, CleanStays DEF EndPurge
<1> QED  BY <1>1, <1>2, <1>3, <1>6, <1>7, <1>8, <1>9, PurgeMoves DEF JobsTyped, FormPlaces, ResponsePlaces
-----------------------------------------------------------------------------
\* The invariant of the purges is kept by every step.
LEMMA OrphansKept == Spec => []OrphanInv
<1>1. Init => OrphanInv
  <2> SUFFICES ASSUME Init PROVE OrphanInv
    OBVIOUS
  <2>1. Idle \in Jobs /\ Idle.at = "idle" /\ Idle.kind = "idle"
    BY DEF Idle, Jobs, Places, None
  <2>2. \A a \in Actors : job[a] = Idle
    BY DEF Init
  <2> HIDE DEF Idle
  <2>3. JobsTyped
    BY <2>1, <2>2 DEF Init, JobsTyped, FormPlaces, ResponsePlaces, Endings
  <2>4. TypeOK
    BY <2>1, <2>2 DEF Init, TypeOK, Places
  <2>5. WritesInv /\ \A f \in Forms : form[f] # "gone"
    BY DEF Init, WritesInv, None
  <2>6. \A a \in Actors : FormPurge(a) /\ ResponsePurge(a) /\ EndPurge(a)
    BY <2>1, <2>2 DEF FormPurge, ResponsePurge, EndPurge, FormPlaces, ResponsePlaces, Endings
  <2> QED  BY <2>3, <2>4, <2>5, <2>6 DEF OrphanInv
<1>2. OrphanInv /\ [Next]_vars => OrphanInv'
  <2> SUFFICES ASSUME OrphanInv, [Next]_vars PROVE OrphanInv'
    OBVIOUS
  <2>1. CASE UNCHANGED vars
    <3>1. Shrinks /\ TypeOK' /\ WritesInv' /\ UNCHANGED <<job, pending, form>>
      BY <2>1 DEF vars, Shrinks, Stored, OrphanInv, TypeOK, WritesInv
    <3> QED  BY <3>1, PurgesRest DEF OrphanInv, JobsTyped
  <2>2. CASE Next
    BY <2>2, StoreKeeps, DesksKeep, BeginKeeps, ReadKeeps, FormStepsKeep, ResponseStepsKeep, EndStepsKeep
       DEF Next, PurgeStep
  <2> QED  BY <2>1, <2>2
<1> QED  BY <1>1, <1>2, PTL DEF Spec

\* deleteFormData, purgeResponse and the cascades above them: wherever the purges stand
\* or stopped, a form or response that is gone left no response, file, note or setting,
\* but for what was written beside the purge.
THEOREM PurgesLeaveNothing == Spec => []PurgesHold
<1>1. OrphanInv => PurgesHold
  BY DEF OrphanInv, PurgesHold, NoOrphans, Clean, WritesInv
<1> QED  BY <1>1, OrphansKept, PTL

\* What a purge step does to the purge it belongs to, as far as its forms go.
LEMMA FormsInHand ==
  ASSUME JobsTyped, NEW a \in Actors, PurgeStep(a) \/ Fail(a), a \in Timers
  PROVE  /\ job'[a].forms \subseteq job[a].forms
         /\ job'[a].at \in FormPlaces => \/ job[a].at \in FormPlaces /\ job'[a].target = job[a].target
                                        \/ job'[a].target \in job[a].forms
         /\ \A b \in Actors : b # a => job'[b] = job[b]
         /\ expired' \subseteq expired /\ ripe' = ripe
<1> USE DEF rows, kept
<1>0. job \in [Actors -> Jobs] /\ job[a] \in Jobs
  BY DEF JobsTyped
<1>1. CASE TakeForm(a)
  BY <1>0, <1>1 DEF TakeForm, Jobs, FormPlaces
<1>2. CASE ReadIds(a) \/ RemoveHanging(a) \/ RemoveResponses(a)
  BY <1>0, <1>2 DEF ReadIds, RemoveHanging, RemoveResponses, Step, Jobs, FormPlaces
<1>3. CASE RemoveSetup(a) \/ RemoveForm(a)
  <2>1. job'[a].forms = job[a].forms /\ job'[a].at \in {"next", "row"}
        /\ (job'[a].at = "row" => job'[a].target = job[a].target /\ job[a].at = "setup")
        /\ \A b \in Actors : b # a => job'[b] = job[b]
    BY <1>0, <1>3 DEF RemoveSetup, RemoveForm, Onward, Jobs
  <2> QED  BY <1>3, <2>1 DEF RemoveSetup, RemoveForm, FormPlaces
<1>4. CASE TakeResponse(a)
  BY <1>0, <1>4 DEF TakeResponse, Jobs, FormPlaces
<1>9. CASE RemoveResponseHanging(a)
  BY <1>0, <1>9 DEF RemoveResponseHanging, Step, Jobs, FormPlaces
<1>10. CASE RemoveResponse(a)
  BY <1>0, <1>10 DEF RemoveResponse, Onward, Jobs, FormPlaces
<1>5. CASE TakeTrashedResponses(a)
  <2>1. PICK B : job' = [job EXCEPT ![a].kind = "item", ![a].resps = B]
    BY <1>5 DEF TakeTrashedResponses
  <2>2. job[a].at = "next" /\ UNCHANGED <<expired, ripe>>
    BY <1>5 DEF TakeTrashedResponses
  <2> QED  BY <1>0, <2>1, <2>2 DEF Jobs, FormPlaces
<1>6. CASE Finish(a) \/ RemoveWorkspace(a)
  BY <1>0, <1>6 DEF Finish, RemoveWorkspace, Jobs, FormPlaces, Idle
<1>7. CASE RemoveWorkspaceForms(a) \/ RemoveMembers(a)
  BY <1>0, <1>7 DEF RemoveWorkspaceForms, RemoveMembers, Step, Jobs, FormPlaces
<1>8. CASE Fail(a)
  BY <1>0, <1>8 DEF Fail, Onward, Jobs, FormPlaces
<1> QED  BY <1>1, <1>2, <1>3, <1>4, <1>5, <1>6, <1>7, <1>8, <1>9, <1>10 DEF PurgeStep

\* The timer only ever takes up forms whose window has passed.
LEMMA RipeKept ==
  ASSUME JobsTyped, RipeInv, [Next]_vars
  PROVE  RipeInv'
<1> USE DEF RipeInv, rows, kept
<1>0. job \in [Actors -> Jobs] /\ Timers \subseteq Actors
  BY DEF JobsTyped
<1>1. ASSUME NEW a \in Actors, PurgeStep(a) \/ Fail(a) PROVE RipeInv'
  <2>1. CASE a \in Timers
    BY <1>0, <1>1, <2>1, FormsInHand
  <2>2. CASE a \notin Timers
    <3>1. expired' \subseteq expired /\ ripe' = ripe
      BY <1>1 DEF PurgeStep, TakeForm, ReadIds, RemoveHanging, RemoveResponses, RemoveSetup, RemoveForm,
            TakeTrashedResponses, TakeResponse, RemoveResponseHanging, RemoveResponse, Finish,
            RemoveWorkspaceForms, RemoveMembers, RemoveWorkspace, Fail, Step
    <3>2. \A b \in Actors : b # a => job'[b] = job[b]
      BY <1>0, <1>1 DEF PurgeStep, TakeForm, ReadIds, RemoveHanging, RemoveResponses, RemoveSetup, RemoveForm,
            TakeTrashedResponses, TakeResponse, RemoveResponseHanging, RemoveResponse, Finish,
            RemoveWorkspaceForms, RemoveMembers, RemoveWorkspace, Fail, Step, Onward
    <3> QED  BY <1>0, <2>2, <3>1, <3>2
  <2> QED  BY <2>1, <2>2
<1>2. ASSUME NEW a \in Actors,
             PurgeItem(a) \/ EmptyTrash(a) \/ Sweep(a) \/ DeleteWorkspace(a) \/ CloseAccount(a)
      PROVE  RipeInv'
  <2>1. UNCHANGED <<expired, ripe>> /\ \A b \in Actors : b # a => job'[b] = job[b]
    BY <1>0, <1>2 DEF PurgeItem, EmptyTrash, Sweep, DeleteWorkspace, CloseAccount, Begin
  <2>2. ASSUME a \in Timers PROVE job'[a].forms \subseteq ripe /\ job'[a].at = "next"
    <3>1. Sweep(a)
      BY <1>2, <2>2 DEF PurgeItem, EmptyTrash, DeleteWorkspace, CloseAccount
    <3>2. PICK B \in Batches(ExpiredForms) : job' = [job EXCEPT ![a] = Purge("sweep", B, {})]
      BY <3>1 DEF Sweep, Begin
    <3>3. B \subseteq ripe
      BY <3>2 DEF Batches, ExpiredForms
    <3> QED  BY <1>0, <3>2, <3>3 DEF Purge, Idle
  <2> QED  BY <1>0, <2>1, <2>2 DEF FormPlaces
<1>3. ASSUME UNCHANGED job, ripe \subseteq ripe', expired' \subseteq ripe' PROVE RipeInv'
  BY <1>3
<1>4. CASE UNCHANGED vars
  BY <1>3, <1>4 DEF vars
<1>5. CASE \E r \in Responses : CheckWrite(r) \/ StoreWrite(r) \/ TrashResponse(r) \/ RestoreResponse(r)
  BY <1>3, <1>5 DEF CheckWrite, StoreWrite, TrashResponse, RestoreResponse
<1>6. CASE (\E f \in Forms : TrashForm(f) \/ RestoreForm(f)) \/ (\E x \in Forms \cup Responses : Expire(x))
  BY <1>3, <1>6 DEF TrashForm, RestoreForm, Expire
<1> QED  BY <1>1, <1>2, <1>4, <1>5, <1>6 DEF Next

\* purgeExpiredTrash: while no member and no cascade is purging, the form that goes has
\* sat in Trash for the whole window.
THEOREM SweepSparesRecent == Spec => SweepKeepsRecent
<1>1. Init => RipeInv
  BY DEF Init, RipeInv, Idle, FormPlaces
<1>2. JobsTyped /\ RipeInv /\ [Next]_vars => RipeInv'
  BY RipeKept
<1>3. ASSUME TypeOK, JobsTyped, RipeInv, [Next]_vars, NEW f \in Forms, NEW a \in Timers, form[f] # "gone",
             form'[f] = "gone", job[a].target = f, \A b \in Actors \ Timers : job[b] = Idle
      PROVE  f \in ripe
  <2>1. \E b \in Actors : RemoveForm(b) \/ RemoveWorkspaceForms(b)
    <3>1. CASE UNCHANGED vars
      BY <1>3, <3>1 DEF vars
    <3>2. CASE \E r \in Responses : CheckWrite(r) \/ StoreWrite(r) \/ TrashResponse(r) \/ RestoreResponse(r)
      BY <1>3, <3>2 DEF CheckWrite, StoreWrite, TrashResponse, RestoreResponse, rows
    <3>3. CASE (\E g \in Forms : TrashForm(g) \/ RestoreForm(g)) \/ (\E x \in Forms \cup Responses : Expire(x))
      BY <1>3, <3>3 DEF TrashForm, RestoreForm, Expire, TypeOK
    <3>4. ASSUME NEW b \in Actors,
                 PurgeItem(b) \/ EmptyTrash(b) \/ Sweep(b) \/ DeleteWorkspace(b) \/ CloseAccount(b) \/ Fail(b)
          PROVE  FALSE
      BY <1>3, <3>4 DEF PurgeItem, EmptyTrash, Sweep, DeleteWorkspace, CloseAccount, Begin, Fail, rows
    <3>5. ASSUME NEW b \in Actors, PurgeStep(b), ~RemoveForm(b), ~RemoveWorkspaceForms(b) PROVE FALSE
      BY <1>3, <3>5 DEF PurgeStep, TakeForm, ReadIds, RemoveHanging, RemoveResponses, RemoveSetup,
            TakeTrashedResponses, TakeResponse, RemoveResponseHanging, RemoveResponse, Finish,
            RemoveMembers, RemoveWorkspace, Step, rows
    <3> QED  BY <1>3, <3>1, <3>2, <3>3, <3>4, <3>5 DEF Next
  <2>2. PICK b \in Actors : RemoveForm(b) \/ RemoveWorkspaceForms(b)
    BY <2>1
  <2>3. b \in Timers /\ RemoveForm(b)
    BY <1>3, <2>2 DEF RemoveForm, RemoveWorkspaceForms, Idle, Endings, JobsTyped
  <2>4. job[b].target = f /\ job[b].at = "row"
    BY <1>3, <2>3 DEF RemoveForm, TypeOK
  <2> QED  BY <1>3, <2>3, <2>4 DEF RipeInv, FormPlaces
<1>4. TypeOK /\ JobsTyped /\ RipeInv /\ [Next]_vars =>
        [\A f \in Forms : \A a \in Timers :
           form[f] # "gone" /\ form'[f] = "gone" /\ job[a].target = f
             /\ (\A b \in Actors \ Timers : job[b] = Idle) => f \in ripe]_vars
  BY <1>3
<1>5. OrphanInv => TypeOK /\ JobsTyped
  BY DEF OrphanInv
<1> QED  BY <1>1, <1>2, <1>4, <1>5, OrphansKept, PTL DEF Spec, SweepKeepsRecent
=============================================================================
