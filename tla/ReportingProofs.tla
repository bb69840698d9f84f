--------------------------- MODULE ReportingProofs ---------------------------
(***************************************************************************)
(* What the walks of reporting.py return, for every stream of readings:    *)
(* lemmas about Historian, Reporting and Connectivity, each of them about  *)
(* one operator and none about a state of the system.                      *)
(***************************************************************************)
EXTENDS Connectivity, Induction

\* An observation of a stream.
Observation == [at: Int, offset: Int, value: Int]

\* No id is on record twice.
Distinct(record) == \A i, j \in 1..Len(record) : SameId(record[i], record[j]) => i = j

\* In the order of time, and no two at one instant.
InTime(stream) == \A i, j \in 1..Len(stream) : i < j => stream[i].at < stream[j].at

-------------------------------------------------------------------------------
(***************************************************************************)
(* Queries.                                                                *)
(***************************************************************************)

\* The rows a query matches are some of the places of the record.
LEMMA MatchingIs ==
    ASSUME NEW record \in Seq(Row), NEW sensor, NEW start, NEW end
    PROVE  /\ IsFiniteSet(Matching(record, sensor, start, end))
           /\ SampleCount(record, sensor, start, end) \in Nat
           /\ Matching(record, sensor, start, end) =
                 {i \in 1..Len(record) : record[i].sensor = sensor /\ InWindow(record[i].at, start, end)}
<1>1. Matching(record, sensor, start, end) =
         {i \in 1..Len(record) : record[i].sensor = sensor /\ InWindow(record[i].at, start, end)}
  BY DEF Matching
<1>2. IsFiniteSet(1..Len(record))
  BY FS_Interval
<1>3. IsFiniteSet(Matching(record, sensor, start, end))
  BY <1>1, <1>2, FS_Subset
<1> QED
  BY <1>1, <1>3, FS_CardinalityType DEF SampleCount

\* A query returns each matching row once, in the order of time.
LEMMA QueryIs ==
    ASSUME NEW record \in Seq(Row), NEW sensor, NEW start, NEW end
    PROVE  LET q == Query(record, sensor, start, end)
               found == Matching(record, sensor, start, end)
           IN  /\ q \in Seq(Row)
               /\ Len(q) = SampleCount(record, sensor, start, end)
               /\ \E place \in [1..Len(q) -> found] :
                     /\ \A k \in 1..Len(q) : q[k] = record[place[k]]
                     /\ \A i \in found : \E k \in 1..Len(q) : place[k] = i
               /\ \A j, k \in 1..Len(q) : j < k => q[j].at <= q[k].at
               /\ Distinct(record) => InTime(q)
<1> DEFINE found == Matching(record, sensor, start, end)
           key == [i \in found |-> record[i].at]
           q == Query(record, sensor, start, end)
           place == Ordered(key)
<1>1. \A i \in found : i \in 1..Len(record) /\ record[i] \in Row /\ record[i].sensor = sensor
  BY MatchingIs
<1>2. DOMAIN key \subseteq 1..Len(record) /\ \A i \in DOMAIN key : key[i] = record[i].at /\ key[i] \in Int
  BY <1>1 DEF Row
<1>3. DOMAIN key = found
  OBVIOUS
<1>4. q = Arranged(record, key)
  BY DEF Query
<1> HIDE DEF found, key, place, q
<1>5. /\ q \in Seq(Row) /\ Len(q) = Cardinality(DOMAIN key) /\ Len(q) \in Nat
      /\ place \in [1..Len(q) -> DOMAIN key]
      /\ \A k \in 1..Len(q) : q[k] = record[place[k]]
      /\ \A i \in DOMAIN key : \E k \in 1..Len(q) : place[k] = i
      /\ \A j, k \in 1..Len(q) : j < k <=> Before(key, place[j], place[k])
  BY <1>2, <1>4, ArrangedIs DEF place
<1>6. Len(q) = SampleCount(record, sensor, start, end)
  BY <1>3, <1>5 DEF SampleCount, found
<1>7. ASSUME NEW j \in 1..Len(q), NEW k \in 1..Len(q), j < k
      PROVE  q[j].at <= q[k].at /\ (Distinct(record) => q[j].at < q[k].at)
  <2>1. /\ place[j] \in found /\ place[k] \in found
        /\ q[j] = record[place[j]] /\ q[k] = record[place[k]]
        /\ Before(key, place[j], place[k])
    BY <1>3, <1>5, <1>7
  <2>2. /\ key[place[j]] = q[j].at /\ key[place[k]] = q[k].at
        /\ q[j].at \in Int /\ q[k].at \in Int
        /\ place[j] \in 1..Len(record) /\ place[k] \in 1..Len(record)
    BY <1>1, <1>2, <1>3, <2>1
  <2>3. q[j].at < q[k].at \/ (q[j].at = q[k].at /\ place[j] < place[k])
    BY <2>1, <2>2 DEF Before
  <2>4. ASSUME Distinct(record), q[j].at = q[k].at PROVE FALSE
    <3>1. SameId(record[place[j]], record[place[k]])
      BY <1>1, <2>1, <2>4 DEF SameId
    <3>2. place[j] = place[k]
      BY <2>2, <2>4, <3>1 DEF Distinct
    <3> QED
      BY <2>1, <2>2, <3>2 DEF Before
  <2> QED
    BY <2>2, <2>3, <2>4
<1> QED
  BY <1>3, <1>5, <1>6, <1>7 DEF InTime, found, q

\* A stream is the query without the columns a report does not use.
LEMMA ObservationsAre ==
    ASSUME NEW record \in Seq(Row), NEW sensor, NEW start, NEW end
    PROVE  LET s == Observations(record, sensor, start, end)
               found == Matching(record, sensor, start, end)
               seen(r) == [at |-> r.at, offset |-> r.offset, value |-> r.value]
           IN  /\ s \in Seq(Observation)
               /\ Len(s) = SampleCount(record, sensor, start, end)
               /\ \A k \in 1..Len(s) : \E i \in found : s[k] = seen(record[i])
               /\ \A i \in found : \E k \in 1..Len(s) : s[k] = seen(record[i])
               /\ Distinct(record) => InTime(s)
<1> DEFINE found == Matching(record, sensor, start, end)
           q == Query(record, sensor, start, end)
           s == Observations(record, sensor, start, end)
           seen(r) == [at |-> r.at, offset |-> r.offset, value |-> r.value]
<1>1. /\ q \in Seq(Row) /\ Len(q) = SampleCount(record, sensor, start, end)
      /\ \E place \in [1..Len(q) -> found] :
            /\ \A k \in 1..Len(q) : q[k] = record[place[k]]
            /\ \A i \in found : \E k \in 1..Len(q) : place[k] = i
      /\ Distinct(record) => InTime(q)
  BY QueryIs
<1>2. s = [k \in 1..Len(q) |-> seen(q[k])]
  BY <1>1 DEF Observations
<1> HIDE DEF q, s, found
<1>3. ASSUME NEW k \in 1..Len(q) PROVE seen(q[k]) \in Observation
  <2>1. q[k] \in Row
    BY <1>1
  <2> QED
    BY <2>1 DEF Row, Observation
<1>4. s \in Seq(Observation) /\ Len(s) = Len(q) /\ \A k \in 1..Len(q) : s[k] = seen(q[k])
  <2>1. Len(q) \in Nat
    BY <1>1
  <2> HIDE DEF seen
  <2>2. \A k \in 1..Len(q) : s[k] = seen(q[k])
    BY <1>2
  <2>3. s \in [1..Len(q) -> Observation]
    BY <1>2, <1>3
  <2> QED
    BY <2>1, <2>2, <2>3
<1>5. PICK place \in [1..Len(q) -> found] :
            /\ \A k \in 1..Len(q) : q[k] = record[place[k]]
            /\ \A i \in found : \E k \in 1..Len(q) : place[k] = i
  BY <1>1
<1>6. \A k \in 1..Len(s) : \E i \in found : s[k] = seen(record[i])
  <2> HIDE DEF seen
  <2> QED
    BY <1>4, <1>5
<1>7. \A i \in found : \E k \in 1..Len(s) : s[k] = seen(record[i])
  <2> HIDE DEF seen
  <2> QED
    BY <1>4, <1>5
<1>8. Distinct(record) => InTime(s)
  <2>1. ASSUME NEW k \in 1..Len(q) PROVE s[k].at = q[k].at
    <3>1. s[k] = seen(q[k])
      BY <1>4
    <3> QED
      BY <3>1
  <2> QED
    BY <1>1, <1>4, <2>1 DEF InTime
<1> QED
  BY <1>1, <1>4, <1>6, <1>7, <1>8 DEF s, found, seen

-------------------------------------------------------------------------------
(***************************************************************************)
(* Runs.                                                                   *)
(***************************************************************************)

\* A run, one under construction, and how far a walk has come.
Run == [startsAt: Int, endsAt: Int, offset: Int, samples: Nat, asserted: BOOLEAN,
        truncated: BOOLEAN]

Building == [first: Observation, last: Observation, samples: Nat, openStart: BOOLEAN]

Walked == [runs: Seq(Run), building: Seq(Building)]

\* A step of the walk has its type, and leaves a run that is being built.
LEMMA RunStepIs ==
    ASSUME NEW w \in Walked, NEW o \in Observation, NEW gap \in Int
    PROVE  RunStep(w, o, gap) \in Walked
<1> DEFINE fresh == Build(o, TRUE)
           edged == Build(o, FALSE)
<1>1. fresh \in Building /\ edged \in Building
  BY DEF Build, Building
<1>1a. w.runs \in Seq(Run) /\ w.building \in Seq(Building)
       /\ w = [runs |-> w.runs, building |-> w.building]
  BY DEF Walked
<1> HIDE DEF fresh, edged
<1>2. CASE w.building = <<>>
  <2>1. RunStep(w, o, gap) = [w EXCEPT !.building = <<fresh>>]
    BY <1>2 DEF RunStep, fresh
  <2>2. <<fresh>> \in Seq(Building)
    BY <1>1
  <2> QED
    BY <1>1a, <2>1, <2>2 DEF Walked
<1>3. CASE w.building # <<>>
  <2> DEFINE b == w.building[1]
             cut == Close(b, TRUE)
             ended == Close(b, FALSE)
             longer == Extend(b, o)
  <2>1. b \in Building
    BY <1>1a, <1>3
  <2>2. cut \in Run /\ ended \in Run /\ longer \in Building
    <3> HIDE DEF b
    <3>1. /\ b.first \in Observation /\ b.last \in Observation /\ b.samples \in Nat
          /\ b.openStart \in BOOLEAN
      BY <2>1 DEF Building
    <3>2. longer = [first |-> b.first, last |-> o, samples |-> b.samples + 1,
                    openStart |-> b.openStart]
      <4>1. b = [first |-> b.first, last |-> b.last, samples |-> b.samples,
                 openStart |-> b.openStart]
        BY <2>1 DEF Building
      <4>2. [b EXCEPT !.last = o] = [first |-> b.first, last |-> o, samples |-> b.samples,
                                     openStart |-> b.openStart]
        BY <4>1
      <4> DEFINE c == [b EXCEPT !.last = o]
      <4> HIDE DEF c
      <4>3. c = [first |-> b.first, last |-> o, samples |-> b.samples, openStart |-> b.openStart]
        BY <4>2 DEF c
      <4>4. longer = [c EXCEPT !.samples = b.samples + 1]
        BY DEF Extend, c
      <4> QED
        BY <4>3, <4>4
    <3>3. cut \in Run
      BY <3>1 DEF Close, Run, Observation
    <3>4. ended \in Run
      BY <3>1 DEF Close, Run, Observation
    <3> HIDE DEF longer
    <3>5. longer \in Building
      BY <3>1, <3>2 DEF Building
    <3> QED
      BY <3>3, <3>4, <3>5
  <2>3. RunStep(w, o, gap) = Break(w, o, gap)
    BY <1>3 DEF RunStep
  <2>4. \/ Break(w, o, gap) = [runs |-> Append(w.runs, cut), building |-> <<fresh>>]
        \/ Break(w, o, gap) = [runs |-> Append(w.runs, ended), building |-> <<edged>>]
        \/ Break(w, o, gap) = [w EXCEPT !.building = <<longer>>]
    <3>1. b.last.at \in Int /\ o.at \in Int
      BY <2>1 DEF Building, Observation
    <3> QED
      BY <3>1 DEF Break, fresh, edged
  <2> HIDE DEF b, cut, ended, longer
  <2>5. /\ <<fresh>> \in Seq(Building) /\ <<edged>> \in Seq(Building)
        /\ <<longer>> \in Seq(Building)
    BY <1>1, <2>2
  <2>6. Append(w.runs, cut) \in Seq(Run) /\ Append(w.runs, ended) \in Seq(Run)
    BY <1>1a, <2>2
  <2>7. [w EXCEPT !.building = <<longer>>] = [runs |-> w.runs, building |-> <<longer>>]
    BY <1>1a
  <2>8. /\ [runs |-> Append(w.runs, cut), building |-> <<fresh>>] \in Walked
        /\ [runs |-> Append(w.runs, ended), building |-> <<edged>>] \in Walked
        /\ [runs |-> w.runs, building |-> <<longer>>] \in Walked
    BY <1>1a, <2>5, <2>6 DEF Walked
  <2> HIDE DEF Walked
  <2> QED
    BY <2>3, <2>4, <2>7, <2>8
<1> QED
  BY <1>2, <1>3

\* The walk starts with nothing and takes a step with each observation.
LEMMA WalkIs ==
    ASSUME NEW obs \in Seq(Observation), NEW gap \in Int
    PROVE  /\ Walk(obs, gap) \in [0..Len(obs) -> Walked]
           /\ Walk(obs, gap)[0] = Unbroken
           /\ \A n \in 1..Len(obs) :
                 Walk(obs, gap)[n] = RunStep(Walk(obs, gap)[n - 1], obs[n], gap)
<1> DEFINE N == Len(obs)
           F == [n \in 1..N |-> [w \in Walked |-> RunStep(w, obs[n], gap)]]
           Follows(g) == g = [n \in 0..N |-> IF n = 0 THEN Unbroken ELSE RunStep(g[n - 1], obs[n], gap)]
<1>1. N \in Nat /\ Unbroken \in Walked
  BY DEF Walked, Unbroken
<1>2. F \in [1..N -> [Walked -> Walked]]
  BY RunStepIs
<1>3. PICK g : Iterates(g, F, N, Walked, Unbroken)
  <2>1. Stepping(F, N, Walked)
    BY <1>2 DEF Stepping
  <2> HIDE DEF F, N
  <2> QED
    BY <1>1, <2>1, Recursion
<1>4. \A n \in 1..N : g[n] = RunStep(g[n - 1], obs[n], gap)
  BY <1>3 DEF Iterates
<1>5. Follows(g)
  BY <1>3, <1>4 DEF Iterates
<1> DEFINE h == Walk(obs, gap)
<1>6. h = CHOOSE f : Follows(f)
  BY DEF Walk
<1>7. Follows(h)
  <2> HIDE DEF Follows, h
  <2> QED
    BY <1>5, <1>6
<1>8. /\ DOMAIN h = 0..N /\ h[0] = Unbroken
      /\ \A n \in 1..N : h[n] = RunStep(h[n - 1], obs[n], gap)
  BY <1>1, <1>7
<1> HIDE DEF h, Follows
<1>9. 0..N \subseteq {n \in 0..N : h[n] \in Walked}
  <2> DEFINE G == {n \in 0..N : h[n] \in Walked}
  <2>1. 0 \in G
    BY <1>1, <1>8
  <2>2. ASSUME NEW n \in 0..(N - 1), n \in G PROVE n + 1 \in G
    <3>1. n + 1 \in 1..N /\ (n + 1) - 1 = n /\ h[n] \in Walked
      BY <1>1, <2>2
    <3>2. obs[n + 1] \in Observation /\ h[n + 1] = RunStep(h[n], obs[n + 1], gap)
      BY <1>8, <3>1
    <3> QED
      BY <1>1, <3>1, <3>2, RunStepIs
  <2> HIDE DEF G, F, N
  <2>3. Inductive(G, 0, N)
    BY <2>1, <2>2 DEF Inductive
  <2>4. 0..N \subseteq G
    BY <1>1, <2>3, Climb
  <2> QED
    BY <2>4 DEF G
<1>10. h \in [0..N -> Walked]
  <2>1. h = [n \in 0..N |-> h[n]]
    BY <1>7 DEF Follows
  <2> QED
    BY <1>9, <2>1
<1> QED
  BY <1>8, <1>10 DEF h

\* Two readings that follow each other, with no hole between them.
Near(obs, gap, i) == i \in 1..(Len(obs) - 1) /\ obs[i + 1].at - obs[i].at <= gap

\* One value without a hole, and what ends it.
Even(obs, gap, f, l) ==
    \A i \in f..l : obs[i].value = obs[f].value /\ (i < l => Near(obs, gap, i))

Edge(obs, gap, l) == Near(obs, gap, l) => obs[l + 1].value # obs[l].value

RunOf(obs, gap, f, l) ==
    [startsAt |-> obs[f].at, endsAt |-> obs[l].at, offset |-> obs[f].offset,
     samples |-> l - f + 1, asserted |-> obs[f].value = 1,
     truncated |-> ~(Near(obs, gap, f - 1) /\ Near(obs, gap, l))]

\* The first n readings fall into m pieces; F says where each of them starts.
Split(F, m, n, obs, gap) ==
    /\ m \in Nat /\ m >= 1
    /\ F \in [1..(m + 1) -> 1..(n + 1)]
    /\ F[1] = 1 /\ F[m + 1] = n + 1
    /\ \A k \in 1..m : F[k] < F[k + 1] /\ Even(obs, gap, F[k], F[k + 1] - 1)
    /\ \A k \in 1..(m - 1) : Edge(obs, gap, F[k + 1] - 1)

\* The state of the walk: every piece but the last is a run, the last is being built.
Standing(F, m, n, w, obs, gap) ==
    /\ Split(F, m, n, obs, gap)
    /\ Len(w.runs) = m - 1
    /\ \A k \in 1..(m - 1) : w.runs[k] = RunOf(obs, gap, F[k], F[k + 1] - 1)
    /\ w.building = <<[first |-> obs[F[m]], last |-> obs[n], samples |-> n - F[m] + 1,
                       openStart |-> ~Near(obs, gap, F[m] - 1)]>>

\* After the first reading there is one piece.
LEMMA FirstStanding ==
    ASSUME NEW obs \in Seq(Observation), NEW gap \in Int, Len(obs) > 0
    PROVE  \E F : Standing(F, 1, 1, RunStep(Unbroken, obs[1], gap), obs, gap)
<1> DEFINE F == [k \in 1..2 |-> k]
           w == RunStep(Unbroken, obs[1], gap)
<1>1. w = [runs |-> <<>>, building |-> <<Build(obs[1], TRUE)>>]
  BY DEF RunStep, Unbroken
<1>2. Split(F, 1, 1, obs, gap)
  <2>1. F \in [1..(1 + 1) -> 1..(1 + 1)] /\ F[1] = 1 /\ F[2] = 2
    OBVIOUS
  <2>2. Even(obs, gap, 1, 1)
    BY DEF Even
  <2> HIDE DEF F
  <2> QED
    BY <2>1, <2>2 DEF Split
<1>3. F[1] = 1 /\ F[1] - 1 = 0 /\ 1 - F[1] + 1 = 1
  OBVIOUS
<1>3a. ~Near(obs, gap, 0)
  BY DEF Near
<1> HIDE DEF F
<1>4. Build(obs[1], TRUE) = [first |-> obs[F[1]], last |-> obs[1], samples |-> 1 - F[1] + 1,
                             openStart |-> ~Near(obs, gap, F[1] - 1)]
  <2>1. (~Near(obs, gap, F[1] - 1)) = TRUE
    BY <1>3, <1>3a
  <2> QED
    BY <1>3, <2>1, Zenon DEF Build
<1> HIDE DEF w
<1>5. Standing(F, 1, 1, w, obs, gap)
  <2> DEFINE c == Build(obs[1], TRUE)
  <2> HIDE DEF c
  <2>1. w.runs = <<>> /\ w.building = <<c>>
    BY <1>1 DEF c
  <2>2. Len(w.runs) = 1 - 1
    BY <2>1
  <2>3. \A k \in 1..(1 - 1) : w.runs[k] = RunOf(obs, gap, F[k], F[k + 1] - 1)
    OBVIOUS
  <2> QED
    BY <1>2, <1>4, <2>1, <2>2, <2>3, Zenon DEF Standing, c
<1> QED
  BY <1>5 DEF w

\* The next reading starts a piece or makes the last one longer.
LEMMA NextStanding ==
    ASSUME NEW obs \in Seq(Observation), NEW gap \in Int, NEW n \in 1..(Len(obs) - 1),
           NEW m, NEW F, NEW w \in Walked, Standing(F, m, n, w, obs, gap)
    PROVE  \E E, p : Standing(E, p, n + 1, RunStep(w, obs[n + 1], gap), obs, gap)
<1> DEFINE o == obs[n + 1]
           b == [first |-> obs[F[m]], last |-> obs[n], samples |-> n - F[m] + 1,
                 openStart |-> ~Near(obs, gap, F[m] - 1)]
           next == RunStep(w, o, gap)
<1>1. /\ m \in Nat /\ m >= 1 /\ F \in [1..(m + 1) -> 1..(n + 1)]
      /\ F[1] = 1 /\ F[m + 1] = n + 1
      /\ \A k \in 1..m : F[k] < F[k + 1] /\ Even(obs, gap, F[k], F[k + 1] - 1)
      /\ \A k \in 1..(m - 1) : Edge(obs, gap, F[k + 1] - 1)
      /\ Len(w.runs) = m - 1 /\ w.building = <<b>>
      /\ \A k \in 1..(m - 1) : w.runs[k] = RunOf(obs, gap, F[k], F[k + 1] - 1)
  BY DEF Standing, Split
<1>2. /\ n \in Nat /\ n >= 1 /\ n + 1 \in 1..Len(obs) /\ n \in 1..Len(obs)
      /\ o \in Observation /\ obs[n] \in Observation
  OBVIOUS
<1>1a. m \in Nat /\ m >= 1 /\ F \in [1..(m + 1) -> 1..(n + 1)] /\ F[m + 1] = n + 1
  BY <1>1
<1>2b. n \in Nat /\ n >= 1
  BY <1>2
<1>2a. o.at \in Int /\ obs[n].at \in Int /\ o.value \in Int /\ obs[n].value \in Int
  BY <1>2 DEF Observation
<1> HIDE DEF o
<1>3. F[m] \in 1..n /\ F[m] \in 1..Len(obs)
  <2>1. m \in 1..m /\ m \in 1..(m + 1)
    BY <1>1
  <2>2. F[m] < n + 1 /\ F[m] \in 1..(n + 1)
    BY <1>1, <2>1
  <2>3. F[m] \in 1..n
    BY <1>2, <2>2
  <2> QED
    BY <1>2, <2>3
<1>4. Even(obs, gap, F[m], n)
  <2>1. m \in 1..m /\ F[m + 1] - 1 = n
    BY <1>1, <1>2
  <2>2. Even(obs, gap, F[m], F[m + 1] - 1)
    BY <1>1, <2>1
  <2> QED
    BY <2>1, <2>2
<1>5. obs[n].value = obs[F[m]].value
  BY <1>2, <1>3, <1>4 DEF Even
<1>6. Near(obs, gap, n) <=> o.at - obs[n].at <= gap
  BY <1>2 DEF Near, o
<1>7. next = Break(w, o, gap)
  BY <1>1 DEF RunStep
<1>8. w.runs \in Seq(Run) /\ w = [runs |-> w.runs, building |-> w.building]
  BY DEF Walked
<1>8a. b.first = obs[F[m]] /\ b.last = obs[n] /\ b.samples = n - F[m] + 1
       /\ b.openStart = ~Near(obs, gap, F[m] - 1)
  OBVIOUS
<1>8b. w.building[1] = b
  <2> HIDE DEF b
  <2> QED
    BY <1>1
<1>8c. next = CASE o.at - b.last.at > gap ->
                     [runs |-> Append(w.runs, Close(b, TRUE)), building |-> <<Build(o, TRUE)>>]
               [] o.at - b.last.at <= gap /\ o.value # b.first.value ->
                     [runs |-> Append(w.runs, Close(b, FALSE)), building |-> <<Build(o, FALSE)>>]
               [] OTHER -> [w EXCEPT !.building = <<Extend(b, o)>>]
  <2> HIDE DEF b, next
  <2> QED
    BY <1>7, <1>8b DEF Break
<1> HIDE DEF next
<1>9. CASE ~(Near(obs, gap, n) /\ o.value = obs[n].value)
  <2> DEFINE E == [k \in 1..(m + 2) |-> IF k <= m + 1 THEN F[k] ELSE n + 2]
             r == RunOf(obs, gap, F[m], n)
             c == [first |-> o, last |-> o, samples |-> 1, openStart |-> ~Near(obs, gap, n)]
  <2>1. next = [runs |-> Append(w.runs, r), building |-> <<c>>]
    <3>1. CASE ~Near(obs, gap, n)
      <4>1. o.at - obs[n].at > gap
        BY <1>2a, <1>6, <3>1
      <4>2. Close(b, TRUE) = r
        BY <3>1 DEF Close, RunOf
      <4>3. Build(o, TRUE) = c
        BY <3>1 DEF Build
      <4>4. next = [runs |-> Append(w.runs, Close(b, TRUE)), building |-> <<Build(o, TRUE)>>]
        <5>1. ~(o.at - b.last.at <= gap) /\ o.at - b.last.at > gap
          <6> HIDE DEF b
          <6> QED
            BY <1>2a, <1>8a, <4>1
        <5> HIDE DEF b
        <5> QED
          BY <1>8c, <5>1
      <4> QED
        BY <4>2, <4>3, <4>4
    <3>2. CASE Near(obs, gap, n)
      <4>1. o.at - obs[n].at <= gap /\ ~(o.at - obs[n].at > gap) /\ o.value # b.first.value
        BY <1>2a, <1>5, <1>6, <1>9, <3>2
      <4>2. Close(b, FALSE) = r
        BY <3>2 DEF Close, RunOf
      <4>3. Build(o, FALSE) = c
        BY <3>2 DEF Build
      <4>4. next = [runs |-> Append(w.runs, Close(b, FALSE)), building |-> <<Build(o, FALSE)>>]
        <5> HIDE DEF b
        <5> QED
          BY <1>8a, <1>8c, <4>1
      <4> QED
        BY <4>2, <4>3, <4>4
    <3> QED
      BY <3>1, <3>2
  <2>2. /\ \A k \in 1..(m + 1) : E[k] = F[k]
        /\ E[m + 2] = n + 2 /\ E \in [1..(m + 2) -> 1..(n + 2)]
    <3>1. \A k \in 1..(m + 1) : E[k] = F[k] /\ F[k] \in 1..(n + 2)
      BY <1>1a, <1>2b
    <3>2. E[m + 2] = n + 2
      BY <1>1a
    <3>3. ASSUME NEW k \in 1..(m + 2)
          PROVE  (IF k <= m + 1 THEN F[k] ELSE n + 2) \in 1..(n + 2)
      BY <1>1a, <1>2b, <3>1, <3>3
    <3> QED
      BY <3>1, <3>2, <3>3
  <2> HIDE DEF E, r, c, b, o, next
  <2>3. Split(E, m + 1, n + 1, obs, gap)
    <3>1. E[1] = 1 /\ E[m + 1] = n + 1
      BY <1>1, <2>2
    <3>2. ASSUME NEW k \in 1..(m + 1)
          PROVE  E[k] < E[k + 1] /\ Even(obs, gap, E[k], E[k + 1] - 1)
      <4>1. CASE k \in 1..m
        <5>1. E[k] = F[k] /\ E[k + 1] = F[k + 1]
          BY <1>1, <2>2, <4>1
        <5> QED
          BY <1>1, <4>1, <5>1
      <4>2. CASE k = m + 1
        <5>1. E[k] = n + 1 /\ E[k + 1] = n + 2
          BY <1>1, <2>2, <4>2
        <5>2. Even(obs, gap, n + 1, n + 1)
          BY <1>2 DEF Even
        <5> QED
          BY <1>2, <5>1, <5>2
      <4> QED
        BY <1>1, <4>1, <4>2
    <3>3. ASSUME NEW k \in 1..m
          PROVE  Edge(obs, gap, E[k + 1] - 1)
      <4>1. CASE k \in 1..(m - 1)
        <5>0. k + 1 \in 1..(m + 1)
          BY <1>1a, <4>1
        <5>1. E[k + 1] = F[k + 1]
          BY <2>2, <5>0
        <5> QED
          BY <1>1, <4>1, <5>1
      <4>2. CASE k = m
        <5>1. E[k + 1] - 1 = n
          <6>1. k + 1 \in 1..(m + 1) /\ k + 1 = m + 1
            BY <1>1a, <4>2
          <6>2. E[k + 1] = n + 1
            BY <1>1a, <2>2, <6>1
          <6> QED
            BY <1>2b, <6>2
        <5>2. Edge(obs, gap, n)
          BY <1>9 DEF Edge, o
        <5> QED
          BY <5>1, <5>2
      <4> QED
        BY <1>1a, <4>1, <4>2
    <3>4. /\ m + 1 \in Nat /\ m + 1 >= 1 /\ (m + 1) - 1 = m
          /\ (m + 1) + 1 = m + 2 /\ (n + 1) + 1 = n + 2
      BY <1>1a, <1>2b
    <3> QED
      BY <2>2, <3>1, <3>2, <3>3, <3>4 DEF Split
  <2>4. Standing(E, m + 1, n + 1, next, obs, gap)
    <3>1. Len(next.runs) = m /\ next.building = <<c>>
      BY <1>1, <1>8, <2>1
    <3>2. ASSUME NEW k \in 1..m
          PROVE  next.runs[k] = RunOf(obs, gap, E[k], E[k + 1] - 1)
      <4>1. CASE k \in 1..(m - 1)
        <5>1. E[k] = F[k] /\ E[k + 1] = F[k + 1]
          BY <1>1, <2>2, <4>1
        <5>1a. next.runs[k] = w.runs[k]
          BY <1>1, <1>8, <2>1, <4>1
        <5> QED
          BY <1>1, <4>1, <5>1, <5>1a
      <4>2. CASE k = m
        <5>1. E[k] = F[m] /\ E[k + 1] - 1 = n /\ next.runs[k] = r
          <6>1. k \in 1..(m + 1) /\ k + 1 \in 1..(m + 1) /\ k + 1 = m + 1
            BY <1>1, <4>2
          <6>2. E[k] = F[m] /\ E[k + 1] = n + 1
            BY <1>1, <2>2, <4>2, <6>1
          <6>3. next.runs[k] = r
            BY <1>1, <1>8, <2>1, <4>2
          <6> QED
            BY <1>2, <6>2, <6>3
        <5> QED
          BY <5>1 DEF r
      <4> QED
        BY <1>1, <4>1, <4>2
    <3>3. E[m + 1] = n + 1
      BY <1>1, <2>2
    <3>4. c = [first |-> obs[E[m + 1]], last |-> obs[n + 1], samples |-> (n + 1) - E[m + 1] + 1,
               openStart |-> ~Near(obs, gap, E[m + 1] - 1)]
      BY <1>2, <3>3 DEF c, o
    <3>5. (m + 1) - 1 = m
      BY <1>1
    <3> HIDE DEF c
    <3> QED
      BY <2>3, <3>1, <3>2, <3>4, <3>5 DEF Standing
  <2> QED
    BY <2>4 DEF next, o
<1>10. CASE Near(obs, gap, n) /\ o.value = obs[n].value
  <2> DEFINE E == [F EXCEPT ![m + 1] = n + 2]
             c == [first |-> obs[F[m]], last |-> o, samples |-> n - F[m] + 2,
                   openStart |-> ~Near(obs, gap, F[m] - 1)]
  <2>1. next = [runs |-> w.runs, building |-> <<c>>]
    <3>1. ~(o.at - obs[n].at > gap) /\ ~(o.value # b.first.value)
      BY <1>2a, <1>5, <1>6, <1>10
    <3>2. next = [w EXCEPT !.building = <<Extend(b, o)>>]
      <4> HIDE DEF b
      <4> QED
        BY <1>2a, <1>8a, <1>8c, <3>1
    <3>3. Extend(b, o) = c
      <4> DEFINE d == [b EXCEPT !.last = o]
      <4>1. d = [first |-> obs[F[m]], last |-> o, samples |-> n - F[m] + 1,
                 openStart |-> ~Near(obs, gap, F[m] - 1)]
        OBVIOUS
      <4>2. b.samples + 1 = n - F[m] + 2
        BY <1>1, <1>2, <1>3
      <4> HIDE DEF d
      <4>3. [d EXCEPT !.samples = n - F[m] + 2] = c
        BY <4>1
      <4>4. Extend(b, o) = [d EXCEPT !.samples = b.samples + 1]
        BY DEF Extend, d
      <4> HIDE DEF b, c
      <4> QED
        BY <4>2, <4>3, <4>4
    <3> HIDE DEF c, b, o, next
    <3> QED
      BY <1>8, <3>2, <3>3
  <2>2. /\ \A k \in 1..m : E[k] = F[k]
        /\ E[m + 1] = n + 2 /\ E \in [1..(m + 1) -> 1..(n + 2)]
    <3>1. m + 1 \in 1..(m + 1) /\ n + 2 \in 1..(n + 2) /\ \A k \in 1..m : k # m + 1 /\ k \in 1..(m + 1)
      BY <1>1a, <1>2b
    <3>2. F \in [1..(m + 1) -> 1..(n + 2)]
      <4>1. 1..(n + 1) \subseteq 1..(n + 2)
        BY <1>2b
      <4> QED
        BY <1>1a, <4>1
    <3> QED
      BY <3>1, <3>2
  <2> HIDE DEF E, b, next
  <2>3. Even(obs, gap, F[m], n + 1)
    <3> SUFFICES ASSUME NEW i \in F[m]..(n + 1)
                 PROVE  obs[i].value = obs[F[m]].value /\ (i < n + 1 => Near(obs, gap, i))
      BY DEF Even
    <3>1. CASE i = n + 1
      BY <1>2, <1>5, <1>10, <3>1 DEF o
    <3>2. CASE i = n
      BY <1>2, <1>5, <1>10, <3>2
    <3>3. CASE i < n
      BY <1>2, <1>3, <1>4, <3>3 DEF Even
    <3> QED
      BY <1>2, <1>3, <3>1, <3>2, <3>3
  <2>4. Split(E, m, n + 1, obs, gap)
    <3>1. E[1] = 1
      BY <1>1, <2>2
    <3>2. ASSUME NEW k \in 1..m
          PROVE  E[k] < E[k + 1] /\ Even(obs, gap, E[k], E[k + 1] - 1)
      <4>1. CASE k \in 1..(m - 1)
        <5>0. k \in 1..m /\ k + 1 \in 1..m
          BY <1>1a, <4>1
        <5>1. E[k] = F[k] /\ E[k + 1] = F[k + 1]
          BY <2>2, <5>0
        <5> QED
          BY <1>1, <4>1, <5>1
      <4>2. CASE k = m
        <5>1. E[k] = F[m] /\ E[k + 1] = n + 2 /\ E[k + 1] - 1 = n + 1
          BY <1>1, <1>2, <2>2, <4>2
        <5> QED
          BY <1>2, <1>3, <2>3, <5>1
      <4> QED
        BY <1>1, <4>1, <4>2
    <3>3. ASSUME NEW k \in 1..(m - 1)
          PROVE  Edge(obs, gap, E[k + 1] - 1)
      <4>1. E[k + 1] = F[k + 1]
        BY <1>1, <2>2
      <4> QED
        BY <1>1, <4>1
    <3>4. n + 2 = (n + 1) + 1
      BY <1>2b
    <3> QED
      BY <1>1a, <2>2, <3>1, <3>2, <3>3, <3>4 DEF Split
  <2>5. Standing(E, m, n + 1, next, obs, gap)
    <3> HIDE DEF c
    <3>1. next.runs = w.runs /\ next.building = <<c>>
      BY <2>1
    <3>2. ASSUME NEW k \in 1..(m - 1)
          PROVE  next.runs[k] = RunOf(obs, gap, E[k], E[k + 1] - 1)
      <4>0. k \in 1..m /\ k + 1 \in 1..m
        BY <1>1a
      <4>1. E[k] = F[k] /\ E[k + 1] = F[k + 1]
        BY <2>2, <4>0
      <4> QED
        BY <1>1, <3>1, <4>1
    <3>3. E[m] = F[m] /\ n - F[m] + 2 = (n + 1) - F[m] + 1
      BY <1>1, <1>2, <1>3, <2>2
    <3>4. c = [first |-> obs[E[m]], last |-> obs[n + 1], samples |-> (n + 1) - E[m] + 1,
               openStart |-> ~Near(obs, gap, E[m] - 1)]
      BY <3>3 DEF c, o
    <3> QED
      BY <1>1, <2>4, <3>1, <3>2, <3>4 DEF Standing
  <2> QED
    BY <2>5 DEF next, o
<1> QED
  BY <1>9, <1>10

\* So the runs are the pieces of a stream.
LEMMA RunsArePieces ==
    ASSUME NEW obs \in Seq(Observation), NEW gap \in Int, Len(obs) > 0
    PROVE  \E F, m :
              /\ Split(F, m, Len(obs), obs, gap)
              /\ DetectRuns(obs, gap) \in Seq(Run)
              /\ Len(DetectRuns(obs, gap)) = m
              /\ \A k \in 1..m : DetectRuns(obs, gap)[k] = RunOf(obs, gap, F[k], F[k + 1] - 1)
<1> DEFINE N == Len(obs)
           walk == Walk(obs, gap)
           G == {n \in 1..N : \E F, m : Standing(F, m, n, walk[n], obs, gap)}
<1>1. N \in Nat /\ N >= 1
  OBVIOUS
<1>2. /\ walk \in [0..N -> Walked] /\ walk[0] = Unbroken
      /\ \A n \in 1..N : walk[n] = RunStep(walk[n - 1], obs[n], gap)
  BY WalkIs
<1> HIDE DEF walk
<1>3. 1 \in G
  <2>1. walk[1] = RunStep(Unbroken, obs[1], gap)
    BY <1>1, <1>2
  <2>2. \E F : Standing(F, 1, 1, walk[1], obs, gap)
    BY <2>1, FirstStanding
  <2> QED
    BY <1>1, <2>2
<1>4. ASSUME NEW n \in 1..(N - 1), n \in G PROVE n + 1 \in G
  <2>1. PICK F, m : Standing(F, m, n, walk[n], obs, gap)
    BY <1>4
  <2>2. walk[n] \in Walked /\ walk[n + 1] = RunStep(walk[n], obs[n + 1], gap)
    <3>1. n + 1 \in 1..N /\ n \in 0..N /\ (n + 1) - 1 = n
      BY <1>1
    <3> QED
      BY <1>2, <3>1
  <2>3. \E E, p : Standing(E, p, n + 1, walk[n + 1], obs, gap)
    BY <2>1, <2>2, NextStanding
  <2> QED
    BY <1>1, <2>3
<1> HIDE DEF G
<1>5. Inductive(G, 1, N)
  BY <1>3, <1>4 DEF Inductive
<1>6. N \in G
  BY <1>1, <1>5, Climb
<1>7. PICK F, m : Standing(F, m, N, walk[N], obs, gap)
  BY <1>6 DEF G
<1> DEFINE w == walk[N]
           b == [first |-> obs[F[m]], last |-> obs[N], samples |-> N - F[m] + 1,
                 openStart |-> ~Near(obs, gap, F[m] - 1)]
           r == RunOf(obs, gap, F[m], N)
           runs == DetectRuns(obs, gap)
<1>8. /\ Split(F, m, N, obs, gap) /\ Len(w.runs) = m - 1 /\ w.building = <<b>>
      /\ \A k \in 1..(m - 1) : w.runs[k] = RunOf(obs, gap, F[k], F[k + 1] - 1)
  BY <1>7 DEF Standing
<1>9. w.runs \in Seq(Run) /\ m \in Nat /\ m >= 1 /\ F[m + 1] = N + 1
  <2>1. w \in Walked
    BY <1>1, <1>2
  <2> QED
    BY <1>8, <2>1 DEF Walked, Split
<1>10. Close(b, TRUE) = r
  <2>1. ~Near(obs, gap, N)
    BY <1>1 DEF Near
  <2> QED
    BY <2>1 DEF Close, RunOf
<1>11. runs = Append(w.runs, r)
  <2>1. w.building # <<>> /\ w.building[1] = b
    BY <1>8
  <2> HIDE DEF b, r
  <2> QED
    BY <1>10, <2>1 DEF DetectRuns, walk, w, runs
<1>12. r \in Run
  <2>1. F[m] \in 1..(N + 1) /\ F[m] < N + 1
    BY <1>9, <1>8 DEF Split
  <2>2. F[m] \in 1..N
    BY <1>1, <2>1
  <2>3. obs[F[m]] \in Observation /\ obs[N] \in Observation /\ N - F[m] + 1 \in Nat
    BY <1>1, <2>2
  <2> QED
    BY <2>3 DEF RunOf, Run, Observation
<1> HIDE DEF w, b, r, runs
<1>13. runs \in Seq(Run) /\ Len(runs) = m
  BY <1>8, <1>9, <1>11, <1>12
<1>14. ASSUME NEW k \in 1..m PROVE runs[k] = RunOf(obs, gap, F[k], F[k + 1] - 1)
  <2>1. CASE k \in 1..(m - 1)
    BY <1>8, <1>9, <1>11, <1>12, <2>1
  <2>2. CASE k = m
    <3>1. runs[k] = r /\ F[k + 1] - 1 = N
      BY <1>1, <1>8, <1>9, <1>11, <1>12, <2>2
    <3> QED
      BY <2>2, <3>1 DEF r
  <2> QED
    BY <1>9, <2>1, <2>2
<1> QED
  BY <1>8, <1>13, <1>14 DEF runs

\* The places of a stream that a run covers.
Inside(obs, r) == {i \in 1..Len(obs) : obs[i].at \in r.startsAt..r.endsAt}

\* The readings inside a piece are its own.
LEMMA PieceInside ==
    ASSUME NEW obs \in Seq(Observation), InTime(obs), NEW gap,
           NEW f \in 1..Len(obs), NEW l \in 1..Len(obs), f <= l
    PROVE  Inside(obs, RunOf(obs, gap, f, l)) = f..l
<1> SUFFICES ASSUME NEW i \in 1..Len(obs)
             PROVE  obs[i].at \in obs[f].at..obs[l].at <=> i \in f..l
  BY DEF Inside, RunOf
<1>1. obs[i].at \in Int /\ obs[f].at \in Int /\ obs[l].at \in Int
  <2>1. obs[i] \in Observation /\ obs[f] \in Observation /\ obs[l] \in Observation
    OBVIOUS
  <2> QED
    BY <2>1 DEF Observation
<1>2. /\ i < f => obs[i].at < obs[f].at
      /\ f < i => obs[f].at < obs[i].at
      /\ i < l => obs[i].at < obs[l].at
      /\ l < i => obs[l].at < obs[i].at
  BY DEF InTime
<1> QED
  BY <1>1, <1>2

\* Where the gaps are within the limit, every reading is near the next.
LEMMA NoHole ==
    ASSUME NEW obs \in Seq(Observation), NEW gap \in Int, LargestGap(Times(obs)) <= gap,
           NEW i \in 1..(Len(obs) - 1)
    PROVE  Near(obs, gap, i)
<1> DEFINE times == Times(obs)
           step == [k \in 1..(Len(times) - 1) |-> times[k + 1] - times[k]]
           gaps == {step[k] : k \in DOMAIN step}
<1>1. /\ Len(times) = Len(obs) /\ \A k \in 1..Len(obs) : times[k] = obs[k].at /\ times[k] \in Int
  <2>1. times = [k \in 1..Len(obs) |-> obs[k].at]
    BY DEF Times
  <2>2. ASSUME NEW k \in 1..Len(obs) PROVE obs[k].at \in Int
    <3>1. obs[k] \in Observation
      OBVIOUS
    <3> QED
      BY <3>1 DEF Observation
  <2> QED
    BY <2>1, <2>2
<1> HIDE DEF times
<1>2. DOMAIN step = 1..(Len(obs) - 1) /\ \A k \in DOMAIN step : step[k] \in Int
  BY <1>1
<1>3. LargestGap(times) = Max({0} \cup gaps)
  BY DEF LargestGap
<1> HIDE DEF step
<1>4. IsFiniteSet(DOMAIN step)
  BY <1>2, FS_Interval
<1>5. IsFiniteSet(gaps) /\ gaps \subseteq Int
  BY <1>2, <1>4, FiniteImage
<1>6. IsFiniteSet(gaps \cup {0})
  BY <1>5, FS_AddElement
<1> DEFINE all == {0} \cup gaps
<1>7. IsFiniteSet(all) /\ all \subseteq Int /\ all # {}
  <2>1. all = gaps \cup {0}
    OBVIOUS
  <2> HIDE DEF gaps
  <2>2. all \subseteq Int /\ all # {}
    BY <1>5
  <2> HIDE DEF all
  <2> QED
    BY <1>6, <2>1, <2>2
<1>8. step[i] \in all
  BY <1>2
<1>8a. LargestGap(times) = Max(all)
  BY <1>3
<1> HIDE DEF gaps, all
<1>9. step[i] <= LargestGap(times) /\ LargestGap(times) \in Int
  <2>1. Max(all) \in all /\ \A y \in all : y <= Max(all)
    BY <1>7, Extremes
  <2> QED
    BY <1>7, <1>8, <1>8a, <2>1
<1>10. step[i] = obs[i + 1].at - obs[i].at /\ step[i] \in Int
  BY <1>1, <1>2 DEF step
<1> QED
  BY <1>9, <1>10 DEF Near, times

\* A piece starts after the one before it.
LEMMA PiecesInOrder ==
    ASSUME NEW F, NEW m, NEW n \in Nat, NEW obs, NEW gap, Split(F, m, n, obs, gap)
    PROVE  /\ m \in Nat /\ m >= 1 /\ \A k \in 1..(m + 1) : F[k] \in 1..(n + 1)
           /\ F[1] = 1 /\ F[m + 1] = n + 1
           /\ \A j, k \in 1..(m + 1) : j < k => F[j] < F[k]
           /\ \A k \in 1..m : /\ k + 1 \in 1..(m + 1)
                              /\ F[k] \in 1..n /\ F[k + 1] - 1 \in 1..n
                              /\ F[k] <= F[k + 1] - 1
<1>1. /\ m \in Nat /\ m >= 1 /\ \A k \in 1..(m + 1) : F[k] \in 1..(n + 1)
      /\ F[1] = 1 /\ F[m + 1] = n + 1
      /\ \A k \in 1..m : F[k] < F[k + 1]
  BY DEF Split
<1>2. \A j, k \in 1..(m + 1) : j < k => F[j] < F[k]
  <2>1. (m + 1) - 1 = m /\ 1 \in Int /\ m + 1 \in Int
    BY <1>1
  <2>2. \A k \in 1..(m + 1) : F[k] \in Int
    BY <1>1
  <2>3. \A k \in 1..((m + 1) - 1) : F[k] < F[k + 1]
    BY <1>1, <2>1
  <2> QED
    BY <2>1, <2>2, <2>3, Increasing
<1>3. ASSUME NEW k \in 1..m
      PROVE  /\ k + 1 \in 1..(m + 1) /\ F[k] \in 1..n /\ F[k + 1] - 1 \in 1..n
             /\ F[k] <= F[k + 1] - 1
  <2>1. k \in 1..(m + 1) /\ k + 1 \in 1..(m + 1)
    BY <1>1
  <2>2. F[k] < F[k + 1] /\ F[k] \in 1..(n + 1) /\ F[k + 1] \in 1..(n + 1)
    BY <1>1, <2>1
  <2> QED
    BY <2>1, <2>2
<1> QED
  BY <1>1, <1>2, <1>3

OnlyIn(F, m, i, k) == \A j \in 1..m : i \in F[j]..(F[j + 1] - 1) <=> j = k

\* Each reading is in one of them.
LEMMA OnePiece ==
    ASSUME NEW F, NEW m, NEW n \in Nat, NEW obs, NEW gap, Split(F, m, n, obs, gap),
           NEW i \in 1..n
    PROVE  \E k \in 1..m : OnlyIn(F, m, i, k)
<1>1. /\ m \in Nat /\ m >= 1 /\ \A k \in 1..(m + 1) : F[k] \in 1..(n + 1)
      /\ F[1] = 1 /\ F[m + 1] = n + 1
      /\ \A j, k \in 1..(m + 1) : j < k => F[j] < F[k]
  BY PiecesInOrder
<1> DEFINE T == {k \in 1..m : F[k] <= i}
<1>2. 1 \in T /\ T \subseteq Nat /\ \A k \in T : k <= m
  BY <1>1
<1>3. PICK k \in T : \A j \in T : j <= k
  BY <1>1, <1>2, GreatestNat
<1>4. k \in 1..m /\ F[k] <= i /\ k + 1 \in 1..(m + 1) /\ k \in 1..(m + 1)
  BY <1>1, <1>3
<1>5. i < F[k + 1]
  <2>1. CASE k = m
    BY <1>1, <2>1
  <2>2. CASE k # m
    <3>1. k + 1 \in 1..m /\ ~(k + 1 <= k)
      BY <1>1, <1>4, <2>2
    <3>2. k + 1 \notin T
      BY <1>3, <3>1
    <3> QED
      BY <1>1, <1>4, <3>1, <3>2
  <2> QED
    BY <2>1, <2>2
<1>6. ASSUME NEW j \in 1..m PROVE i \in F[j]..(F[j + 1] - 1) <=> j = k
  <2>1. /\ j \in 1..(m + 1) /\ j + 1 \in 1..(m + 1)
        /\ F[j] \in 1..(n + 1) /\ F[j + 1] \in 1..(n + 1)
        /\ F[k] \in 1..(n + 1) /\ F[k + 1] \in 1..(n + 1)
    BY <1>1, <1>4
  <2>2. CASE j = k
    BY <1>4, <1>5, <2>1, <2>2
  <2>3. CASE j < k
    <3>1. j + 1 = k \/ j + 1 < k
      BY <1>4, <2>3
    <3>2. F[j + 1] <= F[k]
      BY <1>1, <1>4, <2>1, <3>1
    <3> QED
      BY <1>4, <2>1, <2>3, <3>2
  <2>4. CASE k < j
    <3>1. j \notin T
      BY <1>3, <1>4, <2>4
    <3> QED
      BY <2>1, <2>4, <3>1
  <2> QED
    BY <1>4, <2>2, <2>3, <2>4
<1> QED
  BY <1>4, <1>6 DEF OnlyIn

\* The property of the runs of a stream: a reading is inside one of them.
OneRunEach(obs, runs) ==
    \A i \in 1..Len(obs) : Cardinality({k \in 1..Len(runs) : i \in Inside(obs, runs[k])}) = 1

\* What lies inside a run.
SeenAsOne(obs, gap, r) ==
    LET inside == Inside(obs, r)  first == Min(inside)  last == Max(inside) IN
    /\ r.samples = Cardinality(inside)
    /\ \A i \in inside : (obs[i].value = 1) = r.asserted
    /\ \A i \in first..(last - 1) : Near(obs, gap, i)
    /\ Near(obs, gap, last) => obs[last + 1].value # obs[last].value
    /\ r.truncated <=> ~(Near(obs, gap, first - 1) /\ Near(obs, gap, last))

\* A piece that ends where its run does is seen as one.
LEMMA PieceIsOne ==
    ASSUME NEW obs \in Seq(Observation), InTime(obs), NEW gap \in Int,
           NEW f \in 1..Len(obs), NEW l \in 1..Len(obs), f <= l,
           Even(obs, gap, f, l), Edge(obs, gap, l)
    PROVE  SeenAsOne(obs, gap, RunOf(obs, gap, f, l))
<1> DEFINE r == RunOf(obs, gap, f, l)
<1>1. Inside(obs, r) = f..l
  BY PieceInside
<1>2. Min(f..l) = f /\ Max(f..l) = l /\ Cardinality(f..l) = l - f + 1
  BY Interval
<1>3. /\ r.samples = l - f + 1 /\ (r.asserted <=> obs[f].value = 1)
      /\ (r.truncated <=> ~(Near(obs, gap, f - 1) /\ Near(obs, gap, l)))
      /\ r.asserted = (obs[f].value = 1)
  BY DEF RunOf
<1>4. \A i \in f..l : obs[i].value = obs[f].value /\ (i < l => Near(obs, gap, i))
  BY DEF Even
<1>5. \A i \in f..(l - 1) : i \in f..l /\ i < l
  OBVIOUS
<1>6. \A i \in f..l : (obs[i].value = 1) = r.asserted
  BY <1>3, <1>4
<1>7. \A i \in f..(l - 1) : Near(obs, gap, i)
  BY <1>4, <1>5
<1>8. Near(obs, gap, l) => obs[l + 1].value # obs[l].value
  BY DEF Edge
<1> HIDE DEF r
<1> QED
  BY <1>1, <1>2, <1>3, <1>6, <1>7, <1>8 DEF SeenAsOne, r

\* Without a reading there is no run.
LEMMA NoRuns ==
    ASSUME NEW obs \in Seq(Observation), NEW gap \in Int, Len(obs) = 0
    PROVE  DetectRuns(obs, gap) = <<>>
<1>1. Walk(obs, gap)[Len(obs)] = Unbroken
  BY WalkIs
<1> QED
  BY <1>1 DEF DetectRuns, Unbroken

\* What the property of the runs says, of every stream.
LEMMA RunsAreSeen ==
    ASSUME NEW obs \in Seq(Observation), InTime(obs), NEW gap \in Int
    PROVE  LET runs == DetectRuns(obs, gap)
           IN  /\ runs \in Seq(Run)
               /\ OneRunEach(obs, runs)
               /\ \A k \in 1..Len(runs) : SeenAsOne(obs, gap, runs[k])
               /\ LargestGap(Times(obs)) <= gap =>
                     \A k \in 1..Len(runs) : runs[k].truncated => k \in {1, Len(runs)}
<1> DEFINE runs == DetectRuns(obs, gap)
           N == Len(obs)
<1>1. CASE N = 0
  <2>1. runs = <<>>
    BY <1>1, NoRuns
  <2> HIDE DEF runs
  <2>2. runs \in Seq(Run) /\ Len(runs) = 0
    BY <2>1
  <2> QED
    BY <1>1, <2>2 DEF OneRunEach, runs
<1>2. CASE N # 0
  <2>1. N \in Nat /\ Len(obs) > 0
    BY <1>2
  <2>2. PICK F, m : /\ Split(F, m, N, obs, gap) /\ runs \in Seq(Run) /\ Len(runs) = m
                    /\ \A k \in 1..m : runs[k] = RunOf(obs, gap, F[k], F[k + 1] - 1)
    BY <2>1, RunsArePieces
  <2> HIDE DEF runs, N
  <2>3. /\ m \in Nat /\ m >= 1 /\ \A k \in 1..(m + 1) : F[k] \in 1..(N + 1)
        /\ F[1] = 1 /\ F[m + 1] = N + 1
        /\ \A j, k \in 1..(m + 1) : j < k => F[j] < F[k]
        /\ \A k \in 1..m : /\ k + 1 \in 1..(m + 1)
                           /\ F[k] \in 1..N /\ F[k + 1] - 1 \in 1..N
                           /\ F[k] <= F[k + 1] - 1
    BY <2>1, <2>2, PiecesInOrder
  <2>4. ASSUME NEW k \in 1..m
        PROVE  /\ Inside(obs, runs[k]) = F[k]..(F[k + 1] - 1)
               /\ SeenAsOne(obs, gap, runs[k])
    <3>1. /\ F[k] \in 1..Len(obs) /\ F[k + 1] - 1 \in 1..Len(obs) /\ F[k] <= F[k + 1] - 1
          /\ runs[k] = RunOf(obs, gap, F[k], F[k + 1] - 1)
      BY <2>2, <2>3 DEF N
    <3>2. Even(obs, gap, F[k], F[k + 1] - 1)
      BY <2>2 DEF Split
    <3>3. Edge(obs, gap, F[k + 1] - 1)
      <4>1. CASE k = m
        <5>1. F[k + 1] - 1 = N
          BY <2>1, <2>3, <4>1
        <5>2. ~Near(obs, gap, N)
          BY <2>1 DEF Near, N
        <5> QED
          BY <5>1, <5>2 DEF Edge
      <4>2. CASE k # m
        <5>1. k \in 1..(m - 1)
          BY <2>3, <4>2
        <5> QED
          BY <2>2, <5>1 DEF Split
      <4> QED
        BY <4>1, <4>2
    <3> QED
      BY <3>1, <3>2, <3>3, PieceInside, PieceIsOne
  <2>5. OneRunEach(obs, runs)
    <3> SUFFICES ASSUME NEW i \in 1..N
                 PROVE  Cardinality({k \in 1..m : i \in Inside(obs, runs[k])}) = 1
      BY <2>2 DEF OneRunEach, N
    <3>1. PICK k \in 1..m : OnlyIn(F, m, i, k)
      BY <2>1, <2>2, OnePiece
    <3>2. {j \in 1..m : i \in Inside(obs, runs[j])} = {k}
      BY <2>4, <3>1 DEF OnlyIn
    <3> QED
      BY <3>2, FS_Singleton
  <2>6. ASSUME LargestGap(Times(obs)) <= gap, NEW k \in 1..m, k \notin {1, m}
        PROVE  ~runs[k].truncated
    <3>1. k \in 1..(m + 1) /\ k + 1 \in 1..(m + 1) /\ 1 < k /\ k + 1 < m + 1
          /\ 1 \in 1..(m + 1) /\ m + 1 \in 1..(m + 1)
      BY <2>3, <2>6
    <3>2. F[1] < F[k] /\ F[k + 1] < F[m + 1] /\ F[k] \in 1..N /\ F[k + 1] - 1 \in 1..N
      BY <2>3, <3>1
    <3>3. F[k] - 1 \in 1..(N - 1) /\ F[k + 1] - 1 \in 1..(N - 1)
      BY <2>1, <2>3, <3>2
    <3>4. Near(obs, gap, F[k] - 1) /\ Near(obs, gap, F[k + 1] - 1)
      BY <2>6, <3>3, NoHole DEF N
    <3>5. runs[k] = RunOf(obs, gap, F[k], F[k + 1] - 1)
      BY <2>2
    <3>6. RunOf(obs, gap, F[k], F[k + 1] - 1).truncated
             <=> ~(Near(obs, gap, F[k] - 1) /\ Near(obs, gap, F[k + 1] - 1))
      BY DEF RunOf
    <3> QED
      BY <3>4, <3>5, <3>6
  <2> QED
    BY <2>2, <2>4, <2>5, <2>6 DEF runs
<1> QED
  BY <1>1, <1>2

-------------------------------------------------------------------------------
(***************************************************************************)
(* Walking two streams together.                                           *)
(***************************************************************************)

\* The reading at place i is the nearest to an instant, the earlier of two: the
\* instant lies beyond the middle to the one before it, and not beyond the middle
\* to the one after.
After(stream, i, t) == i > 1 => stream[i - 1].at + stream[i].at < 2 * t

Until(stream, i, t) == i < Len(stream) => 2 * t <= stream[i].at + stream[i + 1].at

\* A place of a stream that no other is nearer than.
Nearest(stream, i, t) == i \in 1..Len(stream) /\ After(stream, i, t) /\ Until(stream, i, t)

\* Instants of a stream.
LEMMA InstantsAre ==
    ASSUME NEW stream \in Seq(Observation), InTime(stream)
    PROVE  /\ Len(stream) \in Nat
           /\ \A i \in 1..Len(stream) : stream[i].at \in Int /\ stream[i].value \in Int
           /\ \A i, j \in 1..Len(stream) : i < j <=> stream[i].at < stream[j].at
<1>1. \A i \in 1..Len(stream) : stream[i] \in Observation
  OBVIOUS
<1>2. \A i \in 1..Len(stream) : stream[i].at \in Int /\ stream[i].value \in Int
  BY <1>1 DEF Observation
<1>3. Len(stream) \in Nat
  OBVIOUS
<1>4. ASSUME NEW i \in 1..Len(stream), NEW j \in 1..Len(stream)
      PROVE  i < j <=> stream[i].at < stream[j].at
  <2>1. i < j => stream[i].at < stream[j].at
    BY DEF InTime
  <2>2. j < i => stream[j].at < stream[i].at
    BY DEF InTime
  <2>3. i < j \/ i = j \/ j < i
    BY <1>3
  <2> QED
    BY <1>2, <2>1, <2>2, <2>3
<1> QED
  BY <1>2, <1>3, <1>4

\* One reading is nearer than another that comes after it.
LEMMA Nearer ==
    ASSUME NEW s \in Int, NEW u \in Int, s < u, NEW t \in Int
    PROVE  /\ Dist(u, t) < Dist(s, t) <=> s + u < 2 * t
           /\ Dist(s, t) \in Nat /\ Dist(u, t) \in Nat
  BY DEF Dist

\* No reading is nearer than the nearest, and none before it is as near.
LEMMA NearestIs ==
    ASSUME NEW stream \in Seq(Observation), InTime(stream), NEW t \in Int,
           NEW i, Nearest(stream, i, t), NEW j \in 1..Len(stream)
    PROVE  /\ j < i => Dist(stream[i].at, t) < Dist(stream[j].at, t)
           /\ i < j => Dist(stream[i].at, t) <= Dist(stream[j].at, t)
<1>1. /\ Len(stream) \in Nat
      /\ \A k \in 1..Len(stream) : stream[k].at \in Int
      /\ \A k, l \in 1..Len(stream) : k < l <=> stream[k].at < stream[l].at
  BY InstantsAre
<1>2. i \in 1..Len(stream) /\ (i > 1 => stream[i - 1].at + stream[i].at < 2 * t)
      /\ (i < Len(stream) => 2 * t <= stream[i].at + stream[i + 1].at)
  BY DEF Nearest, After, Until
<1>3. ASSUME j < i PROVE Dist(stream[i].at, t) < Dist(stream[j].at, t)
  <2>1. i - 1 \in 1..Len(stream) /\ i > 1 /\ j <= i - 1
    BY <1>1, <1>2, <1>3
  <2>2. stream[j].at <= stream[i - 1].at
    <3>1. j < i - 1 \/ j = i - 1
      BY <1>1, <1>2, <2>1
    <3> QED
      BY <1>1, <2>1, <3>1
  <2>3. stream[j].at + stream[i].at < 2 * t /\ stream[j].at < stream[i].at
        /\ stream[i].at \in Int /\ stream[j].at \in Int
    BY <1>1, <1>2, <1>3, <2>1, <2>2
  <2> QED
    BY <2>3, Nearer
<1>4. ASSUME i < j PROVE Dist(stream[i].at, t) <= Dist(stream[j].at, t)
  <2>1. i + 1 \in 1..Len(stream) /\ i < Len(stream) /\ i + 1 <= j
    BY <1>1, <1>2, <1>4
  <2>2. stream[i + 1].at <= stream[j].at
    <3>1. i + 1 < j \/ i + 1 = j
      BY <1>1, <1>2, <2>1
    <3> QED
      BY <1>1, <2>1, <3>1
  <2>3. ~(stream[i].at + stream[j].at < 2 * t) /\ stream[i].at < stream[j].at
        /\ stream[i].at \in Int /\ stream[j].at \in Int
    BY <1>1, <1>2, <1>4, <2>1, <2>2
  <2>4. /\ ~(Dist(stream[j].at, t) < Dist(stream[i].at, t))
        /\ Dist(stream[j].at, t) \in Nat /\ Dist(stream[i].at, t) \in Nat
    BY <2>3, Nearer
  <2> QED
    BY <2>4
<1> QED
  BY <1>3, <1>4

\* The step along a stream ends at the nearest reading, if it starts before it or there.
LEMMA AdvanceIs ==
    ASSUME NEW stream \in Seq(Observation), InTime(stream), NEW t \in Int,
           NEW i \in 1..Len(stream)
    PROVE  LET a == Advance(stream, i, t) IN
           /\ a \in i..Len(stream) /\ a \in 1..Len(stream)
           /\ Until(stream, a, t)
           /\ i < a => After(stream, a, t)
           /\ After(stream, i, t) => Nearest(stream, a, t)
<1> DEFINE a == Advance(stream, i, t)
           S == {j \in i..Len(stream) :
                   j < Len(stream) => Dist(stream[j + 1].at, t) >= Dist(stream[j].at, t)}
<1>1. /\ Len(stream) \in Nat
      /\ \A k \in 1..Len(stream) : stream[k].at \in Int
      /\ \A k, l \in 1..Len(stream) : k < l <=> stream[k].at < stream[l].at
  BY InstantsAre
<1>2. a = Min(S)
  BY DEF Advance
<1>3. Len(stream) \in S /\ S \subseteq i..Len(stream) /\ S \subseteq Int /\ i \in Int
  BY <1>1
<1>4. IsFiniteSet(S)
  <2>1. IsFiniteSet(i..Len(stream))
    BY <1>1, FS_Interval
  <2> QED
    BY <1>3, <2>1, FS_Subset
<1>5. a \in S /\ \A y \in S : a <= y
  <2> HIDE DEF S
  <2>1. S # {}
    BY <1>3
  <2> QED
    BY <1>2, <1>3, <1>4, <2>1, Extremes
<1>6. a \in i..Len(stream) /\ a \in 1..Len(stream)
  BY <1>1, <1>5
<1> HIDE DEF a
<1>7. ASSUME a < Len(stream) PROVE 2 * t <= stream[a].at + stream[a + 1].at
  <2>1. a + 1 \in 1..Len(stream) /\ a < a + 1
    BY <1>1, <1>6, <1>7
  <2>2. stream[a].at < stream[a + 1].at /\ stream[a].at \in Int /\ stream[a + 1].at \in Int
    BY <1>1, <1>6, <2>1
  <2>3. Dist(stream[a + 1].at, t) >= Dist(stream[a].at, t)
    BY <1>5, <1>7
  <2>3a. /\ Dist(stream[a + 1].at, t) < Dist(stream[a].at, t)
               <=> stream[a].at + stream[a + 1].at < 2 * t
         /\ Dist(stream[a + 1].at, t) \in Nat /\ Dist(stream[a].at, t) \in Nat
    BY <2>2, Nearer
  <2>4. ~(stream[a].at + stream[a + 1].at < 2 * t)
    BY <2>3, <2>3a
  <2> QED
    BY <2>2, <2>4
<1>8. ASSUME i < a PROVE stream[a - 1].at + stream[a].at < 2 * t
  <2>1. a - 1 \in i..Len(stream) /\ a - 1 \in 1..Len(stream) /\ a - 1 < a /\ (a - 1) + 1 = a
        /\ ~(a <= a - 1) /\ a - 1 < Len(stream)
    BY <1>1, <1>6, <1>8
  <2>2. stream[a - 1].at < stream[a].at /\ stream[a].at \in Int /\ stream[a - 1].at \in Int
    BY <1>1, <1>6, <2>1
  <2>3. a - 1 \notin S
    <3> HIDE DEF S
    <3> QED
      BY <1>5, <2>1
  <2>4. ~(Dist(stream[a].at, t) >= Dist(stream[a - 1].at, t))
    BY <2>1, <2>3
  <2>5. /\ Dist(stream[a].at, t) < Dist(stream[a - 1].at, t)
               <=> stream[a - 1].at + stream[a].at < 2 * t
        /\ Dist(stream[a - 1].at, t) \in Nat /\ Dist(stream[a].at, t) \in Nat
    BY <2>2, Nearer
  <2> QED
    BY <2>4, <2>5
<1> HIDE DEF S
<1>9. Until(stream, a, t) /\ (i < a => After(stream, a, t))
  BY <1>7, <1>8 DEF Until, After
<1>10. After(stream, i, t) => Nearest(stream, a, t)
  <2>1. i = a \/ i < a
    BY <1>1, <1>6
  <2> QED
    BY <1>6, <1>9, <2>1 DEF Nearest
<1> QED
  BY <1>6, <1>9, <1>10 DEF a

\* What is beyond a middle stays so.
LEMMA AfterLater ==
    ASSUME NEW stream \in Seq(Observation), InTime(stream), NEW i \in 1..Len(stream),
           NEW t \in Int, NEW u \in Int, t <= u, After(stream, i, t)
    PROVE  After(stream, i, u)
<1> SUFFICES ASSUME i > 1 PROVE stream[i - 1].at + stream[i].at < 2 * u
  BY DEF After
<1>1. i - 1 \in 1..Len(stream)
  OBVIOUS
<1>2. stream[i - 1].at \in Int /\ stream[i].at \in Int
  BY <1>1, InstantsAre
<1>3. stream[i - 1].at + stream[i].at < 2 * t
  BY DEF After
<1> QED
  BY <1>2, <1>3

\* What passes a gate: the nearest reading of the signal says so.
Admitted(states, o, tolerance, expected) ==
    \E i : Nearest(states, i, o.at) /\ Admits(states, i, o.at, tolerance, expected)

\* How far the walk of a gate has come.
Gating(states) == [place: 1..Len(states), kept: Seq(Observation)]

\* One step of a gate.
LEMMA GateStepIs ==
    ASSUME NEW states \in Seq(Observation), InTime(states), NEW w \in Gating(states),
           NEW o \in Observation, NEW tolerance, NEW expected
    PROVE  LET next == GateStep(w, o, states, tolerance, expected) IN
           /\ next \in Gating(states)
           /\ After(states, w.place, o.at) =>
                 /\ Nearest(states, next.place, o.at)
                 /\ next.kept = IF Admits(states, next.place, o.at, tolerance, expected)
                                THEN Append(w.kept, o) ELSE w.kept
<1> DEFINE i == Advance(states, w.place, o.at)
           more == IF Admits(states, i, o.at, tolerance, expected)
                   THEN Append(w.kept, o) ELSE w.kept
           next == GateStep(w, o, states, tolerance, expected)
<1>1. w.place \in 1..Len(states) /\ w.kept \in Seq(Observation) /\ o.at \in Int
  BY DEF Gating, Observation
<1>2. i \in 1..Len(states) /\ (After(states, w.place, o.at) => Nearest(states, i, o.at))
  BY <1>1, AdvanceIs
<1>3. next = [place |-> i, kept |-> more]
  BY DEF GateStep
<1>4. more \in Seq(Observation)
  BY <1>1
<1> HIDE DEF i, next
<1>5. next.place = i /\ next.kept = more
  BY <1>3
<1> HIDE DEF more
<1>6. next \in Gating(states)
  BY <1>2, <1>3, <1>4 DEF Gating
<1> QED
  BY <1>2, <1>5, <1>6 DEF more, next

\* The walk of a gate, reading by reading.
LEMMA GateWalkIs ==
    ASSUME NEW obs \in Seq(Observation), NEW states \in Seq(Observation), InTime(states),
           Len(states) > 0, NEW tolerance, NEW expected
    PROVE  LET h == GateWalk(obs, states, tolerance, expected) IN
           /\ h \in [0..Len(obs) -> Gating(states)]
           /\ h[0] = [place |-> 1, kept |-> <<>>]
           /\ \A n \in 1..Len(obs) :
                 h[n] = GateStep(h[n - 1], obs[n], states, tolerance, expected)
<1> DEFINE N == Len(obs)
           W == Gating(states)
           base == [place |-> 1, kept |-> <<>>]
           Step(w, o) == GateStep(w, o, states, tolerance, expected)
           F == [n \in 1..N |-> [w \in W |-> Step(w, obs[n])]]
           Follows(g) == g = [n \in 0..N |-> IF n = 0 THEN base
                                             ELSE GateStep(g[n - 1], obs[n], states, tolerance, expected)]
<1>1. N \in Nat /\ base \in W
  BY DEF Gating
<1>2. \A n \in 1..N : \A w \in W : Step(w, obs[n]) \in W
  <2> TAKE n \in 1..N
  <2> TAKE w \in W
  <2>1. obs[n] \in Observation
    OBVIOUS
  <2> QED
    BY <2>1, GateStepIs
<1>3. PICK g : Iterates(g, F, N, W, base)
  <2>1. Stepping(F, N, W)
    BY <1>2 DEF Stepping
  <2> HIDE DEF F, N, W, base
  <2> QED
    BY <1>1, <2>1, Recursion
<1>4. \A n \in 1..N : g[n] = Step(g[n - 1], obs[n])
  <2> TAKE n \in 1..N
  <2>1. n - 1 \in 0..N /\ g[n - 1] \in W /\ g[n] = F[n][g[n - 1]]
    <3> HIDE DEF W, F, base
    <3>1. g \in [0..N -> W] /\ \A k \in 1..N : g[k] = F[k][g[k - 1]]
      BY <1>3 DEF Iterates
    <3>2. n - 1 \in 0..N
      BY <1>1
    <3> QED
      BY <3>1, <3>2
  <2> HIDE DEF W, Step
  <2> QED
    BY <2>1
<1>5. Follows(g)
  <2> HIDE DEF W, base, F
  <2> QED
    BY <1>3, <1>4 DEF Iterates
<1> DEFINE h == GateWalk(obs, states, tolerance, expected)
<1>6. h = CHOOSE f : Follows(f)
  BY DEF GateWalk
<1>7. Follows(h)
  <2> HIDE DEF Follows, h
  <2> QED
    BY <1>5, <1>6
<1>8. /\ DOMAIN h = 0..N /\ h[0] = base
      /\ \A n \in 1..N : h[n] = Step(h[n - 1], obs[n])
  <2> HIDE DEF base, h
  <2> QED
    BY <1>1, <1>7
<1>9. h = [n \in 0..N |-> h[n]]
  <2> HIDE DEF base
  <2> QED
    BY <1>7
<1> HIDE DEF h, Follows, W, base, Step, F
<1>10. 0..N \subseteq {n \in 0..N : h[n] \in W}
  <2> DEFINE G == {n \in 0..N : h[n] \in W}
  <2>1. 0 \in G
    BY <1>1, <1>8
  <2>2. ASSUME NEW n \in 0..(N - 1), n \in G PROVE n + 1 \in G
    <3>1. n + 1 \in 1..N /\ (n + 1) - 1 = n /\ h[n] \in W
      BY <1>1, <2>2
    <3>2. h[n + 1] = Step(h[n], obs[n + 1])
      BY <1>8, <3>1
    <3> QED
      BY <1>1, <1>2, <3>1, <3>2
  <2> HIDE DEF G, N
  <2>3. Inductive(G, 0, N)
    BY <2>1, <2>2 DEF Inductive
  <2>4. 0..N \subseteq G
    BY <1>1, <2>3, Climb
  <2> QED
    BY <2>4 DEF G
<1>11. h \in [0..N -> W]
  BY <1>9, <1>10
<1> QED
  BY <1>8, <1>11 DEF h, W, base, Step

\* What was kept of the first n readings.
KeptOf(kept, n, obs, states, tolerance, expected) ==
    /\ kept \in Seq(Observation) /\ Len(kept) <= n /\ InTime(kept)
    /\ \A k \in 1..Len(kept) : \E m \in 1..n :
          kept[k] = obs[m] /\ Admitted(states, obs[m], tolerance, expected)
    /\ \A m \in 1..n : Admitted(states, obs[m], tolerance, expected) =>
          \E k \in 1..Len(kept) : kept[k] = obs[m]

\* There is one nearest reading.
LEMMA OneNearest ==
    ASSUME NEW stream \in Seq(Observation), InTime(stream), NEW t \in Int,
           NEW i, Nearest(stream, i, t), NEW j, Nearest(stream, j, t)
    PROVE  i = j
<1>1. i \in 1..Len(stream) /\ j \in 1..Len(stream) /\ Len(stream) \in Nat
  BY DEF Nearest
<1>2. /\ j < i => Dist(stream[i].at, t) < Dist(stream[j].at, t)
      /\ i < j => Dist(stream[i].at, t) <= Dist(stream[j].at, t)
      /\ i < j => Dist(stream[j].at, t) < Dist(stream[i].at, t)
      /\ j < i => Dist(stream[j].at, t) <= Dist(stream[i].at, t)
  BY <1>1, NearestIs
<1>3. Dist(stream[i].at, t) \in Int /\ Dist(stream[j].at, t) \in Int
  BY <1>1, InstantsAre DEF Dist
<1> QED
  BY <1>1, <1>2, <1>3

\* A gate keeps what it admits, and nothing else.
LEMMA GatedIs ==
    ASSUME NEW obs \in Seq(Observation), InTime(obs), NEW states \in Seq(Observation), InTime(states),
           Len(states) > 0, NEW tolerance, NEW expected
    PROVE  KeptOf(Gated(obs, states, tolerance, expected), Len(obs), obs, states, tolerance, expected)
<1> DEFINE N == Len(obs)
           h == GateWalk(obs, states, tolerance, expected)
           Good(n) == /\ KeptOf(h[n].kept, n, obs, states, tolerance, expected)
                      /\ n > 0 => After(states, h[n].place, obs[n].at)
           G == {n \in 0..N : Good(n)}
<1>1. /\ h \in [0..N -> Gating(states)] /\ h[0] = [place |-> 1, kept |-> <<>>]
      /\ \A n \in 1..N : h[n] = GateStep(h[n - 1], obs[n], states, tolerance, expected)
  BY GateWalkIs
<1>2. N \in Nat /\ Len(states) \in Nat
  OBVIOUS
<1> HIDE DEF h
<1>3. 0 \in G
  <2>1. h[0].kept = <<>> /\ 0 \in 0..N
    BY <1>1, <1>2
  <2>2. /\ <<>> \in Seq(Observation) /\ Len(<<>>) <= 0
        /\ \A k \in 1..Len(<<>>) : FALSE
        /\ \A m \in 1..0 : FALSE
    OBVIOUS
  <2>3. KeptOf(h[0].kept, 0, obs, states, tolerance, expected)
    <3>1. InTime(<<>>)
      BY <2>2 DEF InTime
    <3> QED
      BY <2>1, <2>2, <3>1 DEF KeptOf
  <2> QED
    BY <2>1, <2>3
<1>4. ASSUME NEW n \in 0..(N - 1), n \in G PROVE n + 1 \in G
  <2> DEFINE w == h[n]
             next == h[n + 1]
             o == obs[n + 1]
             yes == Admits(states, next.place, o.at, tolerance, expected)
  <2>1. /\ n + 1 \in 1..N /\ (n + 1) - 1 = n /\ n \in 0..N /\ n \in Nat /\ n + 1 \in 0..N
        /\ w \in Gating(states) /\ o \in Observation
    BY <1>1, <1>2
  <2>2. next = GateStep(w, o, states, tolerance, expected)
    BY <1>1, <2>1
  <2>3. KeptOf(w.kept, n, obs, states, tolerance, expected)
    BY <1>4
  <2>4. o.at \in Int /\ w.place \in 1..Len(states)
    BY <2>1 DEF Observation, Gating
  <2>5. After(states, w.place, o.at)
    <3>1. CASE n = 0
      <4>1. w.place = 1
        BY <1>1, <3>1
      <4> HIDE DEF w
      <4> QED
        BY <4>1 DEF After
    <3>2. CASE n # 0
      <4>1. n \in 1..N /\ n < n + 1
        BY <2>1, <3>2
      <4>2. obs[n].at \in Int /\ obs[n].at < o.at
        BY <2>1, <4>1, InstantsAre
      <4>3. After(states, w.place, obs[n].at)
        BY <1>4, <4>1
      <4>4. obs[n].at <= o.at /\ o.at \in Int /\ obs[n].at \in Int
        BY <2>4, <4>2
      <4> HIDE DEF w, o
      <4> QED
        BY <2>4, <4>3, <4>4, AfterLater
    <3> QED
      BY <3>1, <3>2
  <2> HIDE DEF w, o
  <2>6. Nearest(states, next.place, o.at) /\ next.kept = IF yes THEN Append(w.kept, o) ELSE w.kept
    BY <2>1, <2>2, <2>5, GateStepIs
  <2>7. Admitted(states, o, tolerance, expected) <=> yes
    <3>1. yes => Admitted(states, o, tolerance, expected)
      BY <2>6 DEF Admitted
    <3>2. ASSUME NEW i, Nearest(states, i, o.at), Admits(states, i, o.at, tolerance, expected) PROVE yes
      <4>1. i = next.place
        BY <2>4, <2>6, <3>2, OneNearest
      <4> QED
        BY <3>2, <4>1
    <3> QED
      BY <3>1, <3>2 DEF Admitted
  <2>8. After(states, next.place, o.at)
    BY <2>6 DEF Nearest
  <2>9. o = obs[n + 1]
    BY DEF o
  <2> HIDE DEF next, yes
  <2>10. KeptOf(next.kept, n + 1, obs, states, tolerance, expected)
    <3> DEFINE s == w.kept
               t == next.kept
    <3>1. /\ s \in Seq(Observation) /\ Len(s) <= n /\ InTime(s)
          /\ \A k \in 1..Len(s) : \E m \in 1..n :
                s[k] = obs[m] /\ Admitted(states, obs[m], tolerance, expected)
          /\ \A m \in 1..n : Admitted(states, obs[m], tolerance, expected) =>
                \E k \in 1..Len(s) : s[k] = obs[m]
      BY <2>3 DEF KeptOf
    <3>2. Len(s) \in Nat
      BY <3>1
    <3> HIDE DEF s
    <3>3. CASE ~yes
      <4>1. t = s
        BY <2>6, <3>3 DEF s
      <4>2. \A m \in 1..(n + 1) : m \in 1..n \/ m = n + 1
        BY <2>1
      <4>3. \A m \in 1..n : m \in 1..(n + 1)
        BY <2>1
      <4>4. Len(t) <= n + 1
        BY <2>1, <3>1, <3>2, <4>1
      <4> HIDE DEF t
      <4>5. \A k \in 1..Len(t) : \E m \in 1..(n + 1) :
               t[k] = obs[m] /\ Admitted(states, obs[m], tolerance, expected)
        BY <3>1, <4>1, <4>3
      <4>6. \A m \in 1..(n + 1) : Admitted(states, obs[m], tolerance, expected) =>
               \E k \in 1..Len(t) : t[k] = obs[m]
        BY <2>7, <2>9, <3>1, <3>3, <4>1, <4>2
      <4> QED
        BY <3>1, <4>1, <4>4, <4>5, <4>6 DEF KeptOf, t
    <3>4. CASE yes
      <4>1. t = Append(s, o)
        BY <2>6, <3>4 DEF s
      <4> HIDE DEF t
      <4>2. /\ t \in Seq(Observation) /\ Len(t) = Len(s) + 1 /\ t[Len(s) + 1] = o
            /\ \A k \in 1..Len(s) : t[k] = s[k]
        BY <2>1, <3>1, <4>1
      <4>3. ASSUME NEW k \in 1..Len(t)
            PROVE  \E m \in 1..(n + 1) :
                      t[k] = obs[m] /\ Admitted(states, obs[m], tolerance, expected)
        <5>1. CASE k = Len(s) + 1
          <6>1. n + 1 \in 1..(n + 1)
            BY <2>1
          <6> QED
            BY <2>7, <2>9, <3>4, <4>2, <5>1, <6>1
        <5>2. CASE k # Len(s) + 1
          <6>1. k \in 1..Len(s)
            BY <3>2, <4>2, <5>2
          <6>2. PICK m \in 1..n : s[k] = obs[m] /\ Admitted(states, obs[m], tolerance, expected)
            BY <3>1, <6>1
          <6>3. m \in 1..(n + 1)
            BY <2>1
          <6> QED
            BY <4>2, <6>1, <6>2, <6>3
        <5> QED
          BY <5>1, <5>2
      <4>4. ASSUME NEW m \in 1..(n + 1), Admitted(states, obs[m], tolerance, expected)
            PROVE  \E k \in 1..Len(t) : t[k] = obs[m]
        <5>1. CASE m = n + 1
          <6>1. Len(s) + 1 \in 1..Len(t)
            BY <3>2, <4>2
          <6> QED
            BY <2>9, <4>2, <5>1, <6>1
        <5>2. CASE m # n + 1
          <6>1. m \in 1..n
            BY <2>1, <5>2
          <6>2. PICK k \in 1..Len(s) : s[k] = obs[m]
            BY <3>1, <4>4, <6>1
          <6>3. k \in 1..Len(t)
            BY <3>2, <4>2
          <6> QED
            BY <4>2, <6>2, <6>3
        <5> QED
          BY <5>1, <5>2
      <4>5. Len(t) <= n + 1
        BY <2>1, <3>1, <3>2, <4>2
      <4>7. InTime(t)
        <5> SUFFICES ASSUME NEW i \in 1..Len(t), NEW j \in 1..Len(t), i < j
                     PROVE  t[i].at < t[j].at
          BY DEF InTime
        <5>1. i \in 1..Len(s) /\ (j \in 1..Len(s) \/ j = Len(s) + 1)
          BY <3>2, <4>2
        <5>2. CASE j \in 1..Len(s)
          BY <3>1, <4>2, <5>1, <5>2 DEF InTime
        <5>3. CASE j = Len(s) + 1
          <6>1. PICK m \in 1..n : s[i] = obs[m]
            BY <3>1, <5>1
          <6>2. m \in 1..N /\ m < n + 1
            BY <1>2, <2>1
          <6>3. obs[m].at < obs[n + 1].at
            BY <2>1, <6>2 DEF InTime
          <6> QED
            BY <2>9, <4>2, <5>1, <5>3, <6>1, <6>3
        <5> QED
          BY <5>1, <5>2, <5>3
      <4>6. KeptOf(t, n + 1, obs, states, tolerance, expected)
        BY <4>2, <4>3, <4>4, <4>5, <4>7 DEF KeptOf
      <4> QED
        BY <4>6 DEF t
    <3> QED
      BY <3>3, <3>4
  <2> QED
    BY <2>1, <2>8, <2>10 DEF next, o
<1> HIDE DEF G
<1>5. N \in G
  <2> HIDE DEF N
  <2>1. Inductive(G, 0, N)
    BY <1>3, <1>4 DEF Inductive
  <2>2. N \in 0..N
    BY <1>2
  <2> QED
    BY <1>2, <2>1, <2>2, Climb
<1>6. KeptOf(h[N].kept, N, obs, states, tolerance, expected)
  BY <1>5 DEF G
<1> QED
  BY <1>6 DEF Gated, h

\* A pair, and how far a walk over two streams has come.
Couple == [left: Observation, right: Observation]

Pairing(right) == [place: 1..(Len(right) + 1), pairs: Seq(Couple)]

\* One step of the pairing: nothing is left of the right side, or the reading is
\* near enough to be taken, or it is passed over.
LEMMA PairStepIs ==
    ASSUME NEW right \in Seq(Observation), InTime(right), NEW w \in Pairing(right),
           NEW o \in Observation, NEW tolerance
    PROVE  LET next == PairStep(w, o, right, tolerance)
               i == Advance(right, w.place, o.at)
               near == Dist(right[i].at, o.at) <= tolerance
           IN  /\ next \in Pairing(right)
               /\ w.place > Len(right) => next = w
               /\ ~(w.place > Len(right)) =>
                     /\ i \in w.place..Len(right) /\ i \in 1..Len(right)
                     /\ Until(right, i, o.at) /\ (w.place < i => After(right, i, o.at))
                     /\ next.place = IF near THEN i + 1 ELSE i
                     /\ next.pairs = IF near THEN Append(w.pairs, [left |-> o, right |-> right[i]])
                                     ELSE w.pairs
<1> DEFINE i == Advance(right, w.place, o.at)
           near == Dist(right[i].at, o.at) <= tolerance
           c == [left |-> o, right |-> right[i]]
           next == PairStep(w, o, right, tolerance)
<1>1. w.place \in 1..(Len(right) + 1) /\ w.pairs \in Seq(Couple) /\ o.at \in Int
      /\ w = [place |-> w.place, pairs |-> w.pairs] /\ Len(right) \in Nat
  BY DEF Pairing, Observation
<1>2. CASE w.place > Len(right)
  <2>1. next = w
    BY <1>2 DEF PairStep
  <2> QED
    BY <1>2, <2>1
<1>3. CASE ~(w.place > Len(right))
  <2>1. w.place \in 1..Len(right)
    BY <1>1, <1>3
  <2>2. /\ i \in w.place..Len(right) /\ i \in 1..Len(right)
        /\ Until(right, i, o.at) /\ (w.place < i => After(right, i, o.at))
    BY <1>1, <2>1, AdvanceIs
  <2>3. right[i] \in Observation
    BY <2>2
  <2>4. c \in Couple
    BY <2>3 DEF Couple
  <2>5. next = IF near THEN [place |-> i + 1, pairs |-> Append(w.pairs, c)]
               ELSE [place |-> i, pairs |-> w.pairs]
    <3>1. ~near => [w EXCEPT !.place = i] = [place |-> i, pairs |-> w.pairs]
      BY <1>1
    <3>2. next = IF near THEN Take(w, o, right, i) ELSE [w EXCEPT !.place = i]
      BY <1>3 DEF PairStep
    <3>3. Take(w, o, right, i) = [place |-> i + 1, pairs |-> Append(w.pairs, c)]
      BY DEF Take
    <3> HIDE DEF next, near, i, c
    <3> QED
      BY <3>1, <3>2, <3>3
  <2> HIDE DEF i, near, next, c
  <2>6. Append(w.pairs, c) \in Seq(Couple) /\ i + 1 \in 1..(Len(right) + 1) /\ i \in 1..(Len(right) + 1)
    BY <1>1, <2>2, <2>4
  <2>7. next.place = IF near THEN i + 1 ELSE i
    BY <2>5
  <2>8. next.pairs = IF near THEN Append(w.pairs, c) ELSE w.pairs
    BY <2>5
  <2>9. next \in Pairing(right)
    BY <1>1, <2>5, <2>6 DEF Pairing
  <2> QED
    BY <1>3, <2>2, <2>7, <2>8, <2>9 DEF i, near, next, c
<1> QED
  BY <1>2, <1>3

\* The walk along the left side, reading by reading.
LEMMA PairWalkIs ==
    ASSUME NEW left \in Seq(Observation), NEW right \in Seq(Observation), InTime(right), NEW tolerance
    PROVE  LET h == PairWalk(left, right, tolerance) IN
           /\ h \in [0..Len(left) -> Pairing(right)]
           /\ h[0] = [place |-> 1, pairs |-> <<>>]
           /\ \A n \in 1..Len(left) : h[n] = PairStep(h[n - 1], left[n], right, tolerance)
<1> DEFINE N == Len(left)
           W == Pairing(right)
           base == [place |-> 1, pairs |-> <<>>]
           Step(w, o) == PairStep(w, o, right, tolerance)
           F == [n \in 1..N |-> [w \in W |-> Step(w, left[n])]]
           Follows(g) == g = [n \in 0..N |-> IF n = 0 THEN base
                                             ELSE PairStep(g[n - 1], left[n], right, tolerance)]
<1>1. N \in Nat /\ base \in W
  <2>1. <<>> \in Seq(Couple) /\ 1 \in 1..(Len(right) + 1)
    OBVIOUS
  <2> QED
    BY <2>1 DEF Pairing
<1>2. \A n \in 1..N : \A w \in W : Step(w, left[n]) \in W
  <2> TAKE n \in 1..N
  <2> TAKE w \in W
  <2>1. left[n] \in Observation
    OBVIOUS
  <2> QED
    BY <2>1, PairStepIs
<1>3. PICK g : Iterates(g, F, N, W, base)
  <2>1. Stepping(F, N, W)
    BY <1>2 DEF Stepping
  <2> HIDE DEF F, N, W, base
  <2> QED
    BY <1>1, <2>1, Recursion
<1>4. \A n \in 1..N : g[n] = Step(g[n - 1], left[n])
  <2> TAKE n \in 1..N
  <2>1. n - 1 \in 0..N /\ g[n - 1] \in W /\ g[n] = F[n][g[n - 1]]
    <3> HIDE DEF W, F, base
    <3>1. g \in [0..N -> W] /\ \A k \in 1..N : g[k] = F[k][g[k - 1]]
      BY <1>3 DEF Iterates
    <3>2. n - 1 \in 0..N
      BY <1>1
    <3> QED
      BY <3>1, <3>2
  <2> HIDE DEF W, Step
  <2> QED
    BY <2>1
<1>5. Follows(g)
  <2> HIDE DEF W, base, F
  <2> QED
    BY <1>3, <1>4 DEF Iterates
<1> DEFINE h == PairWalk(left, right, tolerance)
<1>6. h = CHOOSE f : Follows(f)
  BY DEF PairWalk
<1>7. Follows(h)
  <2> HIDE DEF Follows, h
  <2> QED
    BY <1>5, <1>6
<1>8. /\ DOMAIN h = 0..N /\ h[0] = base
      /\ \A n \in 1..N : h[n] = Step(h[n - 1], left[n])
  <2> HIDE DEF base, h
  <2> QED
    BY <1>1, <1>7
<1>9. h = [n \in 0..N |-> h[n]]
  <2> HIDE DEF base
  <2> QED
    BY <1>7
<1> HIDE DEF h, Follows, W, base, Step, F
<1>10. 0..N \subseteq {n \in 0..N : h[n] \in W}
  <2> DEFINE G == {n \in 0..N : h[n] \in W}
  <2>1. 0 \in G
    BY <1>1, <1>8
  <2>2. ASSUME NEW n \in 0..(N - 1), n \in G PROVE n + 1 \in G
    <3>1. n + 1 \in 1..N /\ (n + 1) - 1 = n /\ h[n] \in W
      BY <1>1, <2>2
    <3>2. h[n + 1] = Step(h[n], left[n + 1])
      BY <1>8, <3>1
    <3> QED
      BY <1>1, <1>2, <3>1, <3>2
  <2> HIDE DEF G, N
  <2>3. Inductive(G, 0, N)
    BY <2>1, <2>2 DEF Inductive
  <2>4. 0..N \subseteq G
    BY <1>1, <2>3, Climb
  <2> QED
    BY <2>4 DEF G
<1>11. h \in [0..N -> W]
  BY <1>9, <1>10
<1> QED
  BY <1>8, <1>11 DEF h, W, base, Step

\* What was paired of the first n readings on the left and the first p - 1 on the
\* right.
PairedOff(w, n, left, right, tolerance) ==
    /\ w.pairs \in Seq(Couple) /\ Len(w.pairs) <= n /\ Len(w.pairs) <= w.place - 1
    /\ \A k \in 1..Len(w.pairs) :
          /\ \E m \in 1..n : w.pairs[k].left = left[m]
          /\ \E m \in 1..(w.place - 1) : w.pairs[k].right = right[m]
          /\ Dist(w.pairs[k].left.at, w.pairs[k].right.at) <= tolerance
    /\ \A j, k \in 1..Len(w.pairs) : j < k =>
          w.pairs[j].left.at < w.pairs[k].left.at /\ w.pairs[j].right.at < w.pairs[k].right.at

\* A step pairs off what it takes.
LEMMA PairsOff ==
    ASSUME NEW left \in Seq(Observation), InTime(left), NEW right \in Seq(Observation), InTime(right),
           NEW tolerance, NEW n \in Nat, n + 1 \in 1..Len(left), NEW w \in Pairing(right),
           PairedOff(w, n, left, right, tolerance)
    PROVE  PairedOff(PairStep(w, left[n + 1], right, tolerance), n + 1, left, right, tolerance)
<1> DEFINE o == left[n + 1]
           next == PairStep(w, o, right, tolerance)
           i == Advance(right, w.place, o.at)
           near == Dist(right[i].at, o.at) <= tolerance
           c == [left |-> o, right |-> right[i]]
           s == w.pairs
           t == next.pairs
           p == w.place
<1>1. o \in Observation /\ o.at \in Int /\ p \in 1..(Len(right) + 1) /\ Len(right) \in Nat
  <2>1. o \in Observation
    OBVIOUS
  <2> QED
    BY <2>1 DEF Observation, Pairing
<1>2. /\ s \in Seq(Couple) /\ Len(s) <= n /\ Len(s) <= p - 1
      /\ \A k \in 1..Len(s) :
            /\ \E m \in 1..n : s[k].left = left[m]
            /\ \E m \in 1..(p - 1) : s[k].right = right[m]
            /\ Dist(s[k].left.at, s[k].right.at) <= tolerance
      /\ \A j, k \in 1..Len(s) : j < k => s[j].left.at < s[k].left.at /\ s[j].right.at < s[k].right.at
  BY DEF PairedOff
<1>3. /\ next \in Pairing(right)
      /\ p > Len(right) => next = w
      /\ ~(p > Len(right)) =>
            /\ i \in p..Len(right) /\ i \in 1..Len(right)
            /\ next.place = IF near THEN i + 1 ELSE i
            /\ t = IF near THEN Append(s, c) ELSE s
  <2> HIDE DEF o
  <2> QED
    BY <1>1, PairStepIs
<1>4. /\ \A k, l \in 1..Len(right) : k < l <=> right[k].at < right[l].at
      /\ \A k, l \in 1..Len(left) : k < l <=> left[k].at < left[l].at
  BY InstantsAre
<1>5. Len(s) \in Nat /\ Len(left) \in Nat
  BY <1>2
<1>6. c.left = o /\ c.right = right[i]
  OBVIOUS
<1>7. o = left[n + 1]
  OBVIOUS
<1> HIDE DEF o, i, near, next, s, t, p, c
<1>8. CASE t = s /\ p <= next.place /\ next.place \in Nat
  <2>1. Len(s) <= n + 1 /\ Len(s) <= next.place - 1
    BY <1>1, <1>2, <1>5, <1>8
  <2>2. \A m \in 1..n : m \in 1..(n + 1)
    OBVIOUS
  <2>3. \A m \in 1..(p - 1) : m \in 1..(next.place - 1)
    BY <1>1, <1>8
  <2>4. \A k \in 1..Len(s) :
            /\ \E m \in 1..(n + 1) : s[k].left = left[m]
            /\ \E m \in 1..(next.place - 1) : s[k].right = right[m]
            /\ Dist(s[k].left.at, s[k].right.at) <= tolerance
    BY <1>2, <2>2, <2>3
  <2>5. next.pairs = s
    BY <1>8 DEF t
  <2> QED
    BY <1>2, <2>1, <2>4, <2>5, <1>7 DEF PairedOff, next, o
<1>9. CASE ~(p > Len(right)) /\ near
  <2>1. /\ i \in p..Len(right) /\ i \in 1..Len(right)
        /\ next.place = i + 1 /\ t = Append(s, c)
    BY <1>3, <1>9
  <2>2. c \in Couple
    <3>1. right[i] \in Observation
      BY <2>1
    <3> QED
      BY <1>1, <3>1 DEF c, Couple
  <2>3. /\ t \in Seq(Couple) /\ Len(t) = Len(s) + 1 /\ t[Len(s) + 1] = c
        /\ \A k \in 1..Len(s) : t[k] = s[k]
    BY <1>2, <2>1, <2>2
  <2>4. Len(t) <= n + 1 /\ Len(t) <= next.place - 1
    BY <1>1, <1>2, <1>5, <2>1, <2>3
  <2>5. next.place - 1 = i
    BY <1>1, <2>1
  <2>6. Dist(o.at, right[i].at) <= tolerance
    <3>1. right[i].at \in Int
      BY <2>1, InstantsAre
    <3>2. Dist(o.at, right[i].at) = Dist(right[i].at, o.at)
      BY <1>1, <3>1 DEF Dist
    <3> QED
      BY <1>9, <3>2 DEF near
  <2>7. ASSUME NEW k \in 1..Len(t)
        PROVE  /\ \E m \in 1..(n + 1) : t[k].left = left[m]
               /\ \E m \in 1..(next.place - 1) : t[k].right = right[m]
               /\ Dist(t[k].left.at, t[k].right.at) <= tolerance
    <3>1. CASE k = Len(s) + 1
      <4>1. t[k].left = left[n + 1] /\ t[k].right = right[i]
        BY <1>6, <1>7, <2>3, <3>1
      <4>2. n + 1 \in 1..(n + 1) /\ i \in 1..(next.place - 1)
        BY <2>1, <2>5
      <4> QED
        BY <1>6, <1>7, <2>6, <4>1, <4>2
    <3>2. CASE k # Len(s) + 1
      <4>1. k \in 1..Len(s) /\ t[k] = s[k]
        BY <1>5, <2>3, <3>2
      <4>2. PICK a \in 1..n : s[k].left = left[a]
        BY <1>2, <4>1
      <4>3. PICK b \in 1..(p - 1) : s[k].right = right[b]
        BY <1>2, <4>1
      <4>4. a \in 1..(n + 1) /\ b \in 1..(next.place - 1)
        BY <1>1, <2>1, <2>5
      <4> QED
        BY <1>2, <4>1, <4>2, <4>3, <4>4
    <3> QED
      BY <3>1, <3>2
  <2>8. ASSUME NEW j \in 1..Len(t), NEW k \in 1..Len(t), j < k
        PROVE  t[j].left.at < t[k].left.at /\ t[j].right.at < t[k].right.at
    <3>1. j \in 1..Len(s) /\ (k \in 1..Len(s) \/ k = Len(s) + 1)
      BY <1>5, <2>3, <2>8
    <3>2. CASE k \in 1..Len(s)
      BY <1>2, <2>3, <2>8, <3>1, <3>2
    <3>3. CASE k = Len(s) + 1
      <4>1. t[k].left = left[n + 1] /\ t[k].right = right[i]
        BY <1>6, <1>7, <2>3, <3>3
      <4>2. PICK a \in 1..n : s[j].left = left[a]
        BY <1>2, <3>1
      <4>3. PICK b \in 1..(p - 1) : s[j].right = right[b]
        BY <1>2, <3>1
      <4>4. a \in 1..Len(left) /\ n + 1 \in 1..Len(left) /\ a < n + 1
        BY <1>5
      <4>5. b \in 1..Len(right) /\ b < i
        BY <1>1, <2>1
      <4>6. left[a].at < left[n + 1].at /\ right[b].at < right[i].at
        BY <1>4, <2>1, <4>4, <4>5
      <4> QED
        BY <2>3, <3>1, <4>1, <4>2, <4>3, <4>6
    <3> QED
      BY <3>1, <3>2, <3>3
  <2>9. next.pairs = t
    BY DEF t
  <2> QED
    BY <1>7, <2>3, <2>4, <2>7, <2>8, <2>9 DEF PairedOff, next, o
<1>10. ASSUME ~(~(p > Len(right)) /\ near) PROVE t = s /\ p <= next.place /\ next.place \in Nat
  <2>1. CASE p > Len(right)
    <3>1. next = w
      BY <1>3, <2>1
    <3> QED
      BY <1>1, <3>1 DEF t, s, p
  <2>2. CASE ~(p > Len(right))
    <3>1. i \in p..Len(right) /\ next.place = i /\ t = s
      BY <1>3, <1>10, <2>2
    <3> QED
      BY <1>1, <3>1
  <2> QED
    BY <2>1, <2>2
<1> QED
  BY <1>8, <1>9, <1>10

\* Readings that follow each other are more than twice the tolerance apart.
Apart(stream, tolerance) ==
    \A i \in 1..(Len(stream) - 1) : stream[i + 1].at - stream[i].at > 2 * tolerance

\* And so are any two.
LEMMA FarApart ==
    ASSUME NEW stream \in Seq(Observation), InTime(stream), NEW tolerance \in Int,
           Apart(stream, tolerance), NEW i \in 1..Len(stream), NEW j \in 1..Len(stream), i < j
    PROVE  stream[j].at - stream[i].at > 2 * tolerance
<1>1. /\ Len(stream) \in Nat
      /\ \A k \in 1..Len(stream) : stream[k].at \in Int
      /\ \A k, l \in 1..Len(stream) : k < l <=> stream[k].at < stream[l].at
  BY InstantsAre
<1>2. i \in 1..(Len(stream) - 1) /\ i + 1 \in 1..Len(stream) /\ (i + 1 = j \/ i + 1 < j)
  BY <1>1
<1>3. stream[i + 1].at - stream[i].at > 2 * tolerance
  BY <1>2 DEF Apart
<1>4. stream[i + 1].at <= stream[j].at
  BY <1>1, <1>2
<1> QED
  BY <1>1, <1>2, <1>3, <1>4

\* Two readings that may be paired.
InReach(o, q, tolerance) == Dist(o.at, q.at) <= tolerance

\* Of the first n readings on the left no partner is missed, and what the right
\* side has been walked past is near no later one.
Complete(w, n, left, right, tolerance) ==
    /\ \A a \in 1..n : \A b \in 1..Len(right) :
          InReach(left[a], right[b], tolerance) =>
             \E k \in 1..Len(w.pairs) : w.pairs[k] = [left |-> left[a], right |-> right[b]]
    /\ \A a \in 1..Len(left) : \A b \in 1..Len(right) :
          n < a /\ b < w.place => ~InReach(left[a], right[b], tolerance)

\* What near means, in numbers.
LEMMA InReachIs ==
    ASSUME NEW s \in Int, NEW t \in Int, NEW tolerance \in Int
    PROVE  /\ Dist(s, t) <= tolerance <=> s - t <= tolerance /\ t - s <= tolerance
           /\ Dist(s, t) = Dist(t, s)
  BY DEF Dist

\* Beyond the middle of two is beyond the first of them.
LEMMA BeyondFirst ==
    ASSUME NEW s \in Int, NEW u \in Int, NEW t \in Int, s < u, s + u < 2 * t
    PROVE  s < t /\ t - s >= u - t
  OBVIOUS

\* An instant that is not beyond the middle of two, and near the second, is nearer
\* to the first than the two are apart.
LEMMA NotBeyond ==
    ASSUME NEW s \in Int, NEW u \in Int, NEW v \in Int, NEW t \in Int, NEW tolerance \in Int,
           2 * t <= s + u, u <= v, v - t <= tolerance
    PROVE  ~(v - s > 2 * tolerance)
  OBVIOUS

\* A step misses nothing.
LEMMA PairsComplete ==
    ASSUME NEW left \in Seq(Observation), InTime(left), NEW right \in Seq(Observation), InTime(right),
           NEW tolerance \in Nat, Apart(left, tolerance), Apart(right, tolerance),
           NEW n \in Nat, n + 1 \in 1..Len(left), NEW w \in Pairing(right),
           Complete(w, n, left, right, tolerance)
    PROVE  Complete(PairStep(w, left[n + 1], right, tolerance), n + 1, left, right, tolerance)
<1> DEFINE o == left[n + 1]
           next == PairStep(w, o, right, tolerance)
           i == Advance(right, w.place, o.at)
           near == Dist(right[i].at, o.at) <= tolerance
           c == [left |-> o, right |-> right[i]]
           s == w.pairs
           t == next.pairs
           p == w.place
           Pair(a, b) == [left |-> left[a], right |-> right[b]]
<1>1. o \in Observation /\ o.at \in Int /\ p \in 1..(Len(right) + 1) /\ Len(right) \in Nat
      /\ s \in Seq(Couple)
  <2>1. o \in Observation
    OBVIOUS
  <2> QED
    BY <2>1 DEF Observation, Pairing
<1>1a. o.at \in Int /\ tolerance \in Int /\ tolerance >= 0
  BY <1>1
<1>1b. p \in 1..(Len(right) + 1) /\ Len(right) \in Nat
  BY <1>1
<1>2. /\ \A a \in 1..n : \A b \in 1..Len(right) : InReach(left[a], right[b], tolerance) =>
             \E k \in 1..Len(s) : s[k] = Pair(a, b)
      /\ \A a \in 1..Len(left) : \A b \in 1..Len(right) :
             n < a /\ b < p => ~InReach(left[a], right[b], tolerance)
  BY DEF Complete
<1>3. /\ next \in Pairing(right)
      /\ p > Len(right) => next = w
      /\ ~(p > Len(right)) =>
            /\ i \in p..Len(right) /\ i \in 1..Len(right)
            /\ Until(right, i, o.at) /\ (p < i => After(right, i, o.at))
            /\ next.place = IF near THEN i + 1 ELSE i
            /\ t = IF near THEN Append(s, c) ELSE s
  <2> HIDE DEF o
  <2> QED
    BY <1>1, PairStepIs
<1>4. /\ \A k, l \in 1..Len(right) : k < l <=> right[k].at < right[l].at
      /\ \A k \in 1..Len(right) : right[k].at \in Int
      /\ \A k \in 1..Len(left) : left[k].at \in Int
      /\ Len(left) \in Nat
  BY InstantsAre
<1>5. \A a \in 1..Len(left) : n + 1 < a => left[a].at > o.at + 2 * tolerance
  <2> SUFFICES ASSUME NEW a \in 1..Len(left), n + 1 < a PROVE left[a].at > o.at + 2 * tolerance
    OBVIOUS
  <2>1. left[a].at - left[n + 1].at > 2 * tolerance
    BY FarApart
  <2>2. left[a].at \in Int /\ left[n + 1].at \in Int
    BY <1>4
  <2> QED
    BY <2>1, <2>2
<1>6. \A a \in 1..Len(left) : \A b \in 1..Len(right) :
         InReach(left[a], right[b], tolerance) <=>
            left[a].at - right[b].at <= tolerance /\ right[b].at - left[a].at <= tolerance
  BY <1>4, InReachIs DEF InReach
<1>7. \A b \in 1..Len(right) : InReach(o, right[b], tolerance) <=>
            o.at - right[b].at <= tolerance /\ right[b].at - o.at <= tolerance
  BY <1>6
<1>8. o = left[n + 1] /\ \A a \in 1..(n + 1) : a = n + 1 \/ a \in 1..n
  OBVIOUS
<1>9. \A a, b : Pair(a, b) = [left |-> left[a], right |-> right[b]]
  OBVIOUS
<1>10. c = Pair(n + 1, i)
  OBVIOUS
<1> HIDE DEF o, next, i, near, c, s, t, p, Pair
\* Nothing is left on the right, or what is left is not near.
<1>11. CASE p > Len(right)
  <2>1. next = w /\ \A b \in 1..Len(right) : b < p
    BY <1>1, <1>3, <1>11
  <2>2. \A b \in 1..Len(right) : ~InReach(o, right[b], tolerance)
    BY <1>2, <1>8, <2>1
  <2>3. next.pairs = s /\ next.place = p
    BY <2>1 DEF s, p
  <2>4. \A a \in 1..Len(left) : n + 1 < a => n < a
    BY <1>4
  <2> QED
    BY <1>2, <1>8, <1>9, <2>1, <2>2, <2>3, <2>4 DEF Complete, next, o
<1>12. CASE ~(p > Len(right))
  <2>1. /\ i \in p..Len(right) /\ i \in 1..Len(right)
        /\ Until(right, i, o.at) /\ (p < i => After(right, i, o.at))
        /\ next.place = IF near THEN i + 1 ELSE i
        /\ t = IF near THEN Append(s, c) ELSE s
    BY <1>3, <1>12
  <2>2. near <=> InReach(o, right[i], tolerance)
    <3>1. right[i].at \in Int
      BY <1>4, <2>1
    <3>2. Dist(right[i].at, o.at) = Dist(o.at, right[i].at)
      BY <1>1, <3>1, InReachIs
    <3> QED
      BY <3>2 DEF near, InReach
  <2>3. i \in Nat /\ i <= Len(right) /\ p <= i
    BY <1>1, <2>1
  \* What was passed over lies before the instant.
  <2>4. ASSUME NEW b \in 1..Len(right), p <= b, b < i
        PROVE  right[b].at < o.at /\ o.at - right[b].at >= right[i].at - o.at
    <3>1. i > 1 /\ p < i /\ i - 1 \in 1..Len(right) /\ (b = i - 1 \/ b < i - 1)
      BY <1>1, <2>1, <2>3, <2>4
    <3>2. right[i - 1].at + right[i].at < 2 * o.at
      BY <2>1, <3>1 DEF After
    <3>3. right[b].at \in Int /\ right[i - 1].at \in Int /\ right[i].at \in Int
      BY <1>4, <2>1, <3>1
    <3>4. right[b].at < right[i].at
      BY <1>4, <2>1, <2>4
    <3>5. right[b].at <= right[i - 1].at
      <4>1. b < i - 1 => right[b].at < right[i - 1].at
        BY <1>4, <3>1
      <4> QED
        BY <3>1, <3>3, <4>1
    <3>6. right[b].at + right[i].at < 2 * o.at
      BY <1>1a, <3>2, <3>3, <3>5
    <3> QED
      BY <1>1a, <3>3, <3>4, <3>6, BeyondFirst
  \* Of the two within reach one is not.
  <2>5. ASSUME NEW b \in 1..Len(right), InReach(o, right[b], tolerance) PROVE b = i /\ near
    <3>1. ~(b < p)
      BY <1>2, <1>8, <2>5
    <3>2. p <= b
      BY <1>1, <3>1
    <3>3. o.at - right[b].at <= tolerance /\ right[b].at - o.at <= tolerance
      BY <1>7, <2>5
    <3>4. right[b].at \in Int /\ right[i].at \in Int
      BY <1>4, <2>1
    <3>5. ~(b < i)
      <4> SUFFICES ASSUME b < i PROVE FALSE
        OBVIOUS
      <4>1. right[b].at < o.at /\ o.at - right[b].at >= right[i].at - o.at
        BY <2>4, <3>2
      <4>2. right[i].at - right[b].at > 2 * tolerance
        BY <2>1, FarApart
      <4> QED
        BY <1>1a, <3>3, <3>4, <4>1, <4>2
    <3>6. ~(i < b)
      <4> SUFFICES ASSUME i < b PROVE FALSE
        OBVIOUS
      <4>1. i + 1 \in 1..Len(right) /\ i < Len(right) /\ (i + 1 = b \/ i + 1 < b)
        BY <1>1, <2>1, <2>3
      <4>2. 2 * o.at <= right[i].at + right[i + 1].at
        BY <2>1, <4>1 DEF Until
      <4>3. right[i + 1].at <= right[b].at /\ right[i + 1].at \in Int
        BY <1>4, <4>1
      <4>4. right[b].at - right[i].at > 2 * tolerance
        BY <2>1, FarApart
      <4> QED
        BY <1>1a, <3>3, <3>4, <4>2, <4>3, <4>4, NotBeyond
    <3> QED
      BY <2>2, <2>3, <2>5, <3>5, <3>6
  <2>6. ASSUME NEW a \in 1..(n + 1), NEW b \in 1..Len(right), InReach(left[a], right[b], tolerance)
        PROVE  \E k \in 1..Len(t) : t[k] = Pair(a, b)
    <3>1. CASE near
      <4>1. c \in Couple
        <5>1. right[i] \in Observation
          BY <2>1
        <5> QED
          BY <1>1, <5>1 DEF c, Couple
      <4>2. /\ t = Append(s, c) /\ Len(t) = Len(s) + 1 /\ t[Len(s) + 1] = c /\ Len(s) \in Nat
            /\ \A k \in 1..Len(s) : t[k] = s[k]
        BY <1>1, <2>1, <3>1, <4>1
      <4>3. CASE a = n + 1
        <5>1. b = i
          BY <1>8, <2>5, <2>6, <4>3
        <5>2. Len(s) + 1 \in 1..Len(t)
          BY <4>2
        <5> QED
          BY <1>10, <4>2, <4>3, <5>1, <5>2
      <4>4. CASE a \in 1..n
        <5>1. PICK k \in 1..Len(s) : s[k] = Pair(a, b)
          BY <1>2, <2>6, <4>4
        <5>2. k \in 1..Len(t)
          BY <4>2
        <5> QED
          BY <4>2, <5>1, <5>2
      <4> QED
        BY <1>8, <4>3, <4>4
    <3>2. CASE ~near
      <4>1. a # n + 1
        BY <1>8, <2>5, <2>6, <3>2
      <4> QED
        BY <1>2, <1>8, <2>1, <2>6, <3>2, <4>1
    <3> QED
      BY <3>1, <3>2
  <2>7. ASSUME NEW a \in 1..Len(left), NEW b \in 1..Len(right), n + 1 < a, b < next.place
        PROVE  ~InReach(left[a], right[b], tolerance)
    <3>0. left[a].at > o.at + 2 * tolerance /\ left[a].at \in Int /\ right[b].at \in Int
          /\ right[i].at \in Int
      BY <1>4, <1>5, <2>1, <2>7
    <3>1. CASE b < p
      <4>1. n < a
        BY <1>4, <2>7
      <4> QED
        BY <1>2, <3>1, <4>1
    <3>2. CASE p <= b /\ near
      <4>1. b <= i
        BY <2>1, <2>3, <2>7, <3>2
      <4>2. right[b].at <= right[i].at
        BY <1>4, <2>1, <2>3, <4>1
      <4>3. right[i].at - o.at <= tolerance
        BY <1>7, <2>1, <2>2, <3>2
      <4>4. left[a].at - right[b].at > tolerance
        <5> DEFINE la == left[a].at
                   rb == right[b].at
                   ri == right[i].at
                   oa == o.at
        <5>1. la \in Int /\ rb \in Int /\ ri \in Int /\ oa \in Int /\ tolerance \in Nat
          BY <1>1a, <3>0
        <5>2. la > oa + 2 * tolerance /\ rb <= ri /\ ri - oa <= tolerance
          BY <3>0, <4>2, <4>3
        <5> HIDE DEF la, rb, ri, oa
        <5>3. la - rb > tolerance
          BY <5>1, <5>2
        <5> QED
          BY <5>3 DEF la, rb
      <4> QED
        BY <1>6, <3>0, <4>4
    <3>3. CASE p <= b /\ ~near
      <4>1. b < i
        BY <2>1, <2>3, <2>7, <3>3
      <4>2. right[b].at < o.at
        BY <2>4, <3>3, <4>1
      <4>3. ~InReach(o, right[b], tolerance)
        BY <2>5, <3>3
      <4>4. o.at - right[b].at > tolerance
        <5>1. ~(o.at - right[b].at <= tolerance /\ right[b].at - o.at <= tolerance)
          BY <1>7, <4>3
        <5> QED
          BY <1>1a, <3>0, <4>2, <5>1
      <4>5. left[a].at - right[b].at > tolerance
        BY <1>1a, <3>0, <4>2, <4>4
      <4> QED
        BY <1>6, <3>0, <4>5
    <3> QED
      BY <1>1, <3>1, <3>2, <3>3
  <2>8. Complete(next, n + 1, left, right, tolerance)
    BY <1>9, <2>6, <2>7 DEF Complete, t
  <2> QED
    BY <2>8 DEF next, o
<1> QED
  BY <1>11, <1>12

\* What the pairs of two streams are.
PairsOf(pairs, left, right, tolerance) ==
    /\ pairs \in Seq(Couple) /\ Len(pairs) <= Len(left) /\ Len(pairs) <= Len(right)
    /\ \A k \in 1..Len(pairs) : Dist(pairs[k].left.at, pairs[k].right.at) <= tolerance
    /\ \A j, k \in 1..Len(pairs) : j < k =>
          pairs[j].left.at < pairs[k].left.at /\ pairs[j].right.at < pairs[k].right.at
    /\ Apart(left, tolerance) /\ Apart(right, tolerance) =>
          \A a \in 1..Len(left) : \A b \in 1..Len(right) :
             InReach(left[a], right[b], tolerance) =>
                \E k \in 1..Len(pairs) : pairs[k] = [left |-> left[a], right |-> right[b]]

\* The pairs of two streams are partners within reach, in the order of time, no
\* reading twice, and complete where no reading has two candidates (reporting.py:967).
LEMMA PairsAre ==
    ASSUME NEW left \in Seq(Observation), InTime(left), NEW right \in Seq(Observation), InTime(right),
           NEW tolerance \in Nat
    PROVE  PairsOf(Pairs(left, right, tolerance), left, right, tolerance)
<1> DEFINE N == Len(left)
           h == PairWalk(left, right, tolerance)
           both == Apart(left, tolerance) /\ Apart(right, tolerance)
           G == {n \in 0..N : /\ PairedOff(h[n], n, left, right, tolerance)
                              /\ both => Complete(h[n], n, left, right, tolerance)}
<1>1. /\ h \in [0..N -> Pairing(right)] /\ h[0] = [place |-> 1, pairs |-> <<>>]
      /\ \A n \in 1..N : h[n] = PairStep(h[n - 1], left[n], right, tolerance)
  BY PairWalkIs
<1>2. N \in Nat /\ Len(right) \in Nat
  OBVIOUS
<1> HIDE DEF h
<1>3. 0 \in G
  <2>1. h[0].pairs = <<>> /\ h[0].place = 1 /\ 0 \in 0..N
    BY <1>1, <1>2
  <2>2. <<>> \in Seq(Couple) /\ Len(<<>>) <= 0 /\ Len(<<>>) <= 1 - 1 /\ \A k \in 1..Len(<<>>) : FALSE
    OBVIOUS
  <2>3. PairedOff(h[0], 0, left, right, tolerance)
    BY <2>1, <2>2 DEF PairedOff
  <2>4. Complete(h[0], 0, left, right, tolerance)
    <3>1. \A a \in 1..0 : FALSE
      OBVIOUS
    <3>2. \A b \in 1..Len(right) : ~(b < 1)
      BY <1>2
    <3> QED
      BY <2>1, <3>1, <3>2 DEF Complete
  <2> QED
    BY <2>1, <2>3, <2>4
<1>4. ASSUME NEW n \in 0..(N - 1), n \in G PROVE n + 1 \in G
  <2>1. n \in Nat /\ n + 1 \in 1..Len(left) /\ n + 1 \in 0..N /\ (n + 1) - 1 = n /\ n \in 0..N
    BY <1>2
  <2>2. h[n] \in Pairing(right) /\ h[n + 1] = PairStep(h[n], left[n + 1], right, tolerance)
    BY <1>1, <2>1
  <2>3. PairedOff(h[n], n, left, right, tolerance) /\ (both => Complete(h[n], n, left, right, tolerance))
    BY <1>4
  <2> HIDE DEF G, N
  <2>4. PairedOff(h[n + 1], n + 1, left, right, tolerance)
    BY <2>1, <2>2, <2>3, PairsOff
  <2>5. both => Complete(h[n + 1], n + 1, left, right, tolerance)
    BY <2>1, <2>2, <2>3, PairsComplete
  <2> QED
    BY <2>1, <2>4, <2>5 DEF G
<1> HIDE DEF G
<1>5. N \in G
  <2> HIDE DEF N
  <2>1. Inductive(G, 0, N)
    BY <1>3, <1>4 DEF Inductive
  <2>2. N \in 0..N
    BY <1>2
  <2> QED
    BY <1>2, <2>1, <2>2, Climb
<1> DEFINE pairs == Pairs(left, right, tolerance)
           w == h[N]
<1>6. pairs = w.pairs
  BY DEF Pairs, h
<1>7. PairedOff(w, N, left, right, tolerance) /\ (both => Complete(w, N, left, right, tolerance))
  BY <1>5 DEF G
<1>8. w \in Pairing(right) /\ w.place \in 1..(Len(right) + 1)
  BY <1>1, <1>2 DEF Pairing
<1> HIDE DEF pairs, w, both
<1>9. /\ pairs \in Seq(Couple) /\ Len(pairs) <= N /\ Len(pairs) <= w.place - 1
      /\ \A k \in 1..Len(pairs) : Dist(pairs[k].left.at, pairs[k].right.at) <= tolerance
      /\ \A j, k \in 1..Len(pairs) : j < k =>
            pairs[j].left.at < pairs[k].left.at /\ pairs[j].right.at < pairs[k].right.at
  BY <1>6, <1>7 DEF PairedOff
<1>10. Len(pairs) <= Len(right)
  <2>1. Len(pairs) \in Nat
    BY <1>9
  <2> QED
    BY <1>2, <1>8, <1>9, <2>1
<1>11. both => \A a \in 1..Len(left) : \A b \in 1..Len(right) :
             InReach(left[a], right[b], tolerance) =>
                \E k \in 1..Len(pairs) : pairs[k] = [left |-> left[a], right |-> right[b]]
  BY <1>6, <1>7 DEF Complete
<1> QED
  BY <1>9, <1>10, <1>11 DEF PairsOf, pairs, both

-------------------------------------------------------------------------------
(***************************************************************************)
(* Buckets.                                                                *)
(***************************************************************************)

\* What // of Python returns, of what is not negative.
LEMMA QuotientIs ==
    ASSUME NEW t \in Nat, NEW interval \in Nat, interval > 0
    PROVE  /\ t \div interval \in Nat
           /\ interval * (t \div interval) <= t /\ t < interval * (t \div interval) + interval
           /\ Truncated(t, interval) = t \div interval /\ Floor(t, interval) = t \div interval
<1>1. ~(t < 0)
  OBVIOUS
<1>2. Truncated(t, interval) = t \div interval /\ Floor(t, interval) = t \div interval
  BY <1>1 DEF Truncated, Floor
<1>3. /\ t \div interval \in Nat
      /\ interval * (t \div interval) <= t /\ t < interval * (t \div interval) + interval
  OBVIOUS
<1> QED
  BY <1>2, <1>3

\* It is the only one.
LEMMA OneQuotient ==
    ASSUME NEW t \in Nat, NEW interval \in Nat, interval > 0, NEW q \in Int,
           interval * q <= t, t < interval * q + interval
    PROVE  q = t \div interval
  BY QuotientIs

\* The places a function takes into some part of its range.
Falling(p, n, part) == {i \in 1..n : p[i] \in part}

\* What is in buckets is each of the observations once.
LEMMA TogetherIs ==
    ASSUME NEW b, IsFiniteSet(DOMAIN b), NEW n \in Nat, NEW p \in [1..n -> DOMAIN b],
           \A x \in DOMAIN b : b[x].stats.count = Cardinality(Falling(p, n, {x}))
    PROVE  Together(b) = n
<1> DEFINE D == DOMAIN b
           First(s) == CHOOSE x \in s : TRUE
           Follows(g) == g = [s \in SUBSET D |->
                                IF s = {} THEN 0 ELSE b[First(s)].stats.count + g[s \ {First(s)}]]
           size(s) == Cardinality(Falling(p, n, s))
           sizes == [s \in SUBSET D |-> size(s)]
<1>1. \A s \in SUBSET D : IsFiniteSet(Falling(p, n, s)) /\ size(s) \in Nat
  <2> TAKE s \in SUBSET D
  <2>1. IsFiniteSet(1..n) /\ Falling(p, n, s) \subseteq 1..n
    BY FS_Interval DEF Falling
  <2>2. IsFiniteSet(Falling(p, n, s))
    BY <2>1, FS_Subset
  <2> QED
    BY <2>2, FS_CardinalityType
<1>2. ASSUME NEW s \in SUBSET D, NEW x \in s PROVE size(s) = b[x].stats.count + size(s \ {x})
  <2> DEFINE A == Falling(p, n, {x})
             B == Falling(p, n, s \ {x})
  <2>1. A \cup B = Falling(p, n, s) /\ A \cap B = {}
    BY DEF Falling
  <2>2. IsFiniteSet(A) /\ IsFiniteSet(B)
    BY <1>1
  <2>3. size({x}) \in Nat /\ size(s \ {x}) \in Nat /\ b[x].stats.count = Cardinality(A)
    BY <1>1
  <2> HIDE DEF A, B
  <2>4. Cardinality(A \cup B) = Cardinality(A) + Cardinality(B) - Cardinality(A \cap B)
    BY <2>2, FS_Union
  <2>5. Cardinality(A \cap B) = 0
    BY <2>1, FS_EmptySet
  <2>6. Cardinality(A) \in Nat /\ Cardinality(B) \in Nat
    BY <2>2, FS_CardinalityType
  <2>7. Cardinality(A \cup B) = Cardinality(A) + Cardinality(B)
    BY <2>4, <2>5, <2>6
  <2> QED
    BY <2>1, <2>3, <2>7 DEF B
<1>3. size({}) = 0
  <2>1. Falling(p, n, {}) = {}
    BY DEF Falling
  <2> QED
    BY <2>1, FS_EmptySet
<1>4. Together(b) = (CHOOSE g : Follows(g))[D]
  BY DEF Together, MapThenSumSet, MapThenFoldSet
<1>5. \A s \in SUBSET D : s # {} => First(s) \in s
  OBVIOUS
<1> HIDE DEF size, First
<1>6. Follows(sizes)
  <2>1. \A s \in SUBSET D : s # {} =>
           sizes[s] = b[First(s)].stats.count + sizes[s \ {First(s)}]
    <3> TAKE s \in SUBSET D
    <3>1. s \ {First(s)} \in SUBSET D
      OBVIOUS
    <3>2. sizes[s] = size(s) /\ sizes[s \ {First(s)}] = size(s \ {First(s)})
      BY <3>1
    <3> HIDE DEF sizes
    <3> QED
      BY <1>2, <1>5, <3>2
  <2>2. sizes[{}] = 0
    BY <1>3
  <2>3. sizes = [s \in SUBSET D |-> sizes[s]]
    OBVIOUS
  <2> HIDE DEF sizes, D
  <2>4. \A s \in SUBSET D : sizes[s] = IF s = {} THEN 0 ELSE b[First(s)].stats.count + sizes[s \ {First(s)}]
    BY <2>1, <2>2
  <2>5. sizes = [s \in SUBSET D |-> IF s = {} THEN 0 ELSE b[First(s)].stats.count + sizes[s \ {First(s)}]]
    BY <2>3, <2>4
  <2> QED
    BY <2>5
<1> DEFINE h == CHOOSE g : Follows(g)
<1>7. Follows(h)
  <2> HIDE DEF Follows
  <2> QED
    BY <1>6
<1>8. /\ h[{}] = 0
      /\ \A s \in SUBSET D : s # {} => h[s] = b[First(s)].stats.count + h[s \ {First(s)}]
  <2> HIDE DEF h
  <2> QED
    BY <1>7
<1> HIDE DEF h, Follows, sizes
<1>9. \A s \in SUBSET D : h[s] = size(s)
  <2> DEFINE Bad == {k \in Nat : \E s \in SUBSET D : Cardinality(s) = k /\ h[s] # size(s)}
  <2>1. SUFFICES ASSUME Bad # {} PROVE FALSE
    <3>1. \A s \in SUBSET D : Cardinality(s) \in Nat
      BY FS_Subset, FS_CardinalityType
    <3> QED
      BY <3>1
  <2>2. PICK k \in Bad : \A l \in Bad : k <= l
    BY <2>1, LeastNat
  <2>3. PICK s \in SUBSET D : Cardinality(s) = k /\ h[s] # size(s)
    BY <2>2
  <2>4. s # {}
    BY <1>3, <1>8, <2>3
  <2> DEFINE x == First(s)
  <2>5. x \in s /\ IsFiniteSet(s)
    BY <1>5, <2>4, FS_Subset
  <2>6. Cardinality(s \ {x}) = k - 1 /\ IsFiniteSet(s \ {x})
    BY <2>3, <2>5, FS_RemoveElement
  <2>7. Cardinality(s \ {x}) \in Nat /\ k \in Nat
    BY <2>6, FS_CardinalityType
  <2>8. h[s \ {x}] = size(s \ {x})
    <3>1. s \ {x} \in SUBSET D /\ k - 1 \in Nat /\ ~(k <= k - 1)
      BY <2>6, <2>7
    <3> HIDE DEF x
    <3>2. k - 1 \notin Bad
      BY <2>2, <3>1
    <3> QED
      BY <2>6, <3>1, <3>2
  <2>9. h[s] = size(s)
    BY <1>2, <1>8, <2>4, <2>5, <2>8
  <2> QED
    BY <2>3, <2>9
<1>10. size(D) = n
  <2>1. Falling(p, n, D) = 1..n
    BY DEF Falling
  <2>2. Cardinality(1..n) = n
    BY FS_Interval
  <2> QED
    BY <2>1, <2>2 DEF size
<1> QED
  BY <1>4, <1>9, <1>10 DEF h

\* The bucket of an observation, and the observations of a bucket.
PlaceOf(s, i, interval, local) == Instant(s[i], local) \div interval

\* The places of a stream that are in a bucket, and all its buckets.
InPlace(s, x, interval, local) == {i \in 1..Len(s) : PlaceOf(s, i, interval, local) = x}

Places(s, interval, local) == {PlaceOf(s, i, interval, local) : i \in 1..Len(s)}

\* What a bucket holds, and where it starts while the clocks stand.
Holds(b, x, s, interval, local) ==
    /\ b.stats = Statistics(Values(Chosen(s, InPlace(s, x, interval, local))))
    /\ b.stats.count = Cardinality(InPlace(s, x, interval, local))
    /\ \A o \in Int : (\A k \in 1..Len(s) : s[k].offset = o) =>
          b.startsAt = x * interval - (IF local THEN o ELSE 0)

\* Buckets that hold each observation where it belongs.
HoldAll(buckets, s, interval, local) ==
    /\ DOMAIN buckets = Places(s, interval, local)
    /\ \A x \in Places(s, interval, local) : Holds(buckets[x], x, s, interval, local)

\* Instants that are not before 1970.
LEMMA PlacesAre ==
    ASSUME NEW s \in Seq(Observation), NEW interval \in Nat, interval > 0, NEW local \in BOOLEAN,
           ~PreEpoch(s, local), NEW i \in 1..Len(s)
    PROVE  /\ Instant(s[i], local) \in Nat /\ PlaceOf(s, i, interval, local) \in Nat
           /\ Truncated(Instant(s[i], local), interval) = PlaceOf(s, i, interval, local)
           /\ Floor(Instant(s[i], local), interval) = PlaceOf(s, i, interval, local)
<1>1. s[i] \in Observation /\ i \in DOMAIN s
  OBVIOUS
<1>2. Instant(s[i], local) \in Int
  BY <1>1 DEF Observation, Instant
<1>3. ~(Instant(s[i], local) < 0)
  BY <1>1 DEF PreEpoch
<1>4. Instant(s[i], local) \in Nat
  BY <1>2, <1>3
<1> QED
  BY <1>4, QuotientIs DEF PlaceOf

\* The observations of one bucket.
LEMMA MembersAre ==
    ASSUME NEW s \in Seq(Observation), NEW interval, NEW local,
           NEW x \in Places(s, interval, local)
    PROVE  LET members == Chosen(s, InPlace(s, x, interval, local)) IN
           /\ members \in Seq(Observation) /\ Len(members) > 0
           /\ Len(members) = Cardinality(InPlace(s, x, interval, local))
           /\ \A k \in 1..Len(members) : \E i \in 1..Len(s) : members[k] = s[i]
<1> DEFINE places == InPlace(s, x, interval, local)
           members == Chosen(s, places)
<1>1. places \in SUBSET (1..Len(s)) /\ places # {}
  BY DEF InPlace, Places
<1> HIDE DEF places
<1>2. /\ members \in Seq(Observation) /\ Len(members) = Cardinality(places)
      /\ \E order : Picks(order, members, s, places)
  BY <1>1, ChosenIs
<1>3. PICK order : Picks(order, members, s, places)
  BY <1>2
<1> HIDE DEF members
<1>4. /\ \A k \in 1..Len(members) : order[k] \in places /\ members[k] = s[order[k]]
      /\ \A l \in places : \E k \in 1..Len(members) : order[k] = l
  BY <1>3 DEF Picks
<1>5. Len(members) > 0
  <2>1. PICK l \in places : TRUE
    BY <1>1
  <2>2. PICK k \in 1..Len(members) : order[k] = l
    BY <1>4
  <2>3. Len(members) \in Nat
    BY <1>2
  <2> QED
    BY <2>2, <2>3
<1>6. \A k \in 1..Len(members) : \E i \in 1..Len(s) : members[k] = s[i]
  BY <1>1, <1>4
<1> QED
  BY <1>2, <1>5, <1>6 DEF members, places

\* A bucket with an offset of one of its observations.
LEMMA BucketHolds ==
    ASSUME NEW s \in Seq(Observation), NEW interval \in Nat, NEW local \in BOOLEAN,
           NEW x \in Places(s, interval, local), NEW offset,
           \A o \in Int : (\A k \in 1..Len(s) : s[k].offset = o) => offset = IF local THEN o ELSE 0
    PROVE  Holds(Bucket(x, interval, offset, Chosen(s, InPlace(s, x, interval, local))),
                 x, s, interval, local)
<1> DEFINE members == Chosen(s, InPlace(s, x, interval, local))
           b == Bucket(x, interval, offset, members)
<1>1. members \in Seq(Observation) /\ Len(members) = Cardinality(InPlace(s, x, interval, local))
  BY MembersAre
<1> HIDE DEF members
<1>2. b.stats = Statistics(Values(members)) /\ b.startsAt = x * interval - offset
  BY DEF Bucket
<1>3. b.stats.count = Len(members)
  <2>1. Len(Values(members)) = Len(members)
    BY <1>1 DEF Values
  <2>2. Statistics(Values(members)).count = Len(Values(members))
    BY DEF Statistics
  <2> QED
    BY <1>2, <2>1, <2>2
<1> HIDE DEF b
<1>4. Holds(b, x, s, interval, local)
  BY <1>1, <1>2, <1>3 DEF Holds, members
<1> QED
  BY <1>4 DEF b, members

\* Both ways of making buckets.
LEMMA BucketsAre ==
    ASSUME NEW s \in Seq(Observation), NEW interval \in Nat, interval > 0, NEW local \in BOOLEAN,
           ~PreEpoch(s, local)
    PROVE  /\ HoldAll(SqlBuckets(s, interval, local), s, interval, local)
           /\ HoldAll(AggregateBuckets(s, interval, local), s, interval, local)
<1> DEFINE X == Places(s, interval, local)
           mem(x) == Chosen(s, InPlace(s, x, interval, local))
<1>1. DOMAIN s = 1..Len(s)
  OBVIOUS
<1>2. \A i \in 1..Len(s) :
         /\ Truncated(Instant(s[i], local), interval) = PlaceOf(s, i, interval, local)
         /\ Floor(Instant(s[i], local), interval) = PlaceOf(s, i, interval, local)
  BY PlacesAre
<1>3. /\ {Truncated(Instant(s[i], local), interval) : i \in DOMAIN s} = X
      /\ {Floor(Instant(s[i], local), interval) : i \in DOMAIN s} = X
  BY <1>1, <1>2 DEF Places
<1>4. ASSUME NEW x
      PROVE  /\ {i \in DOMAIN s : Truncated(Instant(s[i], local), interval) = x} =
                   InPlace(s, x, interval, local)
             /\ {i \in DOMAIN s : Floor(Instant(s[i], local), interval) = x} =
                   InPlace(s, x, interval, local)
  BY <1>1, <1>2 DEF InPlace
<1> DEFINE least(x) == IF local THEN Min({mem(x)[i].offset : i \in DOMAIN mem(x)}) ELSE 0
           first(x) == IF local THEN mem(x)[1].offset ELSE 0
<1>5. SqlBuckets(s, interval, local) = [x \in X |-> Bucket(x, interval, least(x), mem(x))]
  <2> DEFINE indices == {Truncated(Instant(s[i], local), interval) : i \in DOMAIN s}
             at(x) == {i \in DOMAIN s : Truncated(Instant(s[i], local), interval) = x}
             labelled(x, m) == Bucket(x, interval,
                                      IF local THEN Min({m[i].offset : i \in DOMAIN m}) ELSE 0, m)
  <2>1. SqlBuckets(s, interval, local) = [x \in indices |-> labelled(x, Chosen(s, at(x)))]
    BY DEF SqlBuckets, Indices, InBucket
  <2>2. indices = X /\ \A x : at(x) = InPlace(s, x, interval, local)
    BY <1>3, <1>4
  <2>3. \A x : labelled(x, mem(x)) = Bucket(x, interval, least(x), mem(x))
    OBVIOUS
  <2> HIDE DEF labelled, indices, at, least, X
  <2> QED
    BY <2>1, <2>2, <2>3
<1>6. AggregateBuckets(s, interval, local) = [x \in X |-> Bucket(x, interval, first(x), mem(x))]
  BY <1>3, <1>4 DEF AggregateBuckets, Indices, InBucket
<1>7. ASSUME NEW x \in X, NEW o \in Int, \A k \in 1..Len(s) : s[k].offset = o
      PROVE  least(x) = (IF local THEN o ELSE 0) /\ first(x) = (IF local THEN o ELSE 0)
  <2>0. x \in Places(s, interval, local)
    BY <1>7
  <2>1. /\ mem(x) \in Seq(Observation) /\ Len(mem(x)) > 0
        /\ \A k \in 1..Len(mem(x)) : \E i \in 1..Len(s) : mem(x)[k] = s[i]
    <3> HIDE DEF X
    <3> QED
      BY <2>0, MembersAre DEF mem
  <2> HIDE DEF mem
  <2>2. 1 \in 1..Len(mem(x)) /\ DOMAIN mem(x) = 1..Len(mem(x))
    BY <2>1
  <2>3. \A k \in 1..Len(mem(x)) : mem(x)[k].offset = o
    BY <1>7, <2>1
  <2>4. {mem(x)[i].offset : i \in DOMAIN mem(x)} = {o}
    BY <2>2, <2>3
  <2>5. Min({o}) = o
    <3>1. {o} \subseteq Int /\ IsFiniteSet({o}) /\ {o} # {}
      BY FS_Singleton
    <3>2. Min({o}) \in {o}
      BY <3>1, Extremes
    <3> QED
      BY <3>2
  <2> QED
    BY <2>2, <2>3, <2>4, <2>5
<1>8. ASSUME NEW x \in X
      PROVE  /\ Holds(Bucket(x, interval, least(x), mem(x)), x, s, interval, local)
             /\ Holds(Bucket(x, interval, first(x), mem(x)), x, s, interval, local)
  <2>1. \A o \in Int : (\A k \in 1..Len(s) : s[k].offset = o) =>
           least(x) = (IF local THEN o ELSE 0) /\ first(x) = (IF local THEN o ELSE 0)
    BY <1>7
  <2> HIDE DEF least, first
  <2> QED
    BY <2>1, BucketHolds
<1> HIDE DEF X, mem, least, first
<1> QED
  BY <1>5, <1>6, <1>8 DEF HoldAll, X

\* The observations that / of SQLite puts into a bucket.
CutTo(s, x, interval, local) == {i \in 1..Len(s) : Truncated(Instant(s[i], local), interval) = x}

\* What SQL makes, whatever the instants are.
LEMMA SqlIs ==
    ASSUME NEW s \in Seq(Observation), NEW interval, NEW local
    PROVE  LET b == SqlBuckets(s, interval, local) IN
           /\ DOMAIN b = {Truncated(Instant(s[i], local), interval) : i \in 1..Len(s)}
           /\ \A x \in DOMAIN b :
                 /\ b[x].stats = Statistics(Values(Chosen(s, CutTo(s, x, interval, local))))
                 /\ b[x].stats.count = Cardinality(CutTo(s, x, interval, local))
<1> DEFINE b == SqlBuckets(s, interval, local)
           indices == {Truncated(Instant(s[i], local), interval) : i \in 1..Len(s)}
           mem(x) == Chosen(s, CutTo(s, x, interval, local))
           labelled(x, m) == Bucket(x, interval,
                                    IF local THEN Min({m[i].offset : i \in DOMAIN m}) ELSE 0, m)
<1>1. DOMAIN s = 1..Len(s)
  OBVIOUS
<1>2. b = [x \in indices |-> labelled(x, mem(x))]
  BY <1>1 DEF SqlBuckets, Indices, InBucket, CutTo
<1>3. \A x, m : labelled(x, m).stats = Statistics(Values(m))
  BY DEF Bucket
<1> HIDE DEF labelled
<1>4. DOMAIN b = indices /\ \A x \in indices : b[x].stats = Statistics(Values(mem(x)))
  BY <1>2, <1>3
<1>5. ASSUME NEW x \in indices
      PROVE  Statistics(Values(mem(x))).count = Cardinality(CutTo(s, x, interval, local))
  <2> DEFINE places == CutTo(s, x, interval, local)
             m == mem(x)
  <2>1. places \in SUBSET (1..Len(s)) /\ m = Chosen(s, places)
    BY DEF CutTo
  <2> HIDE DEF places, m
  <2>2. m \in Seq(Observation) /\ Len(m) = Cardinality(places)
    BY <2>1, ChosenIs
  <2>3. Len(Values(m)) = Len(m)
    BY <2>2 DEF Values
  <2>4. Statistics(Values(m)).count = Len(Values(m))
    BY DEF Statistics
  <2> QED
    BY <2>2, <2>3, <2>4 DEF m, places
<1> HIDE DEF b, indices
<1>6. \A x \in DOMAIN b : b[x].stats = Statistics(Values(mem(x)))
                          /\ b[x].stats.count = Cardinality(CutTo(s, x, interval, local))
  BY <1>4, <1>5
<1> QED
  BY <1>4, <1>6 DEF b, indices

\* SQL loses nothing.
LEMMA SqlTogether ==
    ASSUME NEW s \in Seq(Observation), NEW interval, NEW local
    PROVE  Together(SqlBuckets(s, interval, local)) = Len(s)
<1> DEFINE b == SqlBuckets(s, interval, local)
           n == Len(s)
           cut(i) == Truncated(Instant(s[i], local), interval)
           p == [i \in 1..n |-> cut(i)]
<1>1. DOMAIN b = {cut(i) : i \in 1..n}
  BY SqlIs
<1>2. DOMAIN p = 1..n /\ DOMAIN b = {p[i] : i \in 1..n}
  BY <1>1
<1>3. n \in Nat /\ IsFiniteSet(1..n)
  BY FS_Interval
<1>4. ASSUME NEW x \in DOMAIN b PROVE b[x].stats.count = Cardinality(Falling(p, n, {x}))
  <2>1. b[x].stats.count = Cardinality(CutTo(s, x, interval, local))
    BY SqlIs
  <2>2. CutTo(s, x, interval, local) = Falling(p, n, {x})
    BY DEF CutTo, Falling
  <2> QED
    BY <2>1, <2>2
<1>5. p \in [1..n -> DOMAIN b]
  BY <1>1
<1> HIDE DEF p, n, b
<1>6. IsFiniteSet(DOMAIN b)
  BY <1>2, <1>3, FiniteImage
<1>7. Together(b) = n
  BY <1>3, <1>4, <1>5, <1>6, TogetherIs
<1> QED
  BY <1>7 DEF b, n

\* Above zero the two divisions agree, of what is negative too.
LEMMA AboveZero ==
    ASSUME NEW t \in Int, NEW interval \in Nat, interval > 0, NEW x \in Int, x > 0
    PROVE  Truncated(t, interval) = x <=> Floor(t, interval) = x
<1>1. CASE t >= 0
  BY <1>1, QuotientIs
<1>2. CASE t < 0
  <2>1. -t \in Nat
    BY <1>2
  <2>2. (-t) \div interval \in Nat
    BY <2>1, QuotientIs
  <2>3. Truncated(t, interval) <= 0
    BY <1>2, <2>2 DEF Truncated
  <2>4. t \div interval < 0
    BY <1>2
  <2> QED
    BY <2>3, <2>4 DEF Floor
<1> QED
  BY <1>1, <1>2

\* Buckets are numbered.
LEMMA IndicesWhole ==
    ASSUME NEW s \in Seq(Observation), NEW interval \in Nat, interval > 0, NEW local \in BOOLEAN
    PROVE  /\ DOMAIN SqlBuckets(s, interval, local) \subseteq Int
           /\ DOMAIN AggregateBuckets(s, interval, local) \subseteq Int
<1> DEFINE t(i) == Instant(s[i], local)
<1>1. ASSUME NEW i \in 1..Len(s)
      PROVE  Truncated(t(i), interval) \in Int /\ Floor(t(i), interval) \in Int
  <2>1. s[i] \in Observation
    OBVIOUS
  <2>2. t(i) \in Int
    BY <2>1 DEF Observation, Instant
  <2> HIDE DEF t
  <2>3. CASE t(i) >= 0
    BY <2>2, <2>3, QuotientIs
  <2>4. CASE t(i) < 0
    <3>1. -t(i) \in Nat
      BY <2>2, <2>4
    <3>2. (-t(i)) \div interval \in Nat /\ t(i) \div interval \in Int
      BY <2>2, <3>1, QuotientIs
    <3> QED
      BY <2>4, <3>2 DEF Truncated, Floor
  <2> QED
    BY <2>2, <2>3, <2>4
<1>2. DOMAIN SqlBuckets(s, interval, local) = {Truncated(t(i), interval) : i \in 1..Len(s)}
  BY SqlIs
<1>3. DOMAIN AggregateBuckets(s, interval, local) = {Floor(t(i), interval) : i \in 1..Len(s)}
  <2>1. DOMAIN s = 1..Len(s)
    OBVIOUS
  <2> QED
    BY <2>1 DEF AggregateBuckets, Indices
<1> HIDE DEF t
<1> QED
  BY <1>1, <1>2, <1>3

\* So a bucket that begins after the epoch is made alike in both ways.
LEMMA AlikeAbove ==
    ASSUME NEW s \in Seq(Observation), NEW interval \in Nat, interval > 0, NEW local \in BOOLEAN,
           NEW x \in Int, x > 0
    PROVE  LET shown == SqlBuckets(s, interval, local)
               other == AggregateBuckets(s, interval, local)
           IN x \in DOMAIN shown \cup DOMAIN other =>
                 /\ x \in DOMAIN shown \cap DOMAIN other
                 /\ shown[x].stats = other[x].stats
<1> DEFINE shown == SqlBuckets(s, interval, local)
           other == AggregateBuckets(s, interval, local)
           t(i) == Instant(s[i], local)
           indices == {Floor(t(i), interval) : i \in 1..Len(s)}
           floored(y) == {i \in 1..Len(s) : Floor(t(i), interval) = y}
           labelled(y, m) == Bucket(y, interval, IF local THEN m[1].offset ELSE 0, m)
<1>1. DOMAIN s = 1..Len(s)
  OBVIOUS
<1>2. \A i \in 1..Len(s) : t(i) \in Int
  <2> TAKE i \in 1..Len(s)
  <2>1. s[i] \in Observation
    OBVIOUS
  <2> QED
    BY <2>1 DEF Observation, Instant
<1>3. \A i \in 1..Len(s) : Truncated(t(i), interval) = x <=> Floor(t(i), interval) = x
  <2> TAKE i \in 1..Len(s)
  <2>1. t(i) \in Int
    BY <1>2
  <2> HIDE DEF t
  <2> QED
    BY <2>1, AboveZero
<1>4. CutTo(s, x, interval, local) = floored(x)
  BY <1>3 DEF CutTo
<1>5. other = [y \in indices |-> labelled(y, Chosen(s, floored(y)))]
  BY <1>1 DEF AggregateBuckets, Indices, InBucket
<1>6. DOMAIN shown = {Truncated(t(i), interval) : i \in 1..Len(s)}
  BY SqlIs
<1>7. x \in DOMAIN shown <=> x \in indices
  BY <1>3, <1>6
<1>8. \A y, m : labelled(y, m).stats = Statistics(Values(m))
  BY DEF Bucket
<1>9. x \in DOMAIN shown => shown[x].stats = Statistics(Values(Chosen(s, floored(x))))
  <2> HIDE DEF floored
  <2>1. x \in DOMAIN shown => shown[x].stats = Statistics(Values(Chosen(s, CutTo(s, x, interval, local))))
    BY SqlIs
  <2> QED
    BY <1>4, <2>1
<1> HIDE DEF labelled, floored, indices, shown, other
<1>10. /\ DOMAIN other = indices
       /\ x \in indices => other[x].stats = Statistics(Values(Chosen(s, floored(x))))
  BY <1>5, <1>8
<1>11. x \in DOMAIN shown \cup DOMAIN other =>
          x \in DOMAIN shown \cap DOMAIN other /\ shown[x].stats = other[x].stats
  BY <1>7, <1>9, <1>10
<1> QED
  BY <1>11 DEF shown, other

-------------------------------------------------------------------------------
(***************************************************************************)
(* Runs of a stream that goes on.                                          *)
(***************************************************************************)

\* One sequence opens another.
Opens(s, t) == Len(s) <= Len(t) /\ \A k \in 1..Len(s) : t[k] = s[k]

\* The runs of a walk that stops here.
Stopped(w) == Append(w.runs, Close(w.building[1], TRUE))

\* The runs so far stay, of the sense they are of.
SenseStays(one, other) ==
    /\ Len(one) <= Len(other)
    /\ \A k \in 1..Len(one) : other[k].asserted = one[k].asserted

\* A run that is closed has the sense it was begun with.
LEMMA Closed ==
    ASSUME NEW b, NEW openEnd
    PROVE  Close(b, openEnd).asserted = (b.first.value = 1)
  BY DEF Close

\* A step of the walk leaves a run that is being built, and the senses of the runs.
LEMMA StepKeeps ==
    ASSUME NEW w \in Walked, NEW o \in Observation, NEW gap \in Int
    PROVE  LET r == RunStep(w, o, gap) IN
           /\ r \in Walked /\ r.building # <<>>
           /\ w.building # <<>> => SenseStays(Stopped(w), Stopped(r))
<1> DEFINE r == RunStep(w, o, gap)
           fresh == Build(o, TRUE)
           edged == Build(o, FALSE)
<1>1. /\ w.runs \in Seq(Run) /\ w.building \in Seq(Building) /\ r \in Walked /\ r.runs \in Seq(Run)
      /\ w = [runs |-> w.runs, building |-> w.building] /\ Len(w.runs) \in Nat
  <2>1. r \in Walked
    BY RunStepIs
  <2> HIDE DEF r
  <2>2. w.runs \in Seq(Run) /\ w.building \in Seq(Building) /\ r.runs \in Seq(Run)
        /\ w = [runs |-> w.runs, building |-> w.building]
    BY <2>1 DEF Walked
  <2>3. Len(w.runs) \in Nat
    BY <2>2
  <2> QED
    BY <2>1, <2>2, <2>3
<1> HIDE DEF fresh, edged
<1>2. CASE w.building = <<>>
  <2>1. r = [w EXCEPT !.building = <<fresh>>]
    BY <1>2 DEF RunStep, fresh
  <2>2. r.building = <<fresh>>
    BY <1>1, <2>1
  <2> HIDE DEF r
  <2> QED
    BY <1>1, <1>2, <2>2 DEF r
<1>3. CASE w.building # <<>>
  <2> DEFINE b == w.building[1]
             longer == Extend(b, o)
             s == Stopped(w)
             t == Stopped(r)
             n == Len(w.runs)
  <2>1. b \in Building
    BY <1>1, <1>3
  <2>2. r = Break(w, o, gap)
    BY <1>3 DEF RunStep
  <2>3. \/ \E x, y \in BOOLEAN : r = [runs |-> Append(w.runs, Close(b, x)), building |-> <<Build(o, y)>>]
        \/ r = [w EXCEPT !.building = <<longer>>]
    <3>1. b.last.at \in Int /\ o.at \in Int
      BY <2>1 DEF Building, Observation
    <3> QED
      BY <2>2, <3>1 DEF Break
  <2>4. longer.first = b.first
    BY <2>1 DEF Extend, Building
  <2>5. s = Append(w.runs, Close(b, TRUE)) /\ t = Append(r.runs, Close(r.building[1], TRUE))
    BY DEF Stopped
  <2>6. Len(s) = n + 1 /\ s[n + 1] = Close(b, TRUE) /\ \A k \in 1..n : s[k] = w.runs[k]
    <3> DEFINE c == Close(b, TRUE)
    <3> HIDE DEF c, b, s
    <3>1. s = Append(w.runs, c)
      BY <2>5 DEF c
    <3>2. w.runs \in Seq(Run)
      BY <1>1
    <3>3. Len(s) = n + 1 /\ s[n + 1] = c /\ \A k \in 1..n : s[k] = w.runs[k]
      BY <3>1, <3>2
    <3> QED
      BY <3>3 DEF c
  <2>7. CASE \E x, y \in BOOLEAN :
                r = [runs |-> Append(w.runs, Close(b, x)), building |-> <<Build(o, y)>>]
    <3>1. PICK x \in BOOLEAN, y \in BOOLEAN :
                r = [runs |-> Append(w.runs, Close(b, x)), building |-> <<Build(o, y)>>]
      BY <2>7
    <3> DEFINE c == Close(b, x)
               f == Build(o, y)
    <3>2. r.runs = Append(w.runs, c) /\ r.building = <<f>>
      BY <3>1
    <3>3. c.asserted = Close(b, TRUE).asserted
      BY Closed
    <3> HIDE DEF c, f, b, r, s, t
    <3>4. r.building # <<>> /\ r.building[1] = f
      BY <3>2
    <3> DEFINE l == Close(r.building[1], TRUE)
    <3> HIDE DEF l
    <3>5. t = Append(r.runs, l)
      BY <2>5 DEF l
    <3>6. Len(r.runs) = n + 1 /\ r.runs[n + 1] = c /\ \A k \in 1..n : r.runs[k] = w.runs[k]
      BY <1>1, <3>2
    <3>7. Len(t) = n + 2 /\ \A k \in 1..(n + 1) : t[k] = r.runs[k]
      BY <1>1, <3>5, <3>6
    <3>8. SenseStays(s, t)
      <4>1. Len(s) <= Len(t)
        BY <1>1, <2>6, <3>7
      <4>2. ASSUME NEW k \in 1..Len(s) PROVE t[k].asserted = s[k].asserted
        <5>1. k \in 1..(n + 1) /\ (k \in 1..n \/ k = n + 1)
          BY <1>1, <2>6
        <5> QED
          BY <2>6, <3>3, <3>6, <3>7, <5>1
      <4> QED
        BY <4>1, <4>2 DEF SenseStays
    <3> QED
      BY <1>1, <3>4, <3>8 DEF r, s, t
  <2>8. CASE r = [w EXCEPT !.building = <<longer>>]
    <3>1. r.runs = w.runs /\ r.building = <<longer>>
      BY <1>1, <2>8
    <3> HIDE DEF longer, b, r, s, t
    <3>2. r.building # <<>> /\ r.building[1] = longer
      BY <3>1
    <3> DEFINE l == Close(r.building[1], TRUE)
    <3>3. l.asserted = Close(b, TRUE).asserted
      <4>1. l.asserted = (longer.first.value = 1)
        BY <3>2, Closed
      <4>2. Close(b, TRUE).asserted = (b.first.value = 1)
        BY Closed
      <4> QED
        BY <2>4, <4>1, <4>2
    <3> HIDE DEF l
    <3>4. t = Append(w.runs, l)
      BY <2>5, <3>1 DEF l
    <3>5. Len(t) = n + 1 /\ t[n + 1] = l /\ \A k \in 1..n : t[k] = w.runs[k]
      BY <1>1, <3>4
    <3>6. SenseStays(s, t)
      <4>1. Len(s) <= Len(t)
        BY <1>1, <2>6, <3>5
      <4>2. ASSUME NEW k \in 1..Len(s) PROVE t[k].asserted = s[k].asserted
        <5>1. k \in 1..n \/ k = n + 1
          BY <1>1, <2>6
        <5> QED
          BY <2>6, <3>3, <3>5, <5>1
      <4> QED
        BY <4>1, <4>2 DEF SenseStays
    <3> QED
      BY <1>1, <3>2, <3>6 DEF r, s, t
  <2> QED
    BY <2>3, <2>7, <2>8
<1> QED
  BY <1>2, <1>3

\* The walks of a stream and of what it opens are the same as far as both go.
LEMMA SameWalk ==
    ASSUME NEW s \in Seq(Observation), NEW t \in Seq(Observation), Opens(s, t), NEW gap \in Int,
           NEW n \in 0..Len(s)
    PROVE  Walk(s, gap)[n] = Walk(t, gap)[n]
<1> DEFINE a == Walk(s, gap)
           b == Walk(t, gap)
           N == Len(s)
           G == {k \in 0..N : a[k] = b[k]}
<1>1. /\ a[0] = Unbroken /\ \A k \in 1..N : a[k] = RunStep(a[k - 1], s[k], gap)
      /\ b[0] = Unbroken /\ \A k \in 1..Len(t) : b[k] = RunStep(b[k - 1], t[k], gap)
  BY WalkIs
<1>2. N \in Nat /\ Len(t) \in Nat /\ N <= Len(t) /\ \A k \in 1..N : t[k] = s[k]
  BY DEF Opens
<1> HIDE DEF a, b, N
<1>3. 0 \in G
  BY <1>1, <1>2
<1>4. ASSUME NEW k \in 0..(N - 1), k \in G PROVE k + 1 \in G
  <2>1. k + 1 \in 1..N /\ k + 1 \in 1..Len(t) /\ (k + 1) - 1 = k /\ k + 1 \in 0..N
    BY <1>2
  <2>2. a[k + 1] = RunStep(a[k], s[k + 1], gap) /\ b[k + 1] = RunStep(b[k], t[k + 1], gap)
    BY <1>1, <2>1
  <2>3. t[k + 1] = s[k + 1]
    BY <1>2, <2>1
  <2> QED
    BY <1>4, <2>1, <2>2, <2>3
<1> HIDE DEF G
<1>5. Inductive(G, 0, N)
  BY <1>3, <1>4 DEF Inductive
<1>6. 0..N \subseteq G
  BY <1>2, <1>5, Climb
<1>7. n \in 0..N
  BY DEF N
<1> QED
  BY <1>6, <1>7 DEF G, a, b

\* The runs of a stream that goes on are no fewer, of either sense.
LEMMA RunsGrow ==
    ASSUME NEW s \in Seq(Observation), NEW t \in Seq(Observation), Opens(s, t), NEW gap \in Int,
           InTime(s), InTime(t), NEW sense
    PROVE  /\ Len(Runs(s, sense, gap)) \in Nat /\ Len(Runs(t, sense, gap)) \in Nat
           /\ Len(Runs(s, sense, gap)) <= Len(Runs(t, sense, gap))
<1> DEFINE m == Len(s)
           n == Len(t)
           b == Walk(t, gap)
           one == DetectRuns(s, gap)
           other == DetectRuns(t, gap)
           places(runs) == {k \in DOMAIN runs : runs[k].asserted = sense}
<1>1. m \in Nat /\ n \in Nat /\ m <= n
  BY DEF Opens
<1>2. /\ b \in [0..n -> Walked] /\ b[0] = Unbroken
      /\ \A k \in 1..n : b[k] = RunStep(b[k - 1], t[k], gap)
  BY WalkIs
<1>3. one \in Seq(Run) /\ other \in Seq(Run)
  BY RunsAreSeen
<1>4. Walk(s, gap)[m] = b[m]
  <2>1. m \in 0..Len(s)
    BY <1>1
  <2> QED
    BY <2>1, SameWalk
<1> HIDE DEF b
<1>5. ASSUME NEW k \in 0..(n - 1)
      PROVE  /\ b[k + 1] \in Walked /\ b[k + 1].building # <<>>
             /\ b[k].building # <<>> => SenseStays(Stopped(b[k]), Stopped(b[k + 1]))
  <2>1. k + 1 \in 1..n /\ (k + 1) - 1 = k /\ k \in 0..n
    BY <1>1
  <2>2. b[k] \in Walked /\ t[k + 1] \in Observation /\ b[k + 1] = RunStep(b[k], t[k + 1], gap)
    <3> HIDE DEF n
    <3>1. b[k] \in Walked
      BY <1>2, <2>1
    <3>2. b[k + 1] = RunStep(b[k], t[k + 1], gap)
      BY <1>2, <2>1
    <3>3. t[k + 1] \in Observation
      BY <2>1 DEF n
    <3> QED
      BY <3>1, <3>2, <3>3
  <2> QED
    BY <2>2, StepKeeps
<1>6. SenseStays(one, other)
  <2>1. one = IF b[m].building = <<>> THEN <<>> ELSE Stopped(b[m])
    BY <1>4 DEF DetectRuns, Stopped
  <2>2. other = IF b[n].building = <<>> THEN <<>> ELSE Stopped(b[n])
    BY DEF DetectRuns, Stopped, b
  <2> HIDE DEF one, other
  <2>3. CASE b[m].building = <<>>
    <3>1. one = <<>> /\ Len(other) \in Nat
      BY <1>3, <2>1, <2>3
    <3> QED
      BY <3>1 DEF SenseStays
  <2>4. CASE b[m].building # <<>>
    <3> DEFINE G == {k \in m..n : b[k].building # <<>> /\ SenseStays(one, Stopped(b[k]))}
    <3>1. one = Stopped(b[m])
      BY <2>1, <2>4
    <3>2. m \in G
      <4>1. SenseStays(one, one)
        BY <1>3 DEF SenseStays
      <4> QED
        BY <1>1, <2>4, <3>1, <4>1
    <3>3. ASSUME NEW k \in m..(n - 1), k \in G PROVE k + 1 \in G
      <4>1. k \in 0..(n - 1) /\ k + 1 \in m..n
        BY <1>1
      <4>2. b[k + 1].building # <<>> /\ SenseStays(Stopped(b[k]), Stopped(b[k + 1]))
        BY <1>5, <3>3, <4>1
      <4>3. /\ Len(one) <= Len(Stopped(b[k])) /\ Len(Stopped(b[k])) <= Len(Stopped(b[k + 1]))
            /\ \A l \in 1..Len(one) : Stopped(b[k])[l].asserted = one[l].asserted
            /\ \A l \in 1..Len(Stopped(b[k])) :
                  Stopped(b[k + 1])[l].asserted = Stopped(b[k])[l].asserted
        BY <3>3, <4>2 DEF SenseStays
      <4>4. Len(one) \in Nat /\ Len(Stopped(b[k])) \in Nat /\ Len(Stopped(b[k + 1])) \in Nat
        <5>1. \A w \in Walked : Len(Stopped(w)) \in Nat
          <6> SUFFICES ASSUME NEW w \in Walked PROVE Len(Stopped(w)) \in Nat
            OBVIOUS
          <6>1. w.runs \in Seq(Run)
            BY DEF Walked
          <6> DEFINE c == Close(w.building[1], TRUE)
          <6> HIDE DEF c
          <6>2. Len(Append(w.runs, c)) \in Nat
            BY <6>1
          <6> QED
            BY <6>2 DEF Stopped, c
        <5>2. b[k] \in Walked /\ b[k + 1] \in Walked
          BY <1>1, <1>2, <4>1
        <5> QED
          BY <1>3, <5>1, <5>2
      <4>5. SenseStays(one, Stopped(b[k + 1]))
        <5>1. Len(one) <= Len(Stopped(b[k + 1]))
          BY <4>3, <4>4
        <5>2. \A l \in 1..Len(one) : l \in 1..Len(Stopped(b[k]))
          BY <4>3, <4>4
        <5> QED
          BY <4>3, <5>1, <5>2 DEF SenseStays
      <4> QED
        BY <4>1, <4>2, <4>5
    <3> HIDE DEF G
    <3>4. Inductive(G, m, n)
      BY <3>2, <3>3 DEF Inductive
    <3>5. n \in G
      <4>1. m..n \subseteq G /\ n \in m..n
        BY <1>1, <3>4, Climb
      <4> QED
        BY <4>1
    <3> QED
      BY <2>2, <3>5 DEF G
  <2> QED
    BY <2>3, <2>4
<1> HIDE DEF one, other
<1>7. /\ places(one) \subseteq places(other) /\ places(one) \in SUBSET (1..Len(one))
      /\ places(other) \in SUBSET (1..Len(other))
  <2>1. DOMAIN one = 1..Len(one) /\ DOMAIN other = 1..Len(other) /\ Len(one) \in Nat /\ Len(other) \in Nat
    BY <1>3
  <2>2. \A k \in 1..Len(one) : k \in 1..Len(other) /\ other[k].asserted = one[k].asserted
    BY <1>6, <2>1 DEF SenseStays
  <2> QED
    BY <2>1, <2>2
<1> HIDE DEF places
<1>8. /\ Len(Chosen(one, places(one))) = Cardinality(places(one))
      /\ Len(Chosen(other, places(other))) = Cardinality(places(other))
  BY <1>3, <1>7, ChosenIs
<1>9. /\ Cardinality(places(one)) \in Nat /\ Cardinality(places(other)) \in Nat
      /\ Cardinality(places(one)) <= Cardinality(places(other))
  <2>1. IsFiniteSet(1..Len(other))
    BY <1>3, FS_Interval
  <2>2. IsFiniteSet(places(other))
    BY <1>7, <2>1, FS_Subset
  <2> QED
    BY <1>7, <2>2, FS_Subset, FS_CardinalityType
<1>10. Runs(s, sense, gap) = Chosen(one, places(one)) /\ Runs(t, sense, gap) = Chosen(other, places(other))
  BY DEF Runs, one, other, places
<1> QED
  BY <1>8, <1>9, <1>10

\* A stream that has what another has, and besides only what is later, goes on from it.
LEMMA OpensIt ==
    ASSUME NEW s \in Seq(Observation), NEW t \in Seq(Observation), InTime(s), InTime(t),
           \A k \in 1..Len(s) : \E j \in 1..Len(t) : t[j] = s[k],
           \A j \in 1..Len(t) :
               \/ \E k \in 1..Len(s) : s[k] = t[j]
               \/ \A k \in 1..Len(s) : s[k].at < t[j].at
    PROVE  Opens(s, t)
<1> DEFINE m == Len(s)
           n == Len(t)
           f == [k \in 1..m |-> CHOOSE j \in 1..n : t[j] = s[k]]
           G == {k \in 0..m : \A l \in 1..k : f[l] = l}
<1>1. m \in Nat /\ n \in Nat
  OBVIOUS
<1>2. ASSUME NEW k \in 1..m PROVE f[k] \in 1..n /\ t[f[k]] = s[k]
  OBVIOUS
<1>3. /\ \A k \in 1..m : s[k] \in Observation /\ s[k].at \in Int
      /\ \A j \in 1..n : t[j] \in Observation /\ t[j].at \in Int
  <2>1. (\A k \in 1..m : s[k] \in Observation) /\ \A j \in 1..n : t[j] \in Observation
    OBVIOUS
  <2> QED
    BY <2>1 DEF Observation
<1>4. /\ \A i, j \in 1..m : i < j => s[i].at < s[j].at
      /\ \A i, j \in 1..n : i < j => t[i].at < t[j].at
      /\ \A j \in 1..n : \/ \E k \in 1..m : s[k] = t[j]
                         \/ \A k \in 1..m : s[k].at < t[j].at
  BY DEF InTime
<1> HIDE DEF m, n, f
<1>5. ASSUME NEW k \in 1..m, NEW l \in 1..m, k < l PROVE f[k] < f[l]
  <2>1. f[k] \in 1..n /\ f[l] \in 1..n /\ t[f[k]] = s[k] /\ t[f[l]] = s[l]
    BY <1>2
  <2>2. t[f[k]].at < t[f[l]].at
    BY <1>4, <1>5, <2>1
  <2>3. t[f[k]].at \in Int /\ t[f[l]].at \in Int
    BY <1>3, <2>1
  <2>4. ~(f[l] < f[k]) /\ f[k] # f[l]
    <3>1. f[l] < f[k] => t[f[l]].at < t[f[k]].at
      BY <1>4, <2>1
    <3> QED
      BY <2>2, <2>3, <3>1
  <2> QED
    BY <1>1, <2>1, <2>4
<1>6. ASSUME NEW k \in 1..m, NEW j \in 1..n, j < f[k] PROVE \E l \in 1..m : f[l] = j
  <2>1. f[k] \in 1..n /\ t[f[k]] = s[k]
    BY <1>2
  <2>2. t[j].at < s[k].at
    BY <1>4, <1>6, <2>1
  <2>3. t[j].at \in Int /\ s[k].at \in Int
    BY <1>3
  <2>4. PICK l \in 1..m : s[l] = t[j]
    BY <1>4, <2>2, <2>3
  <2>5. f[l] \in 1..n /\ t[f[l]] = t[j]
    BY <1>2, <2>4
  <2>6. ~(f[l] < j) /\ ~(j < f[l])
    BY <1>4, <2>3, <2>5
  <2>7. f[l] = j
    BY <1>1, <2>5, <2>6
  <2> QED
    BY <2>7
<1>7. 0 \in G
  BY <1>1
<1>8. ASSUME NEW k \in 0..(m - 1), k \in G PROVE k + 1 \in G
  <2>1. k + 1 \in 1..m /\ \A l \in 1..k : f[l] = l
    BY <1>1, <1>8
  <2>2. f[k + 1] \in 1..n /\ k \in Nat
    BY <1>2, <2>1
  <2>3. k + 1 <= f[k + 1]
    <3>1. CASE k = 0
      BY <1>1, <2>2, <3>1
    <3>2. CASE k # 0
      <4>1. k \in 1..m /\ k < k + 1 /\ k \in 1..k
        BY <1>1, <2>1, <2>2, <3>2
      <4>2. f[k] = k /\ f[k] < f[k + 1]
        BY <1>5, <2>1, <4>1
      <4> QED
        BY <1>1, <2>2, <4>2
    <3> QED
      BY <3>1, <3>2
  <2>4. ~(k + 1 < f[k + 1])
    <3> SUFFICES ASSUME k + 1 < f[k + 1] PROVE FALSE
      OBVIOUS
    <3>1. k + 1 \in 1..n
      BY <1>1, <2>2
    <3>2. PICK l \in 1..m : f[l] = k + 1
      BY <1>6, <2>1, <3>1
    <3>3. l \notin 1..k
      BY <2>1, <2>2, <3>2
    <3>4. l # k + 1
      BY <3>2, <2>2
    <3>5. k + 1 < l
      BY <2>2, <3>3, <3>4
    <3>6. f[k + 1] < f[l]
      BY <1>5, <2>1, <3>5
    <3> QED
      BY <2>2, <3>2, <3>6
  <2>5. f[k + 1] = k + 1
    BY <2>2, <2>3, <2>4
  <2>6. \A l \in 1..(k + 1) : l \in 1..k \/ l = k + 1
    BY <2>2
  <2>7. k + 1 \in 0..m
    BY <2>1
  <2> QED
    BY <2>1, <2>5, <2>6, <2>7
<1> HIDE DEF G
<1>9. Inductive(G, 0, m)
  BY <1>7, <1>8 DEF Inductive
<1>10. m \in G
  <2>1. 0..m \subseteq G /\ m \in 0..m
    BY <1>1, <1>9, Climb
  <2> QED
    BY <2>1
<1>11. \A k \in 1..m : f[k] = k
  BY <1>10 DEF G
<1>12. \A k \in 1..m : k \in 1..n /\ t[k] = s[k]
  BY <1>2, <1>11
<1>13. m <= n
  <2>1. CASE m = 0
    BY <1>1, <2>1
  <2>2. CASE m # 0
    <3>1. m \in 1..m
      BY <1>1, <2>2
    <3> QED
      BY <1>1, <1>12, <3>1
  <2> QED
    BY <2>1, <2>2
<1> QED
  BY <1>12, <1>13 DEF Opens, m, n

\* A row without the columns a report does not use.
Shown(r) == [at |-> r.at, offset |-> r.offset, value |-> r.value]

\* A stream shows the rows found in a log.
Shows(s, log, found) ==
    /\ s \in Seq(Observation) /\ InTime(s)
    /\ \A k \in 1..Len(s) : \E i \in found : s[k] = Shown(log[i])
    /\ \A i \in found : \E k \in 1..Len(s) : s[k] = Shown(log[i])

\* That is what the queries of a report do.
LEMMA StreamShows ==
    ASSUME NEW log \in Seq(Row), Distinct(log), NEW sensor, NEW start, NEW end
    PROVE  Shows(Observations(log, sensor, start, end), log, Matching(log, sensor, start, end))
<1> DEFINE s == Observations(log, sensor, start, end)
           found == Matching(log, sensor, start, end)
           shown(r) == [at |-> r.at, offset |-> r.offset, value |-> r.value]
<1>1. s \in Seq(Observation) /\ InTime(s)
  BY ObservationsAre
<1>2. \A k \in 1..Len(s) : \E i \in found : s[k] = shown(log[i])
  BY ObservationsAre
<1>3. \A i \in found : \E k \in 1..Len(s) : s[k] = shown(log[i])
  BY ObservationsAre
<1> HIDE DEF s, found
<1>4. \A r : Shown(r) = shown(r)
  BY DEF Shown
<1> HIDE DEF shown
<1> QED
  BY <1>1, <1>2, <1>3, <1>4 DEF Shows, s, found

\* Where the readings of a sensor follow each other, its stream of a longer record
\* goes on from that of a shorter one.
LEMMA StreamGoesOn ==
    ASSUME NEW one \in Seq(Row), NEW other \in Seq(Row), Distinct(one), Distinct(other),
           Len(one) <= Len(other), \A i \in 1..Len(one) : other[i] = one[i],
           NEW sensor, NEW start, NEW end,
           \A i, j \in 1..Len(other) :
              i < j /\ other[i].sensor = other[j].sensor => other[i].at < other[j].at
    PROVE  Opens(Observations(one, sensor, start, end), Observations(other, sensor, start, end))
<1> DEFINE s == Observations(one, sensor, start, end)
           t == Observations(other, sensor, start, end)
           inS == Matching(one, sensor, start, end)
           inT == Matching(other, sensor, start, end)
<1>1. /\ s \in Seq(Observation) /\ InTime(s)
      /\ \A k \in 1..Len(s) : \E i \in inS : s[k] = Shown(one[i])
      /\ \A i \in inS : \E k \in 1..Len(s) : s[k] = Shown(one[i])
  BY StreamShows DEF Shows
<1>2. /\ t \in Seq(Observation) /\ InTime(t)
      /\ \A k \in 1..Len(t) : \E i \in inT : t[k] = Shown(other[i])
      /\ \A i \in inT : \E k \in 1..Len(t) : t[k] = Shown(other[i])
  BY StreamShows DEF Shows
<1>3. /\ \A i \in inS : i \in 1..Len(one) /\ one[i].sensor = sensor
      /\ \A i \in inT : i \in 1..Len(other) /\ other[i].sensor = sensor
      /\ \A i \in 1..Len(one) : i \in inS <=> i \in inT
  <2>1. DOMAIN one = 1..Len(one) /\ DOMAIN other = 1..Len(other) /\ Len(one) \in Nat /\ Len(other) \in Nat
    OBVIOUS
  <2>2. \A i \in 1..Len(one) : i \in 1..Len(other)
    BY <2>1
  <2> QED
    BY <2>1, <2>2 DEF Matching
<1>4. \A r : Shown(r).at = r.at
  BY DEF Shown
<1> HIDE DEF s, t, inS, inT
<1>5. ASSUME NEW k \in 1..Len(s) PROVE \E j \in 1..Len(t) : t[j] = s[k]
  <2>1. PICK i \in inS : s[k] = Shown(one[i])
    BY <1>1
  <2>2. i \in inT /\ other[i] = one[i]
    BY <1>3
  <2>3. PICK j \in 1..Len(t) : t[j] = Shown(other[i])
    BY <1>2, <2>2
  <2> QED
    BY <2>1, <2>2, <2>3
<1>6. ASSUME NEW j \in 1..Len(t)
      PROVE  \/ \E k \in 1..Len(s) : s[k] = t[j]
             \/ \A k \in 1..Len(s) : s[k].at < t[j].at
  <2>1. PICK i \in inT : t[j] = Shown(other[i])
    BY <1>2
  <2>2. CASE i \in 1..Len(one)
    <3>1. i \in inS /\ other[i] = one[i]
      BY <1>3, <2>2
    <3>2. PICK k \in 1..Len(s) : s[k] = Shown(one[i])
      BY <1>1, <3>1
    <3> QED
      BY <2>1, <3>1, <3>2
  <2>3. CASE i \notin 1..Len(one)
    <3> SUFFICES ASSUME NEW k \in 1..Len(s) PROVE s[k].at < t[j].at
      OBVIOUS
    <3>1. PICK l \in inS : s[k] = Shown(one[l])
      BY <1>1
    <3>2. l \in 1..Len(one) /\ l \in inT /\ other[l] = one[l]
      BY <1>3, <3>1
    <3>3. Len(one) \in Nat /\ i \in 1..Len(other) /\ l \in 1..Len(other)
      BY <1>3, <3>2
    <3>4. l < i
      BY <2>3, <3>2, <3>3
    <3>5. other[l].sensor = other[i].sensor
      BY <1>3, <3>2
    <3>6. other[l].at < other[i].at
      BY <3>3, <3>4, <3>5
    <3> QED
      BY <1>4, <2>1, <3>1, <3>2, <3>6
  <2> QED
    BY <2>2, <2>3
<1>7. Opens(s, t)
  BY <1>1, <1>2, <1>5, <1>6, OpensIt
<1> QED
  BY <1>7 DEF s, t
===============================================================================
