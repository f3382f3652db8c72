-------------------------- MODULE Benchmark_proofs --------------------------
(***************************************************************************)
(* Theorems about Benchmark, for any cases, attempts, sessions, faults and *)
(* signals.                                                                *)
(*                                                                         *)
(* Two arguments meet here.  What is in a report is right because an       *)
(* attempt is accepted only as what it was verified to be (Measured,       *)
(* Expected), and replaces what is right by what fits it (Right).  A MISS  *)
(* is cold because in the order of the measurements nothing of its case is *)
(* cached before it (Todo), and what is cached after it is deleted before  *)
(* it is measured again (Expected).                                        *)
(***************************************************************************)
EXTENDS Benchmark, SequenceTheorems, FiniteSetTheorems, TLAPS

\* A step that leaves "left" alone leaves its three variables alone.
USE DEF left

-----------------------------------------------------------------------------
(* The order of the measurements.                                          *)

\* A measurement that may come before another: it is another, and if that is a
\* MISS, does not cache an entry of its case.
Before(p, q) == p # q /\ (q[1] = "cached_miss" => (p[1] = "native" \/ p[2] # q[2]))
Ordered(todo) == \A i, j \in DOMAIN todo : i < j => Before(todo[i], todo[j])

\* The cases are listed once each.
LEMMA CaseOrderIs ==
    /\ Cardinality(Cases) \in Nat /\ CaseOrder \in Seq(Cases)
    /\ Len(CaseOrder) = Cardinality(Cases)
    /\ \A i, j \in 1..Len(CaseOrder) : CaseOrder[i] = CaseOrder[j] => i = j
<1> DEFINE n == Cardinality(Cases)
           Once(s) == \A i, j \in DOMAIN s : s[i] = s[j] => i = j
<1>1. n \in Nat /\ ExistsBijection(1..n, Cases)
  BY BenchmarkAssumption, FS_CardinalityType
<1>2. PICK s \in [1..n -> Cases] : \A i, j \in 1..n : s[i] = s[j] => i = j
  <2>1. PICK f : f \in Bijection(1..n, Cases)
    BY <1>1 DEF ExistsBijection
  <2> QED
    BY <2>1 DEF Bijection, Injection, IsInjective
<1>3. CaseOrder \in [1..n -> Cases] /\ Once(CaseOrder)
  <2>1. Once(s) /\ CaseOrder = CHOOSE t \in [1..n -> Cases] : Once(t)
    BY <1>2 DEF CaseOrder
  <2> HIDE DEF Once
  <2> QED
    BY <2>1
<1>4. CaseOrder \in Seq(Cases) /\ Len(CaseOrder) = n
  BY <1>1, <1>3
<1> QED
  BY <1>1, <1>3, <1>4

\* Native, MISS and HIT of each case: a MISS comes before all that caches its case.
LEMMA AllOrdered == AllMeasurements \in Seq(Pairs) /\ Ordered(AllMeasurements)
<1> DEFINE n == Len(CaseOrder)
           all == AllMeasurements
           Group(i) == Groups[((i - 1) % 3) + 1]
           Case(i) == CaseOrder[((i - 1) \div 3) + 1]
<1>1. n \in Nat /\ CaseOrder \in Seq(Cases) /\ DOMAIN CaseOrder = 1..n
  BY CaseOrderIs
<1>2. ASSUME NEW i \in 1..3 * n
      PROVE  /\ ((i - 1) % 3) + 1 \in 1..3 /\ ((i - 1) \div 3) + 1 \in 1..n
             /\ i - 1 = 3 * ((i - 1) \div 3) + ((i - 1) % 3)
  BY <1>1, <1>2
<1>3. \A i \in 1..3 * n : Group(i) \in {Groups[k] : k \in DOMAIN Groups} /\ Case(i) \in Cases
  BY <1>1, <1>2, ElementOfSeq DEF Groups
<1>4. all \in Seq(Pairs) /\ DOMAIN all = 1..3 * n /\ \A i \in 1..3 * n : all[i] = <<Group(i), Case(i)>>
  BY <1>1, <1>3 DEF AllMeasurements, Pairs
<1>5. ASSUME NEW i \in 1..3 * n, NEW j \in 1..3 * n, i < j PROVE Before(all[i], all[j])
  <2> DEFINE a == (i - 1) % 3
             b == (j - 1) % 3
             p == (i - 1) \div 3
             q == (j - 1) \div 3
  <2>1. /\ a \in 0..2 /\ b \in 0..2 /\ p + 1 \in 1..n /\ q + 1 \in 1..n
        /\ i - 1 = 3 * p + a /\ j - 1 = 3 * q + b /\ p \in Int /\ q \in Int
    BY <1>1, <1>2
  <2>2. all[i] = <<Groups[a + 1], CaseOrder[p + 1]>> /\ all[j] = <<Groups[b + 1], CaseOrder[q + 1]>>
    BY <1>4
  <2> HIDE DEF a, b, p, q
  <2>3. CaseOrder[p + 1] = CaseOrder[q + 1] => p = q /\ a < b
    <3>1. CaseOrder[p + 1] = CaseOrder[q + 1] => p + 1 = q + 1
      BY <2>1, CaseOrderIs
    <3> QED
      BY <1>5, <2>1, <3>1
  <2>4. \A k, l \in 0..2 :
           k < l => /\ Groups[k + 1] # Groups[l + 1]
                    /\ (Groups[l + 1] = "cached_miss" => Groups[k + 1] = "native")
    BY DEF Groups
  <2> QED
    BY <2>1, <2>2, <2>3, <2>4 DEF Before
<1> QED
  BY <1>4, <1>5 DEF Ordered

-----------------------------------------------------------------------------
(* What is in a report.                                                    *)

PairOf(r) == <<r.group, r.case>>

\* An accepted run is its pair's, of the report's environment, and what its group
\* is named for.
RunIsRight(rep, p) ==
    rep.runs[p] # NoRun =>
        /\ RunOK(rep.runs[p]) /\ PairOf(rep.runs[p]) = p
        /\ rep.runs[p].env = rep.env /\ rep.env # NoEnv
        /\ (rep.runs[p].encoded <=> p[1] # "cached_hit")
        /\ (p[1] = "cached_miss" => rep.runs[p].fp # NoFp)

\* A HIT is of the entry its case's MISS made.
HitIsOfMiss(rep, c) ==
    rep.runs[<<"cached_hit", c>>] # NoRun =>
        /\ rep.runs[<<"cached_miss", c>>] # NoRun
        /\ rep.runs[<<"cached_hit", c>>].fp = rep.runs[<<"cached_miss", c>>].fp

\* The audit trail is numbered, and what it calls accepted is in the report.
Trail(rep) ==
    \A i \in DOMAIN rep.attempts :
        /\ rep.attempts[i].id = i
        /\ (rep.attempts[i].accepted => rep.runs[PairOf(rep.attempts[i])] = rep.attempts[i])

Full(rep) == \A p \in Pairs : rep.runs[p] # NoRun

Right(rep) ==
    /\ rep \in Reports
    /\ \A p \in Pairs : RunIsRight(rep, p)
    /\ \A c \in Cases : HitIsOfMiss(rep, c)
    /\ Trail(rep)
    /\ (rep.status \in {"complete", "rerun_failed"} => Full(rep))

\* A run that may be taken into a report.
RunFits(kind, rep, run) ==
    /\ run \in AttemptRecords /\ RunOK(run) /\ run.env # NoEnv
    /\ (run.encoded <=> run.group # "cached_hit")
    /\ (run.group = "cached_miss" => run.fp # NoFp)
    /\ (run.group = "cached_hit" => /\ rep.runs[<<"cached_miss", run.case>>] # NoRun
                                    /\ run.fp = rep.runs[<<"cached_miss", run.case>>].fp)
    /\ (kind = "benchmark" => rep.status = "running" /\ rep.runs[PairOf(run)] = NoRun)
    /\ (kind = "rerun" =>
          /\ Full(rep)
          /\ (run.group = "cached_miss" => run.fp = rep.runs[<<"cached_miss", run.case>>].fp))

\* The attempts of one measurement, which come after those of the report.
Tried(rep, tries0) ==
    /\ tries0 \in Seq(AttemptRecords)
    /\ \A i \in DOMAIN tries0 : tries0[i].id = Len(rep.attempts) + i /\ ~tries0[i].accepted

\* The pairs of the cases.
LEMMA PairsAre ==
    /\ \A p \in Pairs : p[1] \in {"native", "cached_miss", "cached_hit"} /\ p[2] \in Cases
                          /\ p = <<p[1], p[2]>>
    /\ \A g \in {"native", "cached_miss", "cached_hit"}, c \in Cases : <<g, c>> \in Pairs
    /\ \A r \in AttemptRecords : PairOf(r) \in Pairs
<1>1. {Groups[i] : i \in DOMAIN Groups} = {"native", "cached_miss", "cached_hit"}
  BY DEF Groups
<1>2. Pairs = {"native", "cached_miss", "cached_hit"} \X Cases
  BY <1>1 DEF Pairs
<1> QED
  BY <1>2 DEF AttemptRecords, PairOf

\* The fields of a report have their types.
LEMMA ReportFields ==
    ASSUME NEW rep \in Reports
    PROVE  /\ rep.status \in {"running", "failed", "complete", "rerun_failed"}
           /\ rep.bench \in 1..MaxSessions /\ rep.env \in {0, 1, NoEnv}
           /\ rep.runs \in [Pairs -> AttemptRecords \cup {NoRun}]
           /\ \A p \in Pairs : rep.runs[p] # NoRun => rep.runs[p] \in AttemptRecords
           /\ rep.attempts \in Seq(AttemptRecords) /\ Len(rep.attempts) \in Nat
           /\ DOMAIN rep.attempts = 1..Len(rep.attempts)
           /\ \A i \in DOMAIN rep.attempts : rep.attempts[i] \in AttemptRecords
<1>1. rep.runs \in [Pairs -> AttemptRecords \cup {NoRun}] /\ rep.attempts \in Seq(AttemptRecords)
  BY DEF Reports
<1>2. /\ rep.status \in {"running", "failed", "complete", "rerun_failed"}
      /\ rep.bench \in 1..MaxSessions /\ rep.env \in {0, 1, NoEnv}
  BY DEF Reports
<1> QED
  BY <1>1, <1>2, ElementOfSeq, LenProperties

\* The trail with the attempts of a measurement.
Longer(rep, tries0, r) == rep.attempts \o Append(tries0, r)

\* What it holds.
LEMMA LongerIs ==
    ASSUME NEW rep \in Reports, Trail(rep),
           NEW tries0, Tried(rep, tries0), NEW r \in AttemptRecords,
           r.id = Len(rep.attempts) + Len(tries0) + 1
    PROVE  /\ Longer(rep, tries0, r) \in Seq(AttemptRecords)
           /\ Len(Longer(rep, tries0, r)) = Len(rep.attempts) + Len(tries0) + 1
           /\ \A i \in DOMAIN Longer(rep, tries0, r) :
                 /\ Longer(rep, tries0, r)[i] \in AttemptRecords
                 /\ Longer(rep, tries0, r)[i].id = i
                 /\ \/ i \in DOMAIN rep.attempts /\ Longer(rep, tries0, r)[i] = rep.attempts[i]
                    \/ ~Longer(rep, tries0, r)[i].accepted
                    \/ Longer(rep, tries0, r)[i] = r
           /\ \A i \in DOMAIN rep.attempts : /\ i \in DOMAIN Longer(rep, tries0, r)
                                             /\ Longer(rep, tries0, r)[i] = rep.attempts[i]
<1> DEFINE old == rep.attempts
           m == Len(rep.attempts)
           n == Len(tries0)
           new == Append(tries0, r)
           all == Longer(rep, tries0, r)
<1>1. /\ old \in Seq(AttemptRecords) /\ m \in Nat /\ DOMAIN old = 1..m
      /\ \A i \in 1..m : old[i] \in AttemptRecords
  BY ReportFields
<1>2. /\ tries0 \in Seq(AttemptRecords) /\ n \in Nat /\ DOMAIN tries0 = 1..n
      /\ \A i \in 1..n : tries0[i] \in AttemptRecords
  BY ElementOfSeq, LenProperties DEF Tried
<1>3. /\ new \in Seq(AttemptRecords) /\ Len(new) = n + 1
      /\ \A i \in 1..n : new[i] = tries0[i]
      /\ new[n + 1] = r
  BY <1>2, AppendProperties
<1> HIDE DEF old, m, n, new
<1>4. /\ all \in Seq(AttemptRecords) /\ Len(all) = m + (n + 1)
      /\ \A i \in 1..m : all[i] = old[i]
      /\ \A i \in (m + 1)..(m + (n + 1)) : all[i] = new[i - m]
  <2>1. all = old \o new
    BY DEF Longer, old, new
  <2>2. Len(old) = m
    BY DEF old, m
  <2>3. /\ old \o new \in Seq(AttemptRecords) /\ Len(old \o new) = Len(old) + Len(new)
        /\ \A i \in 1..Len(old) + Len(new) :
              (old \o new)[i] = IF i <= Len(old) THEN old[i] ELSE new[i - Len(old)]
    BY <1>1, <1>3
  <2> HIDE DEF all
  <2>4. /\ all \in Seq(AttemptRecords) /\ Len(all) = m + (n + 1)
        /\ \A i \in 1..m + (n + 1) : all[i] = IF i <= m THEN old[i] ELSE new[i - m]
    BY <1>3, <2>1, <2>2, <2>3
  <2> QED
    BY <1>1, <1>2, <2>4
<1> HIDE DEF all
<1>5. DOMAIN all = 1..(m + (n + 1))
  BY <1>1, <1>2, <1>4
<1>6. ASSUME NEW i \in 1..m
      PROVE  all[i] \in AttemptRecords /\ all[i].id = i /\ all[i] = old[i]
  BY <1>1, <1>4 DEF Trail, old
<1>7. ASSUME NEW i \in (m + 1)..(m + (n + 1))
      PROVE  all[i] \in AttemptRecords /\ all[i].id = i /\ (~all[i].accepted \/ all[i] = r)
  <2>1. CASE i = m + (n + 1)
    <3>1. i - m = n + 1 /\ all[i] = r
      BY <1>1, <1>2, <1>3, <1>4, <2>1
    <3>2. r.id = m + n + 1
      BY DEF m, n
    <3> QED
      BY <1>1, <1>2, <2>1, <3>1, <3>2
  <2>2. CASE i # m + (n + 1)
    <3>1. i - m \in 1..n /\ i = m + (i - m)
      BY <1>1, <1>2, <1>7, <2>2
    <3>2. all[i] = tries0[i - m]
      BY <1>3, <1>4, <3>1
    <3>3. tries0[i - m].id = m + (i - m) /\ ~tries0[i - m].accepted
      BY <1>2, <3>1 DEF Tried, m
    <3> QED
      BY <1>2, <3>1, <3>2, <3>3
  <2> QED
    BY <2>1, <2>2
<1>8. Len(all) = m + n + 1
  BY <1>1, <1>2, <1>4
<1>9. \A i \in 1..(m + (n + 1)) : i \in 1..m \/ i \in (m + 1)..(m + (n + 1))
  BY <1>1, <1>2
<1>10. \A i \in 1..m : i \in DOMAIN all
  BY <1>1, <1>2, <1>5
<1> QED
  BY <1>1, <1>4, <1>5, <1>6, <1>7, <1>8, <1>9, <1>10 DEF all, old, m, n

\* The last attempt, made a failed one.
LEMMA LastFailed ==
    ASSUME NEW tries0 \in Seq(AttemptRecords), NEW r \in AttemptRecords
    PROVE  LET s == Append(tries0, r)
           IN  [s EXCEPT ![Len(s)].accepted = FALSE, ![Len(s)].status = "failed"]
                 = Append(tries0, [r EXCEPT !.accepted = FALSE, !.status = "failed"])
<1> DEFINE n == Len(tries0)
           f == [r EXCEPT !.accepted = FALSE, !.status = "failed"]
           s == Append(tries0, r)
           t == Append(tries0, f)
           u == [s EXCEPT ![Len(s)].accepted = FALSE, ![Len(s)].status = "failed"]
<1>1. n \in Nat /\ f \in AttemptRecords
  BY LenProperties DEF AttemptRecords
<1>2. /\ s \in Seq(AttemptRecords) /\ Len(s) = n + 1
      /\ \A i \in 1..n : s[i] = tries0[i]
      /\ s[n + 1] = r
  BY AppendProperties
<1>3. /\ t \in Seq(AttemptRecords) /\ Len(t) = n + 1
      /\ \A i \in 1..n : t[i] = tries0[i]
      /\ t[n + 1] = f
  BY <1>1, AppendProperties
<1> HIDE DEF n, s, t
<1>4. DOMAIN s = 1..(n + 1) /\ DOMAIN t = 1..(n + 1) /\ Len(s) \in DOMAIN s
  BY <1>1, <1>2, <1>3
<1>5. \A i \in 1..(n + 1) : u[i] = IF i = n + 1 THEN f ELSE s[i]
  BY <1>2, <1>4
<1>6. DOMAIN u = 1..(n + 1) /\ u = [i \in 1..(n + 1) |-> u[i]]
  BY <1>4
<1>7. t = [i \in 1..(n + 1) |-> t[i]]
  BY <1>3, <1>4
<1> HIDE DEF u, f
<1>8. ASSUME NEW i \in 1..(n + 1) PROVE u[i] = t[i]
  <2>1. CASE i = n + 1
    BY <1>3, <1>5, <2>1
  <2>2. CASE i # n + 1
    <3>1. i \in 1..n
      BY <1>1, <2>2
    <3> QED
      BY <1>2, <1>3, <1>5, <2>2, <3>1
  <2> QED
    BY <2>1, <2>2
<1>9. u = t
  BY <1>6, <1>7, <1>8
<1> QED
  BY <1>9 DEF s, t, u, f

\* A report is right as long as its runs, its environment and its trail are.
LEMMA StaysRight ==
    ASSUME NEW d, Right(d), NEW e \in Reports, e.env = d.env, e.runs = d.runs, Trail(e),
           e.status \in {"complete", "rerun_failed"} => Full(d)
    PROVE  Right(e)
<1>1. \A p \in Pairs : RunIsRight(e, p)
  BY DEF Right, RunIsRight
<1>2. \A c \in Cases : HitIsOfMiss(e, c)
  BY DEF Right, HitIsOfMiss
<1>3. e.status \in {"complete", "rerun_failed"} => Full(e)
  BY DEF Full
<1> QED
  BY <1>1, <1>2, <1>3 DEF Right

\* A measurement without an accepted run leaves a report right, and the runs in it.
LEMMA NoneAcceptedKeeps ==
    ASSUME NEW kind \in {"benchmark", "rerun"}, NEW rep, Right(rep),
           kind = "benchmark" => rep.status = "running",
           kind = "rerun" => Full(rep),
           NEW tries0, Tried(rep, tries0), NEW r \in AttemptRecords, ~r.accepted,
           r.id = Len(rep.attempts) + Len(tries0) + 1
    PROVE  LET e == NoneAccepted(kind, rep, Append(tries0, r))
           IN  /\ Right(e) /\ e.bench = rep.bench /\ e.runs = rep.runs
               /\ e.status = IF kind = "benchmark" THEN "failed" ELSE "rerun_failed"
               /\ Preserves(rep, e)
<1> DEFINE e == NoneAccepted(kind, rep, Append(tries0, r))
           all == Longer(rep, tries0, r)
           st == IF kind = "benchmark" THEN "failed" ELSE "rerun_failed"
<1>1. rep \in Reports /\ Trail(rep)
  BY DEF Right
<1>2. /\ all \in Seq(AttemptRecords)
      /\ \A i \in DOMAIN all :
            /\ all[i] \in AttemptRecords /\ all[i].id = i
            /\ \/ i \in DOMAIN rep.attempts /\ all[i] = rep.attempts[i]
               \/ ~all[i].accepted
               \/ all[i] = r
      /\ \A i \in DOMAIN rep.attempts : i \in DOMAIN all /\ all[i] = rep.attempts[i]
  BY <1>1, LongerIs
<1>3. e = [rep EXCEPT !.attempts = all, !.status = st]
  BY DEF NoneAccepted, Longer
<1> HIDE DEF all, e
<1>4. /\ e \in Reports /\ e.attempts = all /\ e.status = st /\ e.bench = rep.bench
      /\ e.env = rep.env /\ e.runs = rep.runs
  BY <1>1, <1>2, <1>3 DEF Reports
<1>5. Trail(e)
  <2>1. ASSUME NEW i \in DOMAIN all
        PROVE  all[i].id = i /\ (all[i].accepted => rep.runs[PairOf(all[i])] = all[i])
    BY <1>1, <1>2 DEF Trail
  <2> QED
    BY <1>4, <2>1 DEF Trail
<1>6. Right(e)
  BY <1>4, <1>5, StaysRight
<1>7. Preserves(rep, e)
  <2>1. SUFFICES ASSUME Loadable(rep)
                 PROVE  /\ e.status = "rerun_failed"
                        /\ Cardinality({p \in Pairs : e.runs[p] # rep.runs[p]}) <= 0
                        /\ \A i \in DOMAIN rep.attempts :
                              e.attempts[i] \in {rep.attempts[i],
                                                 [rep.attempts[i] EXCEPT !.accepted = FALSE]}
    BY DEF Preserves
  <2>2. kind = "rerun"
    BY <2>1 DEF Loadable
  <2>3. {p \in Pairs : e.runs[p] # rep.runs[p]} = {}
    BY <1>4
  <2>4. Cardinality({p \in Pairs : e.runs[p] # rep.runs[p]}) = 0
    BY <2>3, FS_EmptySet
  <2> QED
    BY <1>2, <1>4, <2>2, <2>4
<1> QED
  BY <1>4, <1>6, <1>7 DEF e

\* The supersession of a rerun: the other accepted attempts of the run's pair.
LEMMA SupersededIs ==
    ASSUME NEW all \in Seq(AttemptRecords), NEW run \in AttemptRecords
    PROVE  /\ Superseded(all, run) \in Seq(AttemptRecords)
           /\ DOMAIN Superseded(all, run) = DOMAIN all
           /\ \A i \in DOMAIN all :
                 /\ Superseded(all, run)[i].id = all[i].id
                 /\ Superseded(all, run)[i] \in {all[i], [all[i] EXCEPT !.accepted = FALSE]}
                 /\ (PairOf(all[i]) = PairOf(run) /\ all[i].id # run.id
                       => ~Superseded(all, run)[i].accepted)
                 /\ (Superseded(all, run)[i].accepted => Superseded(all, run)[i] = all[i])
<1> DEFINE sup == Superseded(all, run)
           off(a) == [a EXCEPT !.accepted = FALSE]
<1>1. /\ DOMAIN all = 1..Len(all) /\ Len(all) \in Nat
      /\ \A i \in DOMAIN all : all[i] \in AttemptRecords
  BY ElementOfSeq, LenProperties
<1>2. \A a \in AttemptRecords : off(a) \in AttemptRecords /\ off(a).id = a.id /\ ~off(a).accepted
  BY DEF AttemptRecords
<1> HIDE DEF off
<1>3. /\ DOMAIN sup = DOMAIN all
      /\ \A i \in DOMAIN all :
            sup[i] = IF all[i].group = run.group /\ all[i].case = run.case /\ all[i].id # run.id
                     THEN off(all[i]) ELSE all[i]
      /\ sup = [i \in 1..Len(all) |-> sup[i]]
  BY <1>1 DEF Superseded, off
<1> HIDE DEF sup
<1>4. \A i \in DOMAIN all : sup[i] \in AttemptRecords
  BY <1>1, <1>2, <1>3
<1>5. sup \in Seq(AttemptRecords)
  BY <1>1, <1>3, <1>4
<1>6. ASSUME NEW i \in DOMAIN all
      PROVE  /\ sup[i].id = all[i].id /\ sup[i] \in {all[i], off(all[i])}
             /\ (PairOf(all[i]) = PairOf(run) /\ all[i].id # run.id => ~sup[i].accepted)
             /\ (sup[i].accepted => sup[i] = all[i])
  BY <1>1, <1>2, <1>3 DEF PairOf
<1> QED
  BY <1>3, <1>5, <1>6 DEF sup, off

\* The report with a run taken.
Took(kind, rep, tries0, run) ==
    [rep EXCEPT !.runs[PairOf(run)] = run,
                !.attempts = IF kind = "rerun" THEN Superseded(Longer(rep, tries0, run), run)
                             ELSE Longer(rep, tries0, run),
                !.env = run.env,
                !.status = IF kind = "rerun" THEN "complete" ELSE @]

\* Taken takes the run, or rejects it.
LEMMA TakenIs ==
    ASSUME NEW kind \in {"benchmark", "rerun"}, NEW rep \in Reports,
           NEW tries0 \in Seq(AttemptRecords), NEW run \in AttemptRecords
    PROVE  Taken(kind, rep, Append(tries0, run), run) =
              IF Unfit(kind, rep, run)
              THEN NoneAccepted(kind, rep,
                       Append(tries0, [run EXCEPT !.accepted = FALSE, !.status = "failed"]))
              ELSE Took(kind, rep, tries0, run)
<1> DEFINE attempts == Append(tries0, run)
           failed == [attempts EXCEPT ![Len(attempts)].accepted = FALSE,
                                      ![Len(attempts)].status = "failed"]
           all == rep.attempts \o attempts
           kept == IF kind = "rerun" THEN Superseded(all, run) ELSE all
           next == [rep EXCEPT !.runs[<<run.group, run.case>>] = run,
                               !.attempts = kept, !.env = run.env]
           next2 == IF kind = "rerun" THEN [next EXCEPT !.status = "complete"] ELSE next
<1>1. failed = Append(tries0, [run EXCEPT !.accepted = FALSE, !.status = "failed"])
  BY LastFailed
<1>2. Taken(kind, rep, attempts, run)
        = IF Unfit(kind, rep, run) THEN NoneAccepted(kind, rep, failed) ELSE next2
  BY DEF Taken
<1>3. next2 = Took(kind, rep, tries0, run)
  <2> DEFINE k2 == IF kind = "rerun" THEN Superseded(Longer(rep, tries0, run), run)
                   ELSE Longer(rep, tries0, run)
             r2 == [rep.runs EXCEPT ![PairOf(run)] = run]
  <2>1. kept = k2
    BY DEF Longer
  <2>2. next = [rep EXCEPT !.runs = r2, !.attempts = k2, !.env = run.env]
    <3> HIDE DEF kept, k2
    <3> QED
      BY <2>1 DEF PairOf
  <2>3. Took(kind, rep, tries0, run)
          = [rep EXCEPT !.runs = r2, !.attempts = k2, !.env = run.env,
                        !.status = IF kind = "rerun" THEN "complete" ELSE @]
    <3> HIDE DEF k2
    <3> QED
      BY DEF Took, k2
  <2> HIDE DEF next, k2, r2
  <2> QED
    BY <2>2, <2>3 DEF Reports
<1> HIDE DEF attempts, failed, next2
<1> QED
  BY <1>1, <1>2, <1>3 DEF attempts

\* The fields of the report with the run.
LEMMA TookIs ==
    ASSUME NEW kind \in {"benchmark", "rerun"}, NEW rep, Right(rep),
           NEW tries0, Tried(rep, tries0), NEW run \in AttemptRecords,
           run.id = Len(rep.attempts) + Len(tries0) + 1
    PROVE  LET e == Took(kind, rep, tries0, run)
               all == Longer(rep, tries0, run)
           IN  /\ e \in Reports /\ e.bench = rep.bench /\ e.env = run.env
               /\ e.status = IF kind = "rerun" THEN "complete" ELSE rep.status
               /\ e.attempts = IF kind = "rerun" THEN Superseded(all, run) ELSE all
               /\ \A p \in Pairs : e.runs[p] = IF p = PairOf(run) THEN run ELSE rep.runs[p]
<1> DEFINE e == Took(kind, rep, tries0, run)
           all == Longer(rep, tries0, run)
           k == IF kind = "rerun" THEN Superseded(all, run) ELSE all
           rs == [rep.runs EXCEPT ![PairOf(run)] = run]
<1>1. rep \in Reports /\ Trail(rep) /\ tries0 \in Seq(AttemptRecords)
  BY DEF Right, Tried
<1>2. all \in Seq(AttemptRecords)
  BY <1>1, LongerIs
<1>3. k \in Seq(AttemptRecords)
  BY <1>2, SupersededIs
<1>4. /\ rs \in [Pairs -> AttemptRecords \cup {NoRun}]
      /\ \A p \in Pairs : rs[p] = IF p = PairOf(run) THEN run ELSE rep.runs[p]
  BY <1>1, ReportFields, PairsAre
<1>5. e = [rep EXCEPT !.runs = rs, !.attempts = k, !.env = run.env,
                      !.status = IF kind = "rerun" THEN "complete" ELSE @]
  BY DEF Took
<1>6. run.env \in {0, 1, NoEnv}
  BY DEF AttemptRecords
<1> HIDE DEF e, all, k, rs
<1>7. /\ e \in Reports /\ e.bench = rep.bench /\ e.env = run.env
      /\ e.status = IF kind = "rerun" THEN "complete" ELSE rep.status
      /\ e.attempts = k /\ e.runs = rs
  BY <1>1, <1>3, <1>4, <1>5, <1>6 DEF Reports
<1> QED
  BY <1>4, <1>7 DEF e, all, k

\* A report with a run that fits is right, and has all else it had.
LEMMA TookKeeps ==
    ASSUME NEW kind \in {"benchmark", "rerun"}, NEW rep, Right(rep),
           NEW tries0, Tried(rep, tries0), NEW run, RunFits(kind, rep, run),
           run.id = Len(rep.attempts) + Len(tries0) + 1, ~Unfit(kind, rep, run)
    PROVE  LET e == Took(kind, rep, tries0, run)
           IN  /\ Right(e) /\ e.bench = rep.bench
               /\ e.status = IF kind = "rerun" THEN "complete" ELSE "running"
               /\ \A p \in Pairs : p # PairOf(run) => e.runs[p] = rep.runs[p]
               /\ Preserves(rep, e)
<1> DEFINE e == Took(kind, rep, tries0, run)
           all == Longer(rep, tries0, run)
           pair == PairOf(run)
<1>1. /\ rep \in Reports /\ Trail(rep) /\ run \in AttemptRecords /\ pair \in Pairs
      /\ run.group \in {"native", "cached_miss", "cached_hit"} /\ run.case \in Cases
      /\ run # NoRun
  BY PairsAre, NothingAssumption DEF Right, RunFits, AttemptRecords
<1>2. /\ all \in Seq(AttemptRecords)
      /\ \A i \in DOMAIN all :
            /\ all[i] \in AttemptRecords /\ all[i].id = i
            /\ \/ i \in DOMAIN rep.attempts /\ all[i] = rep.attempts[i]
               \/ ~all[i].accepted
               \/ all[i] = run
      /\ \A i \in DOMAIN rep.attempts : i \in DOMAIN all /\ all[i] = rep.attempts[i]
  BY <1>1, LongerIs
<1>3. /\ e \in Reports /\ e.bench = rep.bench /\ e.env = run.env
      /\ e.status = IF kind = "rerun" THEN "complete" ELSE rep.status
      /\ e.attempts = IF kind = "rerun" THEN Superseded(all, run) ELSE all
      /\ \A p \in Pairs : e.runs[p] = IF p = pair THEN run ELSE rep.runs[p]
  BY <1>1, TookIs
<1>4. /\ DOMAIN Superseded(all, run) = DOMAIN all
      /\ \A i \in DOMAIN all :
            /\ Superseded(all, run)[i].id = all[i].id
            /\ Superseded(all, run)[i] \in {all[i], [all[i] EXCEPT !.accepted = FALSE]}
            /\ (PairOf(all[i]) = pair /\ all[i].id # run.id => ~Superseded(all, run)[i].accepted)
            /\ (Superseded(all, run)[i].accepted => Superseded(all, run)[i] = all[i])
  BY <1>1, <1>2, SupersededIs
<1> HIDE DEF e, all
<1>5. \A p \in Pairs : RunIsRight(e, p)
  <2> SUFFICES ASSUME NEW p \in Pairs, e.runs[p] # NoRun PROVE RunIsRight(e, p)
    BY DEF RunIsRight
  <2>1. CASE p = pair
    <3>1. e.runs[p] = run /\ p[1] = run.group
      BY <1>3, <2>1 DEF PairOf
    <3> QED
      BY <1>3, <2>1, <3>1 DEF RunIsRight, RunFits
  <2>2. CASE p # pair
    <3>1. e.runs[p] = rep.runs[p] /\ RunIsRight(rep, p)
      BY <1>3, <2>2 DEF Right
    <3>2. rep.env # NoEnv /\ rep.env = run.env
      BY <3>1 DEF RunIsRight, Unfit
    <3> QED
      BY <1>3, <3>1, <3>2 DEF RunIsRight
  <2> QED
    BY <2>1, <2>2
<1>6. \A c \in Cases : HitIsOfMiss(e, c)
  <2> SUFFICES ASSUME NEW c \in Cases, e.runs[<<"cached_hit", c>>] # NoRun
               PROVE  /\ e.runs[<<"cached_miss", c>>] # NoRun
                      /\ e.runs[<<"cached_hit", c>>].fp = e.runs[<<"cached_miss", c>>].fp
    BY DEF HitIsOfMiss
  <2> DEFINE h == <<"cached_hit", c>>
             m == <<"cached_miss", c>>
  <2>1. h \in Pairs /\ m \in Pairs /\ h # m /\ HitIsOfMiss(rep, c)
    BY PairsAre DEF Right
  <2>2. CASE pair = h
    <3>1. run.group = "cached_hit" /\ run.case = c
      BY <2>2 DEF PairOf
    <3>2. e.runs[h] = run /\ e.runs[m] = rep.runs[m]
      BY <1>3, <2>1, <2>2
    <3> QED
      BY <3>1, <3>2 DEF RunFits
  <2>3. CASE pair = m
    <3>1. run.group = "cached_miss" /\ run.case = c
      BY <2>3 DEF PairOf
    <3>2. e.runs[m] = run /\ e.runs[h] = rep.runs[h]
      BY <1>3, <2>1, <2>3
    <3>3. rep.runs[m] # NoRun /\ rep.runs[h].fp = rep.runs[m].fp
      BY <2>1, <3>2 DEF HitIsOfMiss
    <3>4. kind = "rerun"
      BY <2>3, <3>3 DEF RunFits
    <3>5. run.fp = rep.runs[m].fp
      BY <3>1, <3>4 DEF RunFits
    <3> QED
      BY <1>1, <3>2, <3>3, <3>5
  <2>4. CASE pair # h /\ pair # m
    <3>1. e.runs[h] = rep.runs[h] /\ e.runs[m] = rep.runs[m]
      BY <1>3, <2>1, <2>4
    <3> QED
      BY <2>1, <3>1 DEF HitIsOfMiss
  <2> QED
    BY <2>2, <2>3, <2>4
<1>7. Trail(e)
  <2>1. \A i \in DOMAIN all :
           all[i].accepted /\ all[i] # run => i \in DOMAIN rep.attempts /\ rep.runs[PairOf(all[i])] = all[i]
    BY <1>1, <1>2 DEF Trail
  <2>2. CASE kind = "benchmark"
    <3>1. rep.runs[pair] = NoRun /\ e.attempts = all
      BY <1>3, <2>2 DEF RunFits
    <3>2. ASSUME NEW i \in DOMAIN all, all[i].accepted PROVE e.runs[PairOf(all[i])] = all[i]
      <4>1. CASE all[i] = run
        BY <1>1, <1>3, <4>1
      <4>2. CASE all[i] # run
        <5>1. rep.runs[PairOf(all[i])] = all[i] /\ all[i] \in AttemptRecords
          BY <1>2, <2>1, <3>2, <4>2
        <5>2. PairOf(all[i]) # pair /\ PairOf(all[i]) \in Pairs
          BY <3>1, <5>1, PairsAre, NothingAssumption
        <5> QED
          BY <1>3, <5>1, <5>2
      <4> QED
        BY <4>1, <4>2
    <3> QED
      BY <1>2, <3>1, <3>2 DEF Trail
  <2>3. CASE kind = "rerun"
    <3> DEFINE sup == Superseded(all, run)
    <3>1. e.attempts = sup
      BY <1>3, <2>3
    <3>2. DOMAIN sup = DOMAIN all /\ \A i \in DOMAIN all : sup[i].id = i
      BY <1>2, <1>4
    <3>3. ASSUME NEW i \in DOMAIN all, sup[i].accepted PROVE e.runs[PairOf(sup[i])] = sup[i]
      <4>1. sup[i] = all[i] /\ all[i].accepted /\ all[i] \in AttemptRecords
        BY <1>2, <1>4, <3>3
      <4>2. CASE all[i] = run
        BY <1>1, <1>3, <4>1, <4>2
      <4>3. CASE all[i] # run
        <5>1. i \in DOMAIN rep.attempts /\ rep.runs[PairOf(all[i])] = all[i]
          BY <2>1, <4>1, <4>3
        <5>2. all[i].id # run.id
          <6>1. i \in 1..Len(rep.attempts) /\ Len(rep.attempts) \in Nat /\ Len(tries0) \in Nat
            BY <1>1, <5>1, ReportFields, LenProperties DEF Tried
          <6> QED
            BY <1>2, <6>1
        <5>3. PairOf(all[i]) # pair
          BY <1>4, <3>3, <5>2
        <5>4. PairOf(all[i]) \in Pairs
          BY <4>1, PairsAre
        <5> QED
          BY <1>3, <4>1, <5>1, <5>3, <5>4
      <4> QED
        BY <4>2, <4>3
    <3> HIDE DEF sup
    <3> QED
      BY <3>1, <3>2, <3>3 DEF Trail
  <2> QED
    BY <2>2, <2>3
<1>8. e.status \in {"complete", "rerun_failed"} => Full(e)
  <2>1. e.status \in {"complete", "rerun_failed"} => Full(rep)
    BY <1>3 DEF RunFits
  <2> QED
    BY <1>1, <1>3, <2>1 DEF Full
<1>9. Right(e)
  BY <1>3, <1>5, <1>6, <1>7, <1>8 DEF Right
<1>10. Preserves(rep, e)
  <2> SUFFICES ASSUME Loadable(rep)
               PROVE  /\ e.status = "complete"
                      /\ Cardinality({p \in Pairs : e.runs[p] # rep.runs[p]}) <= 1
                      /\ \A i \in DOMAIN rep.attempts :
                            e.attempts[i] \in {rep.attempts[i],
                                               [rep.attempts[i] EXCEPT !.accepted = FALSE]}
    BY DEF Preserves
  <2>1. kind = "rerun"
    BY DEF Loadable, RunFits
  <2>2. {p \in Pairs : e.runs[p] # rep.runs[p]} \subseteq {pair}
    BY <1>3
  <2>3. Cardinality({p \in Pairs : e.runs[p] # rep.runs[p]}) <= 1
    <3> DEFINE D == {p \in Pairs : e.runs[p] # rep.runs[p]}
    <3>1. IsFiniteSet({pair}) /\ Cardinality({pair}) = 1
      BY FS_Singleton
    <3> HIDE DEF D
    <3>2. Cardinality(D) <= Cardinality({pair})
      BY <2>2, <3>1, FS_Subset DEF D
    <3> QED
      BY <3>1, <3>2 DEF D
  <2>4. ASSUME NEW i \in DOMAIN rep.attempts
        PROVE  e.attempts[i] \in {rep.attempts[i], [rep.attempts[i] EXCEPT !.accepted = FALSE]}
    BY <1>2, <1>3, <1>4, <2>1
  <2> QED
    BY <1>3, <2>1, <2>3, <2>4
<1>11. e.status = IF kind = "rerun" THEN "complete" ELSE "running"
  BY <1>3 DEF RunFits
<1> QED
  BY <1>3, <1>9, <1>10, <1>11 DEF e

-----------------------------------------------------------------------------
(* The inductive invariant.                                                *)

Starting == {"launch", "ready", "delete", "prepare", "execute", "verify"}
Attempting == Starting \cup Stopping \cup {"release", "settle"}
PCs == Attempting \cup {"off", "next", "write", "exit"}
InAttempt == pc \in Attempting

Jobs == [kind : {"none", "benchmark", "rerun"}, todo : Seq(Pairs), fp : Fps, delete : Fps]
Servers == [state : {"none", "alive", "dead"}, env : {0, 1, NoEnv}, abi : {0, 1},
            event : Events, fp : Fps, encoded : BOOLEAN, saving : SUBSET (Fps \ {NoFp})]

\* Types, and what was made by the sessions so far.
Types ==
    /\ pc \in PCs /\ job \in Jobs /\ server \in Servers /\ world \in Worlds
    /\ failure \in {"none", "error", "shutdown"} /\ orphan \in {"none", "listening", "mute"}
    /\ sessions \in 0..MaxSessions /\ faults \in Nat
    /\ tries \in Seq(AttemptRecords) /\ Len(tries) < MaxAttempts
    /\ cache \cup late \cup stray \subseteq Fps \ {NoFp}
    /\ (\A f \in cache \cup late \cup server.saving : f[1] <= sessions)
    /\ (InAttempt => cur \in AttemptRecords)
    /\ (pc = "off" => report = NoReport)
    /\ (pc # "off" => job.kind \in {"benchmark", "rerun"})

\* The file and the report in memory are right, and between writes the same; what
\* is about to be written preserves the file.
Reporting ==
    /\ (disk # NoReport => Right(disk) /\ disk.bench <= sessions)
    /\ (pc # "off" => Right(report) /\ report.bench <= sessions)
    /\ (pc \in Attempting \cup {"next"} =>
          /\ disk = report
          /\ (job.kind = "benchmark" => report.status = "running"))
    /\ (pc \in Attempting \cup {"next", "write"} /\ job.kind = "rerun" =>
          report.status \in {"complete", "rerun_failed"})
    /\ (pc = "write" => Preserves(disk, report))

\* Nothing of the report's benchmark and this case is cached, but what strayed in.
Cold(c) == \A f \in cache \ stray : ~(f[1] = report.bench /\ f[2] = c)

\* What a benchmark still has to do has no run, comes after the attempt under way,
\* and its MISSes are cold.
Todo ==
    job.kind = "benchmark" /\ pc \in Attempting \cup {"next", "write"} /\ report.status = "running" =>
        /\ Ordered(job.todo)
        /\ \A i \in DOMAIN job.todo :
              /\ report.runs[job.todo[i]] = NoRun
              /\ (job.todo[i][1] = "cached_miss" => Cold(job.todo[i][2]))
              /\ (InAttempt => Before(PairOf(cur), job.todo[i]))
        /\ (InAttempt => report.runs[PairOf(cur)] = NoRun)

\* The attempts are numbered after the report's, and none is accepted yet.
Attempted ==
    InAttempt => /\ cur.id = Len(report.attempts) + Len(tries) + 1 /\ ~cur.accepted
                 /\ Tried(report, tries)

\* The fingerprint an attempt expects is that of its case's MISS.
Expected ==
    InAttempt =>
        /\ (cur.group = "cached_hit" \/ (cur.group = "cached_miss" /\ job.kind = "rerun") =>
              job.fp = ExpectedFp(job.kind, report, cur.group, cur.case))
        /\ (cur.group = "cached_miss" => job.delete = job.fp)

\* A MISS that expects none has a cold case; what it expects is deleted first.
Uncached ==
    pc \in {"launch", "ready", "delete", "prepare", "execute"} /\ cur.group = "cached_miss" =>
        /\ (job.fp = NoFp => Cold(cur.case))
        /\ (pc \in {"prepare", "execute"} => job.delete \notin cache \ stray)

\* A successful attempt is what its group is named for.
Measured ==
    /\ (InAttempt /\ cur.status = "success" =>
          /\ pc \notin Starting
          /\ cur.env # NoEnv /\ (cur.encoded <=> cur.group # "cached_hit")
          /\ (cur.group # "native" => cur.fp # NoFp /\ job.fp \in {NoFp, cur.fp})
          /\ (cur.group = "cached_hit" => cur.fp = job.fp))
    /\ (pc \in {"delete", "prepare", "execute", "verify"} => cur.env # NoEnv)
    /\ (pc = "verify" =>
          /\ (cur.group = "native" => cur.encoded)
          /\ (cur.group # "native" =>
                server.fp # NoFp /\ server.event = IF cur.encoded THEN "MISS" ELSE "HIT"))

\* Outside an attempt there is a server only if it outlived all signals.
Serving ==
    /\ (pc \in {"off", "next", "launch"} => server = NoServer)
    /\ (pc \in (Starting \ {"launch"}) \cup Stopping => server.state # "none")
    /\ (pc \in Starting \ {"launch"} => server.env # NoEnv)
    /\ (pc \in {"release", "settle", "write", "exit"} /\ server.state = "alive" =>
          cur.status = "failed" /\ faults > 0)
    /\ (pc = "write" /\ report.status \in {"running", "complete"} => server = NoServer)

\* A server nobody waits for any more may still save the entry of its prompt.
Unsaved ==
    /\ (InAttempt => server.saving \subseteq Saves)
    /\ (pc \in Starting => server.saving = {})

ReportInv ==
    Types /\ Reporting /\ Todo /\ Attempted /\ Expected /\ Uncached /\ Measured /\ Serving
        /\ Unsaved

-----------------------------------------------------------------------------
(* What the steps have in common.                                          *)

\* The fields of an attempt have their types.
LEMMA RecordFields ==
    ASSUME NEW r \in AttemptRecords
    PROVE  /\ r.id \in Nat \ {0} /\ r.group \in {"native", "cached_miss", "cached_hit"}
           /\ r.case \in Cases /\ r.status \in {"running", "success", "failed"}
           /\ r.accepted \in BOOLEAN /\ r.foreign \in BOOLEAN /\ r.encoded \in BOOLEAN
           /\ r.fp \in Fps /\ r.env \in {0, 1, NoEnv}
BY DEF AttemptRecords

\* What the server may save in an attempt is an entry of this benchmark and case.
LEMMA SavesAre ==
    ASSUME Types, Reporting, InAttempt
    PROVE  /\ Saves \subseteq Fps \ {NoFp} /\ (cur.group = "native" => Saves = {})
           /\ \A f \in Saves : f[1] <= sessions /\ f[1] = report.bench /\ f[2] = cur.case
           /\ KeyNow \in Fps \ {NoFp}
           /\ KeyNow[1] = report.bench /\ KeyNow[2] = cur.case
<1>1. /\ report \in Reports /\ report.bench <= sessions /\ report.bench \in 1..MaxSessions
  BY ReportFields DEF Reporting, Right, InAttempt, Attempting, Starting, Stopping
<1>2. cur \in AttemptRecords /\ cur.case \in Cases /\ server.abi \in {0, 1}
  BY RecordFields DEF Types, Servers
<1>3. /\ KeyNow = <<report.bench, cur.case, server.abi>>
      /\ KeyNow \in Fps /\ KeyNow # NoFp
  BY <1>1, <1>2, NothingAssumption DEF KeyNow, Fps, FpOf
<1>4. KeyNow[1] = report.bench /\ KeyNow[2] = cur.case
  BY <1>3
<1> QED
  BY <1>1, <1>3, <1>4 DEF Saves

\* A step inside an attempt: it stays the attempt it is.
SameAttempt ==
    /\ InAttempt /\ pc' \in Attempting
    /\ disk' = disk /\ report' = report /\ job' = job /\ tries' = tries /\ sessions' = sessions
    /\ cur' \in AttemptRecords /\ cur'.id = cur.id /\ cur'.group = cur.group
    /\ cur'.case = cur.case /\ cur'.accepted = cur.accepted
    /\ cache' \subseteq cache \cup Saves /\ cache' \ stray' \subseteq (cache \ stray) \cup Saves
    /\ late' \subseteq late /\ stray' \subseteq stray
    /\ world' \in Worlds /\ server' \in Servers
    /\ server'.saving \subseteq Saves /\ (pc' \in Starting => server'.saving = {})
    /\ (server'.abi = server.abi \/ server'.saving = {})
    /\ failure' \in {"none", "error", "shutdown"} /\ orphan' \in {"none", "listening", "mute"}
    /\ faults' \in Nat

\* It keeps all that is about the attempt's place.
LEMMA AttemptFrame ==
    ASSUME ReportInv, SameAttempt
    PROVE  Types' /\ Reporting' /\ Todo' /\ Attempted' /\ Expected' /\ Unsaved'
<1> USE DEF ReportInv
<1>1. pc \in Attempting /\ pc' \in Attempting /\ InAttempt'
  BY DEF SameAttempt, InAttempt
<1>2. pc' \notin {"off", "next", "write", "exit"} /\ pc \notin {"off", "next", "write", "exit"}
  BY <1>1 DEF Attempting, Starting, Stopping
<1>3. Types'
  <2>1. cache' \subseteq Fps \ {NoFp} /\ \A f \in cache' : f[1] <= sessions
    BY <1>1, SavesAre DEF SameAttempt, Types
  <2>2. \A f \in late' \cup server'.saving : f[1] <= sessions
    BY <1>1, SavesAre DEF SameAttempt, Types
  <2>3. late' \subseteq Fps \ {NoFp} /\ stray' \subseteq Fps \ {NoFp}
    BY DEF SameAttempt, Types
  <2> QED
    BY <1>1, <1>2, <2>1, <2>2, <2>3 DEF Types, SameAttempt, PCs
<1>4. Reporting'
  BY <1>1, <1>2 DEF Reporting, SameAttempt
<1>5. Todo'
  <2> SUFFICES ASSUME job.kind = "benchmark", report.status = "running"
               PROVE  /\ Ordered(job.todo)
                      /\ \A i \in DOMAIN job.todo :
                            /\ report.runs[job.todo[i]] = NoRun
                            /\ (job.todo[i][1] = "cached_miss" => Cold(job.todo[i][2])')
                            /\ Before(PairOf(cur), job.todo[i])
                      /\ report.runs[PairOf(cur)] = NoRun
    <3>1. PairOf(cur)' = PairOf(cur)
      BY DEF PairOf, SameAttempt
    <3> QED
      BY <1>1, <3>1 DEF Todo, SameAttempt
  <2>1. /\ Ordered(job.todo)
        /\ \A i \in DOMAIN job.todo :
              /\ report.runs[job.todo[i]] = NoRun
              /\ (job.todo[i][1] = "cached_miss" => Cold(job.todo[i][2]))
              /\ Before(PairOf(cur), job.todo[i])
        /\ report.runs[PairOf(cur)] = NoRun
    BY <1>1 DEF Todo, InAttempt
  <2>2. ASSUME NEW i \in DOMAIN job.todo, job.todo[i][1] = "cached_miss"
        PROVE  Cold(job.todo[i][2])'
    <3>1. Cold(job.todo[i][2]) /\ Before(PairOf(cur), job.todo[i])
      BY <2>1, <2>2
    <3>2. cur.group = "native" \/ cur.case # job.todo[i][2]
      BY <2>2, <3>1 DEF Before, PairOf
    <3>3. \A f \in cache' \ stray' : ~(f[1] = report.bench /\ f[2] = job.todo[i][2])
      BY <1>1, <3>1, <3>2, SavesAre DEF Cold, SameAttempt
    <3> QED
      BY <3>3 DEF Cold, SameAttempt
  <2> QED
    BY <2>1, <2>2
<1>6. Attempted'
  BY <1>1 DEF Attempted, SameAttempt
<1>7. Expected'
  BY <1>1 DEF Expected, SameAttempt
<1>8. Unsaved'
  <2>1. server'.abi = server.abi => Saves' = Saves
    BY DEF SameAttempt, Saves, KeyNow, FpOf
  <2> QED
    BY <1>1, <2>1 DEF Unsaved, SameAttempt
<1> QED
  BY <1>3, <1>4, <1>5, <1>6, <1>7, <1>8

\* What nobody waits for any more is the entry of the attempt's prompt.
LEMMA UnfinishedIs ==
    ASSUME ReportInv
    PROVE  /\ Unfinished \subseteq Fps \ {NoFp} /\ \A f \in Unfinished : f[1] <= sessions
           /\ (InAttempt => Unfinished \subseteq Saves)
<1>1. CASE pc = "execute" /\ server.state = "alive"
  <2>1. InAttempt
    BY <1>1 DEF InAttempt, Attempting, Starting
  <2> QED
    BY <1>1, <2>1, SavesAre DEF ReportInv, Unfinished
<1>2. CASE ~(pc = "execute" /\ server.state = "alive")
  <2>1. Unfinished = server.saving /\ server \in Servers
    BY <1>2 DEF Unfinished, ReportInv, Types
  <2> QED
    BY <2>1 DEF ReportInv, Types, Unsaved, Servers
<1> QED
  BY <1>1, <1>2

\* The abandoned server is the same but for that.
LEMMA AbandonedIs ==
    ASSUME ReportInv, InAttempt
    PROVE  /\ Abandoned \in Servers /\ Abandoned.state = server.state
           /\ Abandoned.abi = server.abi /\ Abandoned.saving \subseteq Saves
<1>1. server \in Servers /\ Unfinished \subseteq Fps \ {NoFp} /\ Unfinished \subseteq Saves
  BY UnfinishedIs DEF ReportInv, Types
<1> QED
  BY <1>1 DEF Abandoned, Servers

\* An attempt that fails keeps the invariant.
LEMMA RaiseKeeps ==
    ASSUME ReportInv, pc \in Starting, NEW f \in {"error", "shutdown"}, Raise(f),
           UNCHANGED <<disk, cache, world, report, job, tries, left, sessions>>,
           server' \in {server, Abandoned}, faults' \in Nat
    PROVE  ReportInv'
<1> DEFINE c == [cur EXCEPT !.status = "failed"]
<1>1. InAttempt /\ cur \in AttemptRecords
  BY DEF ReportInv, Types, InAttempt, Attempting
<1>2. /\ c \in AttemptRecords /\ c.status = "failed" /\ c.id = cur.id /\ c.group = cur.group
      /\ c.case = cur.case /\ c.accepted = cur.accepted
  BY <1>1 DEF AttemptRecords
<1> HIDE DEF c
<1>3. /\ cur' = c /\ failure' = f /\ pc' \in {"settle", "stop"}
      /\ pc' = IF server.state = "none" THEN "settle" ELSE "stop"
  BY DEF Raise, c
<1>4. /\ server' \in Servers /\ server'.state = server.state /\ server'.abi = server.abi
      /\ server'.saving \subseteq Saves
  BY <1>1, AbandonedIs DEF ReportInv, Types, Unsaved
<1>5. SameAttempt
  BY <1>1, <1>2, <1>3, <1>4 DEF SameAttempt, ReportInv, Types, Starting, Attempting, Stopping
<1>6. Types' /\ Reporting' /\ Todo' /\ Attempted' /\ Expected' /\ Unsaved'
  BY <1>5, AttemptFrame
<1>7. Uncached'
  BY <1>3 DEF Uncached
<1>8. Measured'
  BY <1>2, <1>3 DEF Measured
<1>9. Serving'
  BY <1>3, <1>4 DEF Serving, Starting, Stopping
<1> QED
  BY <1>6, <1>7, <1>8, <1>9 DEF ReportInv

\* A server is launched.
LEMMA LaunchKeeps ==
    ASSUME ReportInv, Launch PROVE ReportInv'
<1>1. /\ pc = "launch" /\ pc \in Starting
      /\ UNCHANGED <<disk, cache, world, report, job, tries, left, budget>>
  BY DEF Launch, Starting
<1>2. faults \in Nat /\ world.env \in {0, 1} /\ world.abi \in {0, 1} /\ cur \in AttemptRecords
  BY <1>1 DEF ReportInv, Types, Worlds, InAttempt, Attempting
<1>3. CASE orphan = "listening"
  <2>1. Raise("error") /\ UNCHANGED server
    BY <1>3 DEF Launch
  <2> QED
    BY <1>1, <1>2, <2>1, RaiseKeeps DEF budget
<1>4. CASE orphan # "listening"
  <2>1. server' = Launched /\ pc' = "ready" /\ UNCHANGED <<cur, failure>>
    BY <1>4 DEF Launch
  <2>2. Launched \in Servers /\ Launched.state = "alive" /\ Launched.env # NoEnv /\ Launched.saving = {}
    <3>1. NoServer \in Servers
      BY DEF NoServer, Servers, Events, Fps
    <3>2. /\ Launched \in Servers /\ Launched.state = "alive" /\ Launched.env = world.env
          /\ Launched.saving = {}
      BY <1>2, <3>1 DEF Launched, NoServer, Servers
    <3> QED
      BY <1>2, <3>2 DEF NoEnv
  <2>3. SameAttempt
    BY <1>1, <1>2, <2>1, <2>2 DEF SameAttempt, ReportInv, Types, InAttempt, Attempting, Starting, budget
  <2>4. Types' /\ Reporting' /\ Todo' /\ Attempted' /\ Expected' /\ Unsaved'
    BY <2>3, AttemptFrame
  <2>5. Uncached'
    BY <1>1, <2>1 DEF ReportInv, Uncached, Cold
  <2>6. Measured'
    BY <1>1, <2>1 DEF ReportInv, Measured, InAttempt, Attempting, Starting
  <2>7. Serving'
    BY <2>1, <2>2 DEF Serving, Stopping
  <2> QED
    BY <2>4, <2>5, <2>6, <2>7 DEF ReportInv
<1> QED
  BY <1>3, <1>4

\* It answers.
LEMMA ReadyKeeps ==
    ASSUME ReportInv, Ready PROVE ReportInv'
<1> DEFINE c == [cur EXCEPT !.env = server.env]
<1>1. /\ pc = "ready" /\ cur' = c
      /\ pc' = (IF job.delete = NoFp THEN "prepare" ELSE "delete")
      /\ UNCHANGED <<disk, cache, world, report, job, tries, failure, server, left, budget>>
  BY DEF Ready
<1>2. /\ cur \in AttemptRecords /\ server \in Servers /\ server.env \in {0, 1, NoEnv}
      /\ server.env # NoEnv /\ server.state # "none" /\ cur.status # "success"
      /\ NoFp \notin cache
  BY <1>1 DEF ReportInv, Types, Serving, Measured, Servers, InAttempt, Attempting, Starting
<1>3. /\ c \in AttemptRecords /\ c.status = cur.status /\ c.id = cur.id /\ c.group = cur.group
      /\ c.case = cur.case /\ c.accepted = cur.accepted /\ c.env # NoEnv
  BY <1>2 DEF AttemptRecords
<1> HIDE DEF c
<1>4. SameAttempt
  BY <1>1, <1>2, <1>3 DEF SameAttempt, ReportInv, Types, Unsaved, InAttempt, Attempting, Starting, budget
<1>5. Types' /\ Reporting' /\ Todo' /\ Attempted' /\ Expected' /\ Unsaved'
  BY <1>4, AttemptFrame
<1>6. Uncached'
  BY <1>1, <1>2, <1>3 DEF ReportInv, Uncached, Cold
<1>7. Measured'
  BY <1>1, <1>2, <1>3 DEF Measured
<1>8. Serving'
  BY <1>1, <1>2 DEF Serving, Starting, Stopping
<1> QED
  BY <1>5, <1>6, <1>7, <1>8 DEF ReportInv

\* The entry of an earlier MISS is deleted.
LEMMA DeleteKeeps ==
    ASSUME ReportInv, DeleteEntry PROVE ReportInv'
<1>1. /\ pc = "delete" /\ pc' = "prepare" /\ cache' = cache \ {job.delete}
      /\ stray' = stray \ {job.delete}
      /\ UNCHANGED <<disk, world, report, job, cur, tries, failure, server, orphan, late, budget>>
  BY DEF DeleteEntry
<1>2. SameAttempt
  BY <1>1 DEF SameAttempt, ReportInv, Types, Unsaved, InAttempt, Attempting, Starting, budget
<1>3. Types' /\ Reporting' /\ Todo' /\ Attempted' /\ Expected' /\ Unsaved'
  BY <1>2, AttemptFrame
<1>4. Uncached'
  <2>1. \A c : Cold(c) => Cold(c)'
    BY <1>1 DEF Cold
  <2> QED
    BY <1>1, <2>1 DEF ReportInv, Uncached
<1>5. Measured'
  BY <1>1 DEF ReportInv, Measured, InAttempt, Attempting, Starting
<1>6. Serving'
  BY <1>1 DEF ReportInv, Serving, Starting, Stopping
<1> QED
  BY <1>3, <1>4, <1>5, <1>6 DEF ReportInv

\* Models are prewarmed and the node's caches emptied.
LEMMA PrepareKeeps ==
    ASSUME ReportInv, Prepare PROVE ReportInv'
<1>1. /\ pc = "prepare" /\ pc \in Starting /\ faults \in Nat
      /\ UNCHANGED <<disk, cache, world, report, job, tries, server, left, budget>>
  BY DEF Prepare, Starting, ReportInv, Types
<1>2. CASE Raise("error")
  BY <1>1, <1>2, RaiseKeeps DEF budget
<1>3. CASE pc' = "execute" /\ UNCHANGED <<cur, failure>>
  <2>1. SameAttempt
    BY <1>1, <1>3 DEF SameAttempt, ReportInv, Types, Unsaved, InAttempt, Attempting, Starting, budget
  <2>2. Types' /\ Reporting' /\ Todo' /\ Attempted' /\ Expected' /\ Unsaved'
    BY <2>1, AttemptFrame
  <2>3. Uncached'
    BY <1>1, <1>3 DEF ReportInv, Uncached, Cold
  <2>4. Measured'
    BY <1>1, <1>3 DEF ReportInv, Measured, InAttempt, Attempting, Starting
  <2>5. Serving'
    BY <1>1, <1>3 DEF ReportInv, Serving, Starting, Stopping
  <2> QED
    BY <2>2, <2>3, <2>4, <2>5 DEF ReportInv
<1> QED
  BY <1>2, <1>3 DEF Prepare

\* What the server has done with a prompt.
LEMMA ServedIs ==
    ASSUME ReportInv, pc = "execute"
    PROVE  /\ Served \in Servers /\ Served.state = server.state /\ Served.env = server.env
           /\ Served.abi = server.abi /\ Served.saving = {}
           /\ (cur.group = "native" => ~Hits)
           /\ (cur.group # "native" =>
                 /\ Served.fp # NoFp
                 /\ Served.event = IF Hits THEN "HIT" ELSE "MISS")
<1>1. /\ server \in Servers /\ KeyNow \in Fps \ {NoFp} /\ NoFp \in Fps
      /\ server.saving = {}
  BY SavesAre DEF ReportInv, Types, Unsaved, InAttempt, Attempting, Starting, Fps
<1> DEFINE e == IF cur.group = "native" THEN "none" ELSE IF Hits THEN "HIT" ELSE "MISS"
           f == IF cur.group = "native" THEN NoFp ELSE KeyNow
           h == ~Hits
<1>2. Served = [server EXCEPT !.event = e, !.fp = f, !.encoded = h]
  BY DEF Served
<1>3. e \in Events /\ f \in Fps /\ h \in BOOLEAN
  BY <1>1 DEF Events
<1>4. /\ (cur.group = "native" => ~Hits)
      /\ (cur.group # "native" => f # NoFp /\ e = IF Hits THEN "HIT" ELSE "MISS")
  BY <1>1 DEF Hits
<1> HIDE DEF e, f, h
<1>5. /\ Served \in Servers /\ Served.state = server.state /\ Served.env = server.env
      /\ Served.abi = server.abi /\ Served.saving = {}
      /\ Served.fp = f /\ Served.event = e
  BY <1>1, <1>2, <1>3 DEF Servers
<1> QED
  BY <1>4, <1>5

\* The prompt's outcome is in the server's log and in the attempt.
LEMMA Outcome ==
    ASSUME ReportInv, pc = "execute", pc' = "verify", server' = Served,
           NEW f \in BOOLEAN,
           cur' = [cur EXCEPT !.foreign = f, !.encoded = ~Hits],
           UNCHANGED <<disk, world, report, job, tries, failure, left, sessions>>,
           cache' \subseteq cache \cup Saves, faults' \in Nat
    PROVE  ReportInv'
<1> DEFINE h == ~Hits
           c == [cur EXCEPT !.foreign = f, !.encoded = h]
<1>1. /\ cur \in AttemptRecords /\ cur.status # "success" /\ cur.env # NoEnv
      /\ server.state # "none" /\ server.env # NoEnv
  BY DEF ReportInv, Types, Measured, Serving, InAttempt, Attempting, Starting
<1>2. h \in BOOLEAN /\ cur' = c
  OBVIOUS
<1> HIDE DEF h
<1>3. /\ c \in AttemptRecords /\ c.status = cur.status /\ c.id = cur.id /\ c.group = cur.group
      /\ c.case = cur.case /\ c.accepted = cur.accepted /\ c.env = cur.env /\ c.encoded = h
  BY <1>1, <1>2 DEF AttemptRecords
<1> HIDE DEF c
<1>4. /\ Served \in Servers /\ Served.state # "none" /\ Served.env # NoEnv
      /\ Served.abi = server.abi /\ Served.saving = {}
      /\ (cur.group = "native" => h)
      /\ (cur.group # "native" =>
            Served.fp # NoFp /\ Served.event = IF h THEN "MISS" ELSE "HIT")
  BY <1>1, ServedIs DEF h
<1>5. SameAttempt
  BY <1>2, <1>3, <1>4 DEF SameAttempt, ReportInv, Types, Unsaved, InAttempt, Attempting, Starting
<1>6. Types' /\ Reporting' /\ Todo' /\ Attempted' /\ Expected' /\ Unsaved'
  BY <1>5, AttemptFrame
<1>7. Uncached'
  BY DEF Uncached
<1>8. Measured'
  BY <1>1, <1>2, <1>3, <1>4 DEF Measured
<1>9. Serving'
  BY <1>4 DEF Serving, Starting, Stopping
<1> QED
  BY <1>6, <1>7, <1>8, <1>9 DEF ReportInv

\* The prompt is run.
LEMMA ExecuteKeeps ==
    ASSUME ReportInv, Execute \/ ExecuteUnsaved PROVE ReportInv'
<1>0. faults \in Nat
  BY DEF ReportInv, Types
<1>1. CASE Execute
  <2>1. PICK f \in BOOLEAN :
           /\ cur' = [cur EXCEPT !.foreign = Contaminated(f), !.encoded = ~Hits]
           /\ (IF f /\ orphan = "none" THEN Fault ELSE UNCHANGED faults)
    BY <1>1 DEF Execute
  <2>2. faults' \in Nat
    BY <1>0, <2>1 DEF Fault
  <2>3. Contaminated(f) \in BOOLEAN
    BY DEF Contaminated
  <2>4. /\ pc = "execute" /\ pc' = "verify" /\ server' = Served /\ cache' = cache \cup Saves
        /\ UNCHANGED <<disk, world, report, job, tries, failure, left, sessions>>
    BY <1>1 DEF Execute
  <2> QED
    BY <2>1, <2>2, <2>3, <2>4, Outcome
<1>2. CASE ExecuteUnsaved
  <2>1. /\ pc = "execute" /\ pc' = "verify" /\ server' = Served /\ cache' = cache
        /\ UNCHANGED <<disk, world, report, job, tries, failure, left, sessions>>
        /\ cur' = [cur EXCEPT !.foreign = Contaminated(FALSE), !.encoded = TRUE] /\ ~Hits
    BY <1>2 DEF ExecuteUnsaved
  <2>2. faults' \in Nat
    BY <1>0, <1>2 DEF ExecuteUnsaved, Fault
  <2>3. Contaminated(FALSE) \in BOOLEAN
    BY DEF Contaminated
  <2>4. cur' = [cur EXCEPT !.foreign = Contaminated(FALSE), !.encoded = ~Hits]
    BY <2>1
  <2> QED
    BY <2>1, <2>2, <2>3, <2>4, Outcome
<1> QED
  BY <1>1, <1>2

\* The outcome is what the group is named for, or the attempt fails.
LEMMA VerifyKeeps ==
    ASSUME ReportInv, Verify PROVE ReportInv'
<1>1. /\ pc = "verify" /\ pc \in Starting /\ faults \in Nat
      /\ UNCHANGED <<disk, cache, world, report, job, tries, server, left, budget>>
  BY DEF Verify, Starting, ReportInv, Types
<1>2. CASE ~Verified
  <2>1. Raise("error")
    BY <1>2 DEF Verify
  <2> QED
    BY <1>1, <2>1, RaiseKeeps DEF budget
<1>3. CASE Verified
  <2> DEFINE c == [cur EXCEPT !.status = "success", !.fp = server.fp]
  <2>1. cur' = c /\ pc' = "stop" /\ UNCHANGED failure
    BY <1>3 DEF Verify
  <2>2. /\ cur \in AttemptRecords /\ server \in Servers /\ server.fp \in Fps
        /\ cur.env # NoEnv /\ server.state # "none"
        /\ (cur.group = "native" => cur.encoded)
        /\ (cur.group # "native" =>
              server.fp # NoFp /\ server.event = IF cur.encoded THEN "MISS" ELSE "HIT")
    BY <1>1 DEF ReportInv, Types, Measured, Serving, Servers, InAttempt, Attempting, Starting
  <2>3. cur.group \in {"native", "cached_miss", "cached_hit"}
    BY <2>2, RecordFields
  <2>4. /\ (cur.group = "cached_miss" => server.event = "MISS" /\ job.fp \in {NoFp, server.fp})
        /\ (cur.group = "cached_hit" => server.event = "HIT" /\ job.fp = server.fp)
    BY <1>3, <2>3 DEF Verified
  <2>5. /\ (cur.encoded <=> cur.group # "cached_hit")
        /\ (cur.group # "native" => server.fp # NoFp /\ job.fp \in {NoFp, server.fp})
        /\ (cur.group = "cached_hit" => server.fp = job.fp)
    BY <2>2, <2>3, <2>4
  <2>6. /\ c \in AttemptRecords /\ c.id = cur.id /\ c.group = cur.group /\ c.fp = server.fp
        /\ c.case = cur.case /\ c.accepted = cur.accepted /\ c.env = cur.env
        /\ c.encoded = cur.encoded
    BY <2>2 DEF AttemptRecords
  <2> HIDE DEF c
  <2>7. SameAttempt
    BY <1>1, <2>1, <2>2, <2>6 DEF SameAttempt, ReportInv, Types, Unsaved, InAttempt, Attempting, Starting,
       Stopping, budget
  <2>8. Types' /\ Reporting' /\ Todo' /\ Attempted' /\ Expected' /\ Unsaved'
    BY <2>7, AttemptFrame
  <2>9. Uncached'
    BY <2>1 DEF Uncached
  <2>10. Measured'
    BY <1>1, <2>1, <2>2, <2>5, <2>6 DEF Measured, Starting
  <2>11. Serving'
    BY <1>1, <2>1, <2>2 DEF Serving, Starting, Stopping
  <2> QED
    BY <2>8, <2>9, <2>10, <2>11 DEF ReportInv
<1> QED
  BY <1>2, <1>3

\* A step of the attempt fails, or its server is gone.
LEMMA FailureKeeps ==
    ASSUME ReportInv, ExecuteFails \/ StepFails \/ ServerGone PROVE ReportInv'
<1>1. Raise("error") /\ pc \in Starting
  BY DEF ExecuteFails, StepFails, ServerGone, Starting
<1>2. UNCHANGED <<disk, cache, world, report, job, tries, left, sessions>>
  BY DEF ExecuteFails, StepFails, ServerGone, budget
<1>3. server' \in {server, Abandoned}
  BY DEF ExecuteFails, StepFails, ServerGone
<1>4. faults' \in Nat
  BY DEF ReportInv, Types, ExecuteFails, StepFails, ServerGone, Fault, budget
<1> QED
  BY <1>1, <1>2, <1>3, <1>4, RaiseKeeps

-----------------------------------------------------------------------------
(* Cleanup.                                                                *)

\* A cleanup error fails the attempt; the wait for the GPU's release follows.
LEMMA CleanupErrorKeeps ==
    ASSUME ReportInv, CleanupError, pc \in {"sigkill", "release"},
           pc' = IF pc = "sigkill" THEN "release" ELSE "settle",
           UNCHANGED <<disk, cache, world, report, job, tries, server, left, sessions>>,
           faults' \in Nat, server.state = "alive" => faults' > 0
    PROVE  ReportInv'
<1> DEFINE c == [cur EXCEPT !.status = "failed"]
<1>1. InAttempt /\ cur \in AttemptRecords
  BY DEF ReportInv, Types, InAttempt, Attempting, Stopping
<1>2. /\ c \in AttemptRecords /\ c.status = "failed" /\ c.id = cur.id /\ c.group = cur.group
      /\ c.case = cur.case /\ c.accepted = cur.accepted
  BY <1>1 DEF AttemptRecords
<1> HIDE DEF c
<1>3. cur' = c /\ failure' \in {"none", "error", "shutdown"} /\ pc' \in {"release", "settle"}
  BY DEF CleanupError, c, ReportInv, Types
<1>4. SameAttempt
  <2>1. server.saving \subseteq Saves /\ pc' \notin Starting /\ pc' \in Attempting
    BY <1>1, <1>3 DEF ReportInv, Unsaved, Starting, Attempting
  <2> QED
    BY <1>1, <1>2, <1>3, <2>1 DEF SameAttempt, ReportInv, Types
<1>5. Types' /\ Reporting' /\ Todo' /\ Attempted' /\ Expected' /\ Unsaved'
  BY <1>4, AttemptFrame
<1>6. Uncached'
  BY <1>3 DEF Uncached
<1>7. Measured'
  BY <1>2, <1>3 DEF Measured
<1>8. Serving'
  BY <1>2, <1>3 DEF Serving, Starting, Stopping
<1> QED
  BY <1>5, <1>6, <1>7, <1>8 DEF ReportInv

\* The server is stopped.
LEMMA StoppingKeeps ==
    ASSUME ReportInv, Stop \/ Reap \/ Escalate PROVE ReportInv'
<1>1. UNCHANGED <<disk, cache, world, report, job, cur, tries, failure, server, left, budget>>
  BY DEF Stop, Reap, Escalate
<1>2. pc \in Stopping /\ pc' \in Stopping \cup {"release"}
  BY DEF Stop, Reap, Escalate, Stopping
<1>3. pc' = "release" => server.state # "alive"
  BY DEF Stop, Reap, Escalate
<1>4. SameAttempt
  <2>1. InAttempt /\ pc' \notin Starting /\ pc' \in Attempting
    BY <1>2 DEF InAttempt, Starting, Attempting, Stopping
  <2>2. server.saving \subseteq Saves /\ cur \in AttemptRecords
    BY <2>1 DEF ReportInv, Types, Unsaved
  <2> QED
    BY <1>1, <2>1, <2>2 DEF SameAttempt, ReportInv, Types, budget
<1>5. Types' /\ Reporting' /\ Todo' /\ Attempted' /\ Expected' /\ Unsaved'
  BY <1>4, AttemptFrame
<1>6. Uncached'
  BY <1>2 DEF Uncached, Stopping
<1>7. Measured'
  BY <1>1, <1>2 DEF ReportInv, Measured, InAttempt, Attempting, Starting, Stopping
<1>8. Serving'
  BY <1>1, <1>2, <1>3 DEF ReportInv, Serving, Starting, Stopping
<1> QED
  BY <1>5, <1>6, <1>7, <1>8 DEF ReportInv

\* The server outlived SIGKILL, or the GPU is waited for.
LEMMA ReleaseKeeps ==
    ASSUME ReportInv, GiveUp \/ Release PROVE ReportInv'
<1>1. /\ UNCHANGED <<disk, cache, world, report, job, tries, server, left, sessions>>
      /\ faults \in Nat /\ faults' \in Nat
  BY DEF GiveUp, Release, Fault, ReportInv, Types
<1>2. CASE GiveUp
  <2>1. pc = "sigkill" /\ pc' = "release" /\ CleanupError /\ faults' > 0
    BY <1>1, <1>2 DEF GiveUp, Fault
  <2> QED
    BY <1>1, <2>1, CleanupErrorKeeps
<1>3. CASE Release /\ CleanupError
  <2>1. pc = "release" /\ pc' = "settle"
    BY <1>3 DEF Release
  <2>2. server.state = "alive" => faults > 0 /\ faults' = faults
    BY <1>3, <2>1 DEF Release, ReportInv, Serving
  <2> QED
    BY <1>1, <1>3, <2>1, <2>2, CleanupErrorKeeps
<1>4. CASE Release /\ server.state = "dead" /\ UNCHANGED <<cur, failure, faults>>
  <2>1. pc = "release" /\ pc' = "settle"
    BY <1>4 DEF Release
  <2>2. SameAttempt
    <3>1. InAttempt /\ pc' \notin Starting /\ pc' \in Attempting
      BY <2>1 DEF InAttempt, Starting, Attempting, Stopping
    <3>2. server.saving \subseteq Saves /\ cur \in AttemptRecords
      BY <3>1 DEF ReportInv, Types, Unsaved
    <3> QED
      BY <1>1, <1>4, <3>1, <3>2 DEF SameAttempt, ReportInv, Types
  <2>3. Types' /\ Reporting' /\ Todo' /\ Attempted' /\ Expected' /\ Unsaved'
    BY <2>2, AttemptFrame
  <2>4. Uncached'
    BY <2>1 DEF Uncached
  <2>5. Measured'
    BY <1>1, <1>4, <2>1 DEF ReportInv, Measured, InAttempt, Attempting, Starting
  <2>6. Serving'
    BY <1>1, <1>4, <2>1 DEF Serving, Starting, Stopping
  <2> QED
    BY <2>3, <2>4, <2>5, <2>6 DEF ReportInv
<1> QED
  BY <1>2, <1>3, <1>4 DEF Release

-----------------------------------------------------------------------------
(* What is made of an attempt.                                             *)

\* What is known of an attempt when it ends.
LEMMA AtTheEnd ==
    ASSUME ReportInv, InAttempt
    PROVE  /\ cur \in AttemptRecords /\ Tried(report, tries) /\ Right(report)
           /\ cur.id = Len(report.attempts) + Len(tries) + 1 /\ ~cur.accepted
           /\ job \in Jobs /\ job.kind \in {"benchmark", "rerun"} /\ disk = report
           /\ (job.kind = "benchmark" => report.status = "running")
           /\ (job.kind = "rerun" => Full(report))
           /\ \A b \in BOOLEAN :
                 LET run == [cur EXCEPT !.accepted = b]
                 IN  /\ run \in AttemptRecords /\ run.accepted = b /\ PairOf(run) = PairOf(cur)
                     /\ run.id = cur.id /\ run.group = cur.group /\ run.case = cur.case
                     /\ run.status = cur.status /\ run.foreign = cur.foreign
                     /\ run.fp = cur.fp /\ run.env = cur.env /\ run.encoded = cur.encoded
<1>1. pc \in Attempting /\ pc \notin {"off", "next", "write", "exit"}
  BY DEF InAttempt, Attempting, Starting, Stopping
<1>2. cur \in AttemptRecords /\ job \in Jobs /\ job.kind \in {"benchmark", "rerun"}
  BY <1>1 DEF ReportInv, Types
<1>3. /\ Right(report) /\ disk = report /\ (job.kind = "benchmark" => report.status = "running")
      /\ (job.kind = "rerun" => report.status \in {"complete", "rerun_failed"})
  BY <1>1 DEF ReportInv, Reporting
<1>4. job.kind = "rerun" => Full(report)
  BY <1>3 DEF Right
<1>5. /\ Tried(report, tries) /\ cur.id = Len(report.attempts) + Len(tries) + 1
      /\ ~cur.accepted
  BY DEF ReportInv, Attempted
<1>6. ASSUME NEW b \in BOOLEAN
      PROVE  LET run == [cur EXCEPT !.accepted = b]
             IN  /\ run \in AttemptRecords /\ run.accepted = b /\ PairOf(run) = PairOf(cur)
                 /\ run.id = cur.id /\ run.group = cur.group /\ run.case = cur.case
                 /\ run.status = cur.status /\ run.foreign = cur.foreign
                 /\ run.fp = cur.fp /\ run.env = cur.env /\ run.encoded = cur.encoded
  BY <1>2 DEF AttemptRecords, PairOf
<1> QED
  BY <1>2, <1>3, <1>4, <1>5, <1>6

\* After a contaminated attempt the next one is of the same pair, and deletes the
\* entry that the contaminated one has made.
LEMMA RetryKeeps ==
    ASSUME ReportInv, pc = "settle", cur.status = "success", MayRetry,
           tries' = Append(tries, [cur EXCEPT !.accepted = FALSE]),
           cur' = NewAttempt(cur.id + 1, cur.group, cur.case),
           job' = [job EXCEPT !.fp = IF RetryEntry = NoFp THEN @ ELSE RetryEntry,
                              !.delete = RetryEntry],
           pc' = "launch", server' = NoServer,
           UNCHANGED <<report, failure, disk, cache, world, left, budget>>
    PROVE  ReportInv'
<1> DEFINE run == [cur EXCEPT !.accepted = FALSE]
           m == Len(report.attempts)
           n == Len(tries)
           new == NewAttempt(cur.id + 1, cur.group, cur.case)
           f == IF RetryEntry = NoFp THEN job.fp ELSE RetryEntry
           j == [job EXCEPT !.fp = f, !.delete = RetryEntry]
<1>1. InAttempt
  BY DEF InAttempt, Attempting
<1>2. /\ cur \in AttemptRecords /\ Tried(report, tries) /\ report \in Reports
      /\ cur.id = m + n + 1
      /\ job \in Jobs /\ job.kind \in {"benchmark", "rerun"}
      /\ run \in AttemptRecords /\ run.id = cur.id /\ ~run.accepted
  BY <1>1, AtTheEnd DEF Right
<1>3. /\ tries \in Seq(AttemptRecords) /\ n \in Nat /\ m \in Nat /\ DOMAIN tries = 1..n
      /\ \A i \in 1..n : tries[i].id = m + i /\ ~tries[i].accepted
  BY <1>2, LenProperties, ReportFields DEF Tried
<1>4. /\ cur.group \in {"native", "cached_miss", "cached_hit"} /\ cur.case \in Cases
      /\ cur.fp \in Fps /\ cur.id \in Nat /\ NoFp \in Fps
  BY <1>2, RecordFields DEF Fps
<1>5. /\ new \in AttemptRecords /\ new.id = cur.id + 1 /\ new.group = cur.group
      /\ new.case = cur.case /\ new.status = "running" /\ ~new.accepted
      /\ PairOf(new) = PairOf(cur)
  BY <1>4 DEF NewAttempt, AttemptRecords, PairOf
<1>6. /\ (cur.group = "cached_miss" => cur.fp # NoFp /\ job.fp \in {NoFp, cur.fp})
      /\ RetryEntry \in Fps /\ f \in Fps
      /\ (cur.group = "cached_miss" => f = cur.fp /\ RetryEntry = cur.fp)
      /\ (cur.group # "cached_miss" => f = job.fp)
  <2>1. cur.group = "cached_miss" => cur.fp # NoFp /\ job.fp \in {NoFp, cur.fp}
    BY <1>1 DEF ReportInv, Measured
  <2>2. job.fp \in Fps
    BY <1>2 DEF Jobs
  <2> QED
    BY <1>4, <2>1, <2>2 DEF RetryEntry
<1>7. /\ job' = j /\ j \in Jobs /\ j.kind = job.kind /\ j.todo = job.todo /\ j.fp = f
      /\ j.delete = RetryEntry
  BY <1>2, <1>6 DEF Jobs
<1> HIDE DEF run, new, f, j
<1>8. /\ tries' \in Seq(AttemptRecords) /\ Len(tries') = n + 1
      /\ \A i \in 1..n : tries'[i] = tries[i]
      /\ tries'[n + 1] = run
  BY <1>2, <1>3, AppendProperties DEF run
<1>9. cur' = new /\ pc' = "launch" /\ InAttempt'
  BY DEF new, InAttempt, Attempting, Starting
<1> HIDE DEF m, n
<1>10. Types'
  <2>1. Len(tries') < MaxAttempts
    BY <1>3, <1>8 DEF MayRetry, n
  <2>2. NoServer \in Servers /\ NoServer.saving = {}
    BY DEF NoServer, Servers, Events, Fps
  <2> QED
    BY <1>2, <1>5, <1>7, <1>8, <1>9, <2>1, <2>2 DEF ReportInv, Types, PCs, Attempting, Starting, budget
<1>11. Reporting'
  BY <1>1, <1>7, <1>9 DEF ReportInv, Reporting, InAttempt, Attempting, Starting, Stopping, budget
<1>12. Todo'
  <2>1. \A c : Cold(c)' <=> Cold(c)
    BY DEF Cold
  <2>2. PairOf(cur)' = PairOf(cur)
    BY <1>5, <1>9 DEF PairOf
  <2> QED
    BY <1>1, <1>7, <1>9, <2>1, <2>2 DEF ReportInv, Todo, InAttempt
<1>13. Attempted'
  <2>1. new.id = m + (n + 1) + 1
    BY <1>2, <1>3, <1>4, <1>5
  <2>2. ASSUME NEW i \in DOMAIN tries' PROVE tries'[i].id = m + i /\ ~tries'[i].accepted
    <3>1. i \in 1..n \/ i = n + 1
      BY <1>3, <1>8, <2>2
    <3>2. CASE i \in 1..n
      BY <1>3, <1>8, <3>2
    <3>3. CASE i = n + 1
      <4>1. tries'[i] = run /\ run.id = m + i
        <5>1. tries'[i] = run
          BY <1>8, <3>3
        <5>2. m + n + 1 = m + i
          BY <1>3, <3>3
        <5> QED
          BY <1>2, <5>1, <5>2
      <4> QED
        BY <1>2, <4>1
    <3> QED
      BY <3>1, <3>2, <3>3
  <2>3. Tried(report, tries')
    BY <1>8, <2>2 DEF Tried, m
  <2> QED
    BY <1>5, <1>8, <1>9, <2>1, <2>3 DEF Attempted, m
<1>14. Expected'
  <2>1. cur.group = "cached_hit" \/ (cur.group = "cached_miss" /\ job.kind = "rerun")
           => f = ExpectedFp(job.kind, report, cur.group, cur.case)
    <3>1. cur.group = "cached_hit" \/ (cur.group = "cached_miss" /\ job.kind = "rerun")
            => job.fp = ExpectedFp(job.kind, report, cur.group, cur.case)
      BY <1>1 DEF ReportInv, Expected
    <3>2. CASE cur.group = "cached_hit"
      BY <1>6, <3>1, <3>2
    <3>3. CASE cur.group = "cached_miss" /\ job.kind = "rerun"
      <4> DEFINE p == <<"cached_miss", cur.case>>
      <4>1. p \in Pairs /\ Full(report) /\ Right(report)
        BY <1>1, <1>4, <3>3, AtTheEnd, PairsAre
      <4>2. report.runs[p] # NoRun /\ report.runs[p].fp # NoFp
        BY <4>1 DEF Full, Right, RunIsRight
      <4>3. job.fp # NoFp
        BY <3>1, <3>3, <4>2 DEF ExpectedFp
      <4> QED
        BY <1>6, <3>1, <3>3, <4>3
    <3> QED
      BY <3>2, <3>3
  <2>2. /\ job'.kind = job.kind /\ job'.fp = f /\ job'.delete = RetryEntry
        /\ cur'.group = cur.group /\ cur'.case = cur.case /\ report' = report
    BY <1>5, <1>7, <1>9
  <2>3. cur.group = "cached_miss" => RetryEntry = f
    BY <1>6
  <2> QED
    BY <2>1, <2>2, <2>3 DEF Expected
<1>15. Uncached'
  BY <1>5, <1>6, <1>7, <1>9 DEF Uncached
<1>16. Measured'
  BY <1>5, <1>9 DEF Measured
<1>17. Serving'
  BY <1>9 DEF Serving, Starting, Stopping
<1>18. Unsaved'
  BY DEF Unsaved, NoServer
<1> QED
  BY <1>10, <1>11, <1>12, <1>13, <1>14, <1>15, <1>16, <1>17, <1>18 DEF ReportInv

\* A clean success fits the report.
LEMMA SuccessFits ==
    ASSUME ReportInv, pc = "settle", cur.status = "success", ~cur.foreign
    PROVE  RunFits(job.kind, report, [cur EXCEPT !.accepted = TRUE])
<1> DEFINE run == [cur EXCEPT !.accepted = TRUE]
<1>1. InAttempt
  BY DEF InAttempt, Attempting
<1>2. /\ cur \in AttemptRecords /\ Right(report) /\ job.kind \in {"benchmark", "rerun"}
      /\ (job.kind = "benchmark" => report.status = "running")
      /\ (job.kind = "rerun" => Full(report))
      /\ run \in AttemptRecords /\ run.accepted /\ PairOf(run) = PairOf(cur)
      /\ run.group = cur.group /\ run.case = cur.case /\ run.status = cur.status
      /\ run.foreign = cur.foreign /\ run.fp = cur.fp /\ run.env = cur.env
      /\ run.encoded = cur.encoded
  BY <1>1, AtTheEnd
<1>3. /\ cur.env # NoEnv /\ (cur.encoded <=> cur.group # "cached_hit")
      /\ (cur.group # "native" => cur.fp # NoFp /\ job.fp \in {NoFp, cur.fp})
      /\ (cur.group = "cached_hit" => cur.fp = job.fp)
  BY <1>1 DEF ReportInv, Measured
<1>4. /\ cur.group \in {"native", "cached_miss", "cached_hit"} /\ cur.case \in Cases
  BY <1>2, RecordFields
<1> HIDE DEF run
<1> DEFINE m == <<"cached_miss", cur.case>>
<1>5. cur.group = "cached_hit" \/ (cur.group = "cached_miss" /\ job.kind = "rerun")
        => job.fp = ExpectedFp(job.kind, report, cur.group, cur.case)
  BY <1>1 DEF ReportInv, Expected
<1>6. cur.group = "cached_hit" => report.runs[m] # NoRun /\ cur.fp = report.runs[m].fp
  BY <1>3, <1>5 DEF ExpectedFp
<1>7. cur.group = "cached_miss" /\ job.kind = "rerun" => cur.fp = report.runs[m].fp
  <2> SUFFICES ASSUME cur.group = "cached_miss", job.kind = "rerun"
               PROVE  cur.fp = report.runs[m].fp
    OBVIOUS
  <2>1. m \in Pairs
    BY <1>4, PairsAre
  <2>2. report.runs[m] # NoRun /\ report.runs[m].fp # NoFp
    BY <1>2, <2>1 DEF Full, Right, RunIsRight
  <2>3. job.fp = report.runs[m].fp
    BY <1>5, <2>2 DEF ExpectedFp
  <2> QED
    BY <1>3, <2>2, <2>3
<1>8. job.kind = "benchmark" => report.runs[PairOf(cur)] = NoRun
  BY <1>1, <1>2 DEF ReportInv, Todo, InAttempt
<1>9. RunOK(run)
  BY <1>2 DEF RunOK
<1>10. RunFits(job.kind, report, run)
  BY <1>2, <1>3, <1>6, <1>7, <1>8, <1>9 DEF RunFits
<1> QED
  BY <1>10 DEF run

\* What the caller is given, it writes: the report with the run, or without one.
LEMMA VerdictKeeps ==
    ASSUME ReportInv, pc = "settle", pc' = "write",
           NEW e, report' = e, Right(e), e.bench = report.bench, Preserves(report, e),
           \A p \in Pairs : p # PairOf(cur) => e.runs[p] = report.runs[p],
           job.kind = "rerun" => e.status \in {"complete", "rerun_failed"},
           server' \in {NoServer, server}, server'.state = "alive" => cur.status = "failed" /\ faults > 0,
           server' # NoServer => e.status \notin {"running", "complete"},
           UNCHANGED <<job, cur, tries, failure, disk, cache, world, left, budget>>
    PROVE  ReportInv'
<1>1. InAttempt /\ pc \in Attempting /\ pc' \notin Attempting
  BY DEF InAttempt, Attempting, Starting, Stopping
<1>2. /\ NoServer \in Servers /\ server' \in Servers
      /\ server'.saving \subseteq server.saving
  <2>1. NoServer \in Servers /\ NoServer.saving = {}
    BY DEF NoServer, Servers, Events, Fps
  <2> QED
    BY <2>1 DEF ReportInv, Types
<1>3. Types'
  BY <1>1, <1>2 DEF ReportInv, Types, InAttempt, PCs, budget
<1>4. Reporting'
  <2>1. /\ disk = report /\ (disk # NoReport => Right(disk) /\ disk.bench <= sessions)
        /\ report.bench <= sessions
    BY <1>1 DEF ReportInv, Reporting
  <2> QED
    BY <1>1, <2>1 DEF Reporting, budget
<1>5. Todo'
  <2> SUFFICES ASSUME job.kind = "benchmark", report.status = "running",
                      NEW i \in DOMAIN job.todo
               PROVE  /\ e.runs[job.todo[i]] = NoRun
                      /\ (job.todo[i][1] = "cached_miss" => Cold(job.todo[i][2])')
    <3>1. job.kind = "benchmark" => Ordered(job.todo) /\ report.status = "running"
      BY <1>1 DEF ReportInv, Todo, Reporting
    <3> QED
      BY <1>1, <3>1 DEF Todo, InAttempt
  <2>1. /\ report.runs[job.todo[i]] = NoRun /\ Before(PairOf(cur), job.todo[i])
        /\ (job.todo[i][1] = "cached_miss" => Cold(job.todo[i][2]))
    BY <1>1 DEF ReportInv, Todo
  <2>2. job.todo[i] \in Pairs
    <3>1. job.todo \in Seq(Pairs)
      BY DEF ReportInv, Types, Jobs
    <3> QED
      BY <3>1, ElementOfSeq
  <2>3. job.todo[i] # PairOf(cur)
    BY <2>1 DEF Before
  <2>4. Cold(job.todo[i][2])' <=> Cold(job.todo[i][2])
    BY DEF Cold
  <2> QED
    BY <2>1, <2>2, <2>3, <2>4
<1>6. Attempted' /\ Expected' /\ Uncached'
  BY <1>1 DEF Attempted, Expected, Uncached, InAttempt
<1>7. Measured'
  BY <1>1 DEF Measured, InAttempt
<1>8. Serving'
  BY DEF ReportInv, Serving, Starting, Stopping, budget
<1>9. Unsaved'
  BY <1>1 DEF Unsaved, InAttempt, Starting
<1> QED
  BY <1>3, <1>4, <1>5, <1>6, <1>7, <1>8, <1>9 DEF ReportInv

\* The attempt is kept, tried again, or the last one.
LEMMA SettleKeeps ==
    ASSUME ReportInv, Settle PROVE ReportInv'
<1> DEFINE clean == cur.status = "success" /\ ~cur.foreign
           again == cur.status = "success" /\ cur.foreign /\ MayRetry
           good == [cur EXCEPT !.accepted = TRUE]
           bad == [cur EXCEPT !.accepted = FALSE]
<1>1. pc = "settle" /\ UNCHANGED <<disk, cache, world, left, budget>> /\ InAttempt
  BY DEF Settle, InAttempt, Attempting
<1>2. /\ cur \in AttemptRecords /\ Tried(report, tries) /\ Right(report) /\ disk = report
      /\ cur.id = Len(report.attempts) + Len(tries) + 1
      /\ job.kind \in {"benchmark", "rerun"}
      /\ (job.kind = "benchmark" => report.status = "running")
      /\ (job.kind = "rerun" => Full(report))
      /\ good \in AttemptRecords /\ good.id = cur.id /\ PairOf(good) = PairOf(cur)
      /\ bad \in AttemptRecords /\ bad.id = cur.id /\ PairOf(bad) = PairOf(cur)
      /\ ~bad.accepted
  BY <1>1, AtTheEnd
<1>3. CASE failure = "shutdown"
  <2>1. pc' = "exit" /\ UNCHANGED <<report, job, cur, tries, server, failure>>
    BY <1>3 DEF Settle
  <2>2. pc' \notin Attempting \cup {"off", "next", "write"} /\ ~InAttempt'
    BY <2>1 DEF InAttempt, Attempting, Starting, Stopping
  <2>3. Types'
    BY <1>1, <2>1, <2>2 DEF ReportInv, Types, PCs, budget
  <2>4. Reporting'
    BY <1>1, <2>1, <2>2 DEF ReportInv, Reporting, budget
  <2>5. Todo' /\ Attempted' /\ Expected' /\ Uncached' /\ Measured' /\ Unsaved'
    BY <2>1, <2>2 DEF Todo, Attempted, Expected, Uncached, Measured, Unsaved, Starting
  <2>6. Serving'
    BY <1>1, <2>1 DEF ReportInv, Serving, Starting, Stopping, budget
  <2> QED
    BY <2>3, <2>4, <2>5, <2>6 DEF ReportInv
<1>4. CASE failure # "shutdown" /\ again
  <2>1. ~clean /\ [cur EXCEPT !.accepted = clean] = bad
    BY <1>4
  <2>2. /\ tries' = Append(tries, bad)
        /\ cur' = NewAttempt(cur.id + 1, cur.group, cur.case)
        /\ job' = [job EXCEPT !.fp = IF RetryEntry = NoFp THEN @ ELSE RetryEntry,
                              !.delete = RetryEntry]
        /\ pc' = "launch" /\ server' = NoServer /\ UNCHANGED <<report, failure>>
    BY <1>4, <2>1 DEF Settle
  <2> QED
    BY <1>1, <1>4, <2>2, RetryKeeps
<1>5. CASE failure # "shutdown" /\ clean
  <2>1. ~again /\ [cur EXCEPT !.accepted = clean] = good
    BY <1>5
  <2>2. /\ report' = Taken(job.kind, report, Append(tries, good), good)
        /\ pc' = "write" /\ server' = NoServer /\ UNCHANGED <<job, cur, tries, failure>>
    BY <1>5, <2>1 DEF Settle
  <2>3. RunFits(job.kind, report, good)
    BY <1>1, <1>5, SuccessFits
  <2>4. /\ Right(report') /\ report'.bench = report.bench /\ Preserves(report, report')
        /\ \A p \in Pairs : p # PairOf(cur) => report'.runs[p] = report.runs[p]
        /\ (job.kind = "rerun" => report'.status \in {"complete", "rerun_failed"})
    <3>0. report \in Reports /\ tries \in Seq(AttemptRecords)
      BY <1>2 DEF Right, Tried
    <3> DEFINE failed == [good EXCEPT !.accepted = FALSE, !.status = "failed"]
    <3>1. CASE Unfit(job.kind, report, good)
      <4>1. failed \in AttemptRecords /\ failed.id = cur.id /\ ~failed.accepted
        BY <1>2 DEF AttemptRecords
      <4>2. report' = NoneAccepted(job.kind, report, Append(tries, failed))
        BY <1>2, <2>2, <3>0, <3>1, TakenIs
      <4> HIDE DEF failed
      <4> QED
        BY <1>2, <4>1, <4>2, NoneAcceptedKeeps
    <3>2. CASE ~Unfit(job.kind, report, good)
      <4>1. report' = Took(job.kind, report, tries, good)
        BY <1>2, <2>2, <3>0, <3>2, TakenIs
      <4> HIDE DEF good
      <4> QED
        BY <1>2, <2>3, <3>2, <4>1, TookKeeps
    <3> QED
      BY <3>1, <3>2
  <2>5. server'.state # "alive"
    BY <2>2 DEF NoServer
  <2> QED
    BY <1>1, <2>2, <2>4, <2>5, VerdictKeeps
<1>6. CASE failure # "shutdown" /\ ~again /\ ~clean
  <2>1. [cur EXCEPT !.accepted = clean] = bad
    BY <1>6
  <2>2. /\ report' = NoneAccepted(job.kind, report, Append(tries, bad))
        /\ pc' = "write" /\ server' = server /\ UNCHANGED <<job, cur, tries, failure>>
    BY <1>6, <2>1 DEF Settle
  <2>3. /\ Right(report') /\ report'.bench = report.bench /\ Preserves(report, report')
        /\ report'.runs = report.runs
        /\ report'.status = IF job.kind = "benchmark" THEN "failed" ELSE "rerun_failed"
    <3> HIDE DEF bad
    <3> QED
      BY <1>2, <2>2, NoneAcceptedKeeps
  <2>4. server.state = "alive" => cur.status = "failed" /\ faults > 0
    BY <1>1 DEF ReportInv, Serving
  <2>5. report'.status \notin {"running", "complete"}
    BY <2>3
  <2>6. \A p \in Pairs : p # PairOf(cur) => report'.runs[p] = report.runs[p]
    BY <2>3
  <2>7. job.kind = "rerun" => report'.status \in {"complete", "rerun_failed"}
    BY <2>3
  <2> QED
    BY <1>1, <2>2, <2>3, <2>4, <2>5, <2>6, <2>7, VerdictKeeps
<1> QED
  BY <1>3, <1>4, <1>5, <1>6

-----------------------------------------------------------------------------
(* Sessions.                                                               *)

\* No job is one, and so is none with another kind and list.
LEMMA JobsAre ==
    ASSUME NEW k \in {"none", "benchmark", "rerun"}, NEW t \in Seq(Pairs)
    PROVE  LET j == [IdleJob EXCEPT !.kind = k, !.todo = t]
           IN  /\ IdleJob \in Jobs /\ j \in Jobs /\ j.kind = k /\ j.todo = t
<1>1. NoFp \in Fps /\ <<>> \in Seq(Pairs)
  BY DEF Fps
<1>2. IdleJob \in Jobs
  BY <1>1 DEF IdleJob, Jobs
<1> QED
  BY <1>2 DEF Jobs

\* A new report is right: it has nothing.
LEMMA EmptyIsRight ==
    ASSUME NEW b \in 1..MaxSessions
    PROVE  /\ Right(EmptyReport(b)) /\ EmptyReport(b).bench = b
           /\ EmptyReport(b).status = "running"
           /\ \A p \in Pairs : EmptyReport(b).runs[p] = NoRun
<1> DEFINE e == EmptyReport(b)
           rs == [p \in Pairs |-> NoRun]
<1>1. rs \in [Pairs -> AttemptRecords \cup {NoRun}] /\ \A p \in Pairs : rs[p] = NoRun
  OBVIOUS
<1> HIDE DEF rs
<1>2. <<>> \in Seq(AttemptRecords) /\ DOMAIN <<>> = {}
  OBVIOUS
<1>3. /\ e \in Reports /\ e.bench = b /\ e.status = "running" /\ e.runs = rs
      /\ e.attempts = <<>>
  BY <1>1, <1>2 DEF EmptyReport, Reports, rs
<1> HIDE DEF e
<1>4. \A p \in Pairs : RunIsRight(e, p)
  BY <1>1, <1>3 DEF RunIsRight
<1>5. \A c \in Cases : HitIsOfMiss(e, c)
  BY <1>1, <1>3, PairsAre DEF HitIsOfMiss
<1>6. Trail(e)
  BY <1>2, <1>3 DEF Trail
<1>7. Right(e)
  BY <1>3, <1>4, <1>5, <1>6 DEF Right
<1> QED
  BY <1>1, <1>3, <1>7 DEF e

\* A benchmark is started: all it will do is new to its report.
LEMMA StartBenchmarkKeeps ==
    ASSUME ReportInv, StartBenchmark PROVE ReportInv'
<1> DEFINE b == sessions + 1
           j == [IdleJob EXCEPT !.kind = "benchmark", !.todo = AllMeasurements]
           e == EmptyReport(b)
<1>1. /\ pc = "off" /\ pc' = "write" /\ sessions' = b /\ report' = e /\ job' = j
      /\ UNCHANGED <<disk, cache, world, cur, tries, failure, server, left, faults, signals>>
  BY DEF StartBenchmark
<1>2. sessions \in Nat /\ b \in 1..MaxSessions /\ sessions < b
  BY BenchmarkAssumption DEF StartBenchmark, ReportInv, Types
<1>3. AllMeasurements \in Seq(Pairs) /\ Ordered(AllMeasurements)
  BY AllOrdered
<1>4. j \in Jobs /\ j.kind = "benchmark" /\ j.todo = AllMeasurements
  BY <1>3, JobsAre
<1>5. /\ Right(e) /\ e.bench = b /\ e.status = "running" /\ \A p \in Pairs : e.runs[p] = NoRun
  BY <1>2, EmptyIsRight
<1> HIDE DEF b, j, e
<1>6. ~InAttempt' /\ pc' \notin Attempting
  BY <1>1 DEF InAttempt, Attempting, Starting, Stopping
<1>7. Types'
  <2>1. \A f \in cache \cup late : f[1] <= b
    <3>1. ASSUME NEW f \in cache \cup late PROVE f[1] <= b
      <4>1. f \in Fps \ {NoFp} /\ f[1] <= sessions
        BY DEF ReportInv, Types
      <4>2. f[1] \in Nat
        BY <4>1 DEF Fps, FpOf
      <4> QED
        BY <1>2, <4>1, <4>2
    <3> QED
      BY <3>1
  <2>2. b \in 0..MaxSessions
    BY <1>2
  <2>3. server' = server /\ server.saving = {}
    BY <1>1 DEF ReportInv, Serving, NoServer
  <2> QED
    BY <1>1, <1>4, <1>6, <2>1, <2>2, <2>3 DEF ReportInv, Types, PCs
<1>8. Reporting'
  <2>1. disk # NoReport => Right(disk) /\ disk.bench <= sessions /\ disk.bench \in Nat
    <3>1. disk # NoReport => Right(disk) /\ disk.bench <= sessions
      BY DEF ReportInv, Reporting
    <3> QED
      BY <3>1, ReportFields DEF Right
  <2>2. disk # NoReport => disk.bench <= b /\ disk.bench # b
    BY <1>2, <2>1
  <2>3. Preserves(disk, e)
    BY <1>5, <2>2 DEF Preserves, Loadable
  <2>4. b <= b
    BY <1>2
  <2> QED
    BY <1>1, <1>4, <1>5, <1>6, <2>1, <2>2, <2>3, <2>4 DEF Reporting
<1>9. Todo'
  <2>1. ASSUME NEW c PROVE Cold(c)'
    <3>1. ASSUME NEW f \in cache PROVE f[1] # b
      <4>1. f \in Fps \ {NoFp} /\ f[1] <= sessions
        BY DEF ReportInv, Types
      <4>2. f[1] \in Nat
        BY <4>1 DEF Fps, FpOf
      <4> QED
        BY <1>2, <4>1, <4>2
    <3> QED
      BY <1>1, <1>5, <3>1 DEF Cold
  <2>2. \A i \in DOMAIN AllMeasurements : e.runs[AllMeasurements[i]] = NoRun
    BY <1>3, <1>5, ElementOfSeq
  <2> QED
    BY <1>1, <1>3, <1>4, <1>6, <2>1, <2>2 DEF Todo
<1>10. Attempted' /\ Expected'
  BY <1>6 DEF Attempted, Expected
<1>11. Uncached' /\ Measured'
  BY <1>1, <1>6 DEF Uncached, Measured
<1>12. Serving'
  <2>1. server' = NoServer /\ NoServer.state = "none"
    BY <1>1 DEF ReportInv, Serving, NoServer
  <2> QED
    BY <1>1, <2>1 DEF Serving, Starting, Stopping
<1>13. Unsaved'
  BY <1>1, <1>6 DEF Unsaved, Attempting, Starting, Stopping
<1> QED
  BY <1>7, <1>8, <1>9, <1>10, <1>11, <1>12, <1>13 DEF ReportInv

\* A rerun is started, on a report that is whole.
LEMMA StartRerunKeeps ==
    ASSUME ReportInv, StartRerun PROVE ReportInv'
<1>1. /\ pc = "off" /\ pc' = "next" /\ sessions' = sessions + 1 /\ report' = disk
      /\ sessions < MaxSessions /\ Loadable(disk)
      /\ UNCHANGED <<disk, cache, world, cur, tries, failure, server, left, faults, signals>>
  BY DEF StartRerun
<1>2. PICK i \in DOMAIN Groups : \E cs \in RerunLists :
         job' = [IdleJob EXCEPT !.kind = "rerun",
                                !.todo = [k \in DOMAIN cs |-> <<Groups[i], cs[k]>>]]
  BY DEF StartRerun
<1>3. PICK cs \in RerunLists :
         job' = [IdleJob EXCEPT !.kind = "rerun",
                                !.todo = [k \in DOMAIN cs |-> <<Groups[i], cs[k]>>]]
  BY <1>2
<1> DEFINE todo == [k \in DOMAIN cs |-> <<Groups[i], cs[k]>>]
<1>4. todo \in Seq(Pairs)
  <2>1. cs \in Seq(Cases)
    BY BenchmarkAssumption
  <2>2. Len(cs) \in Nat /\ DOMAIN cs = 1..Len(cs) /\ \A k \in 1..Len(cs) : cs[k] \in Cases
    BY <2>1, ElementOfSeq, LenProperties
  <2>3. \A k \in 1..Len(cs) : <<Groups[i], cs[k]>> \in Pairs
    BY <2>2 DEF Pairs
  <2> QED
    BY <2>2, <2>3
<1> HIDE DEF todo
<1>5. job' \in Jobs /\ job'.kind = "rerun"
  <2>1. job' = [IdleJob EXCEPT !.kind = "rerun", !.todo = todo]
    BY <1>3 DEF todo
  <2> QED
    BY <1>4, <2>1, JobsAre
<1>6. ~InAttempt' /\ pc' \notin Attempting
  BY <1>1 DEF InAttempt, Attempting, Starting, Stopping
<1>7. sessions \in Nat /\ sessions' \in 0..MaxSessions
  BY <1>1, BenchmarkAssumption DEF ReportInv, Types
<1>8. Types'
  <2>1. \A f \in cache \cup late : f[1] <= sessions'
    <3>1. ASSUME NEW f \in cache \cup late PROVE f[1] <= sessions'
      <4>1. f \in Fps \ {NoFp} /\ f[1] <= sessions
        BY DEF ReportInv, Types
      <4>2. f[1] \in Nat
        BY <4>1 DEF Fps, FpOf
      <4> QED
        BY <1>1, <1>7, <4>1, <4>2
    <3> QED
      BY <3>1
  <2>2. server' = server /\ server.saving = {}
    BY <1>1 DEF ReportInv, Serving, NoServer
  <2> QED
    BY <1>1, <1>5, <1>6, <1>7, <2>1, <2>2 DEF ReportInv, Types, PCs
<1>9. Reporting'
  <2>1. disk # NoReport /\ Right(disk) /\ disk.bench <= sessions /\ disk.bench \in Nat
    <3>1. disk # NoReport /\ Right(disk) /\ disk.bench <= sessions
      BY <1>1 DEF ReportInv, Reporting, Loadable
    <3> QED
      BY <3>1, ReportFields DEF Right
  <2>2. disk.bench <= sessions'
    BY <1>1, <1>7, <2>1
  <2>3. disk.status \in {"complete", "rerun_failed"}
    BY <1>1 DEF Loadable
  <2> QED
    BY <1>1, <1>5, <1>6, <2>1, <2>2, <2>3 DEF Reporting
<1>10. Todo' /\ Attempted' /\ Expected'
  BY <1>5, <1>6 DEF Todo, Attempted, Expected
<1>11. Uncached' /\ Measured'
  BY <1>1, <1>6 DEF Uncached, Measured
<1>12. Serving'
  <2>1. server' = NoServer /\ NoServer.state = "none"
    BY <1>1 DEF ReportInv, Serving, NoServer
  <2> QED
    BY <1>1, <2>1 DEF Serving, Starting, Stopping
<1>13. Unsaved'
  BY <1>1, <1>6 DEF Unsaved, Attempting, Starting, Stopping
<1> QED
  BY <1>8, <1>9, <1>10, <1>11, <1>12, <1>13 DEF ReportInv

\* The head of what is to be done, and the rest.
LEMMA HeadAndTail ==
    ASSUME NEW todo \in Seq(Pairs), todo # <<>>
    PROVE  /\ Head(todo) = todo[1] /\ todo[1] \in Pairs /\ 1 \in DOMAIN todo
           /\ Tail(todo) \in Seq(Pairs)
           /\ \A i \in DOMAIN Tail(todo) : i + 1 \in DOMAIN todo /\ Tail(todo)[i] = todo[i + 1]
           /\ (Ordered(todo) => /\ Ordered(Tail(todo))
                                /\ \A i \in DOMAIN Tail(todo) : Before(todo[1], Tail(todo)[i]))
<1>1. Len(todo) \in Nat \ {0} /\ DOMAIN todo = 1..Len(todo)
  BY EmptySeq, LenProperties
<1>2. /\ Head(todo) = todo[1] /\ Tail(todo) \in Seq(Pairs) /\ Len(Tail(todo)) = Len(todo) - 1
      /\ \A i \in 1..Len(Tail(todo)) : Tail(todo)[i] = todo[i + 1]
  BY HeadTailProperties
<1> DEFINE t == Tail(todo)
<1>3. DOMAIN t = 1..(Len(todo) - 1)
  BY <1>1, <1>2, LenProperties
<1> HIDE DEF t
<1>4. \A i \in DOMAIN t : i \in Nat /\ 1 < i + 1 /\ i + 1 \in DOMAIN todo /\ t[i] = todo[i + 1]
  BY <1>1, <1>2, <1>3 DEF t
<1>5. 1 \in DOMAIN todo /\ todo[1] \in Pairs
  BY <1>1, ElementOfSeq
<1>6. ASSUME Ordered(todo)
      PROVE  Ordered(t) /\ \A i \in DOMAIN t : Before(todo[1], t[i])
  <2>1. ASSUME NEW i \in DOMAIN t, NEW k \in DOMAIN t, i < k PROVE Before(t[i], t[k])
    <3>1. i + 1 < k + 1
      BY <1>4, <2>1
    <3> QED
      BY <1>4, <1>6, <3>1 DEF Ordered
  <2>2. ASSUME NEW i \in DOMAIN t PROVE Before(todo[1], t[i])
    BY <1>4, <1>5, <1>6 DEF Ordered
  <2> QED
    BY <2>1, <2>2 DEF Ordered
<1> QED
  BY <1>2, <1>4, <1>5, <1>6 DEF t

\* The next measurement begins.
LEMMA NextMeasurementKeeps ==
    ASSUME ReportInv, NextMeasurement PROVE ReportInv'
<1> DEFINE h == job.todo[1]
           g == h[1]
           c == h[2]
           n == Len(report.attempts) + 1
           new == NewAttempt(n, g, c)
           f == ExpectedFp(job.kind, report, g, c)
           d == DeleteFirst(job.kind, report, g, c)
           t == Tail(job.todo)
           j == [job EXCEPT !.todo = t, !.fp = f, !.delete = d]
           m == <<"cached_miss", c>>
<1>1. /\ pc = "next" /\ pc' = "launch" /\ job.todo # <<>> /\ tries' = <<>>
      /\ UNCHANGED <<disk, cache, world, report, failure, server, left, budget>>
  BY DEF NextMeasurement
<1>2. job \in Jobs /\ job.todo \in Seq(Pairs) /\ job.kind \in {"benchmark", "rerun"}
  BY <1>1 DEF ReportInv, Types, Jobs
<1>3. /\ Head(job.todo) = h /\ h \in Pairs /\ 1 \in DOMAIN job.todo /\ t \in Seq(Pairs)
      /\ \A i \in DOMAIN t : i + 1 \in DOMAIN job.todo /\ t[i] = job.todo[i + 1]
      /\ (Ordered(job.todo) => Ordered(t) /\ \A i \in DOMAIN t : Before(h, t[i]))
  BY <1>1, <1>2, HeadAndTail
<1>4. /\ g \in {"native", "cached_miss", "cached_hit"} /\ c \in Cases /\ h = <<g, c>>
      /\ m \in Pairs
  BY <1>3, PairsAre
<1>5. job' = j /\ cur' = new
  BY <1>3 DEF NextMeasurement
<1>6. /\ Right(report) /\ disk = report
      /\ (job.kind = "benchmark" => report.status = "running")
      /\ (job.kind = "rerun" => report.status \in {"complete", "rerun_failed"})
  BY <1>1 DEF ReportInv, Reporting
<1>7. report \in Reports /\ Len(report.attempts) \in Nat /\ n \in Nat \ {0}
      /\ (report.runs[m] # NoRun => report.runs[m] \in AttemptRecords /\ report.runs[m].fp # NoFp)
      /\ (job.kind = "rerun" => report.runs[m] # NoRun)
  BY <1>4, <1>6, ReportFields DEF Right, Full, RunIsRight
<1>8. f \in Fps /\ d \in Fps /\ NoFp \in Fps
  <2>1. NoFp \in Fps
    BY DEF Fps
  <2>2. report.runs[m] # NoRun => report.runs[m].fp \in Fps
    BY <1>7, RecordFields
  <2> QED
    BY <2>1, <2>2 DEF ExpectedFp, DeleteFirst
<1>9. /\ new \in AttemptRecords /\ new.id = n /\ new.group = g /\ new.case = c
      /\ new.status = "running" /\ ~new.accepted /\ PairOf(new) = h
  BY <1>4, <1>7, <1>8 DEF NewAttempt, AttemptRecords, PairOf
<1>10. job.kind = "benchmark" =>
          /\ Ordered(job.todo)
          /\ \A i \in DOMAIN job.todo :
                /\ report.runs[job.todo[i]] = NoRun
                /\ (job.todo[i][1] = "cached_miss" => Cold(job.todo[i][2]))
  BY <1>1, <1>6 DEF ReportInv, Todo
<1>11. /\ (g = "cached_miss" => d = f)
       /\ (job.kind = "benchmark" /\ g = "cached_miss" => f = NoFp /\ Cold(c))
       /\ (job.kind = "rerun" /\ g = "cached_miss" => f # NoFp)
  <2>1. job.kind = "rerun" /\ g = "cached_miss" => f = report.runs[m].fp /\ d = f
    BY <1>7 DEF ExpectedFp, DeleteFirst
  <2>2. job.kind = "benchmark" /\ g = "cached_miss" => report.runs[m] = NoRun /\ Cold(c)
    BY <1>3, <1>4, <1>10
  <2>3. job.kind = "benchmark" /\ g = "cached_miss" => f = NoFp /\ d = NoFp
    BY <2>2 DEF ExpectedFp, DeleteFirst
  <2> QED
    BY <1>2, <1>7, <2>1, <2>2, <2>3
<1>12. /\ j \in Jobs /\ j.kind = job.kind /\ j.todo = t /\ j.fp = f /\ j.delete = d
  <2> HIDE DEF t, f, d
  <2> QED
    BY <1>2, <1>3, <1>8 DEF Jobs
<1>13. f = ExpectedFp(job.kind, report, g, c)
  OBVIOUS
<1> HIDE DEF h, g, c, n, new, f, d, t, j
<1>14. InAttempt' /\ pc' \in Attempting
  BY <1>1 DEF InAttempt, Attempting, Starting
<1>15. Types'
  <2>1. tries' \in Seq(AttemptRecords) /\ Len(tries') < MaxAttempts
    BY <1>1, BenchmarkAssumption
  <2> QED
    BY <1>1, <1>2, <1>5, <1>9, <1>12, <1>14, <2>1 DEF ReportInv, Types, PCs, budget
<1>16. Reporting'
  BY <1>1, <1>5, <1>6, <1>12, <1>14 DEF ReportInv, Reporting, budget
<1>17. Todo'
  <2>1. \A x : Cold(x)' <=> Cold(x)
    BY <1>1 DEF Cold
  <2>2. PairOf(cur)' = h
    BY <1>5, <1>9 DEF PairOf
  <2>3. job.kind = "benchmark" =>
          /\ Ordered(t)
          /\ \A i \in DOMAIN t : /\ report.runs[t[i]] = NoRun
                                 /\ (t[i][1] = "cached_miss" => Cold(t[i][2]))
                                 /\ Before(h, t[i])
          /\ report.runs[h] = NoRun
    BY <1>3, <1>10 DEF h
  <2>4. job'.kind = job.kind /\ job'.todo = t /\ report' = report
    BY <1>1, <1>5, <1>12
  <2> QED
    BY <2>1, <2>2, <2>3, <2>4 DEF Todo
<1>18. Attempted'
  <2>1. Len(tries') = 0 /\ DOMAIN tries' = {} /\ tries' \in Seq(AttemptRecords)
    BY <1>1
  <2>2. Tried(report, tries')
    BY <2>1 DEF Tried
  <2>3. cur'.id = Len(report.attempts) + Len(tries') + 1
    BY <1>5, <1>7, <1>9, <2>1 DEF n
  <2> QED
    BY <1>1, <1>5, <1>9, <2>2, <2>3 DEF Attempted
<1>19. Expected'
  <2>1. /\ job'.kind = job.kind /\ job'.fp = f /\ job'.delete = d /\ report' = report
        /\ cur'.group = g /\ cur'.case = c
    BY <1>1, <1>5, <1>9, <1>12
  <2> QED
    BY <1>11, <1>13, <2>1 DEF Expected
<1>20. Uncached'
  <2>1. \A x : Cold(x)' <=> Cold(x)
    BY <1>1 DEF Cold
  <2>2. /\ job'.fp = f /\ cur'.group = g /\ cur'.case = c
    BY <1>5, <1>9, <1>12
  <2> QED
    BY <1>1, <1>2, <1>11, <2>1, <2>2 DEF Uncached
<1>21. Measured'
  BY <1>1, <1>5, <1>9 DEF Measured
<1>22. Serving'
  BY <1>1 DEF ReportInv, Serving, Starting, Stopping
<1>23. Unsaved'
  BY <1>1 DEF ReportInv, Unsaved, Serving, NoServer
<1> QED
  BY <1>15, <1>16, <1>17, <1>18, <1>19, <1>20, <1>21, <1>22, <1>23 DEF ReportInv

\* The session is about to end, with the file and the report as they are.
LEMMA EndingKeeps ==
    ASSUME ReportInv, pc # "off", pc' = "exit", server.state # "alive" \/ pc = "write",
           UNCHANGED <<disk, cache, world, report, job, cur, tries, failure, server, left, sessions>>,
           faults' \in Nat, faults' >= faults
    PROVE  ReportInv'
<1>1. ~InAttempt' /\ pc' \notin Attempting \cup {"off", "next", "write"}
  BY DEF InAttempt, Attempting, Starting, Stopping
<1>2. Types'
  BY <1>1 DEF ReportInv, Types, PCs
<1>3. Reporting'
  BY <1>1 DEF ReportInv, Reporting
<1>4. Todo' /\ Attempted' /\ Expected' /\ Uncached' /\ Measured' /\ Unsaved'
  BY <1>1 DEF Todo, Attempted, Expected, Uncached, Measured, Unsaved, Attempting
<1>5. Serving'
  <2>1. server.state = "alive" => cur.status = "failed" /\ faults > 0
    BY DEF ReportInv, Serving
  <2>2. faults > 0 => faults' > 0
    BY DEF ReportInv, Types
  <2> QED
    BY <1>1, <2>1, <2>2 DEF Serving, Starting, Stopping
<1> QED
  BY <1>2, <1>3, <1>4, <1>5 DEF ReportInv

\* All measurements are done: a benchmark is complete, and is written once more.
LEMMA FinishKeeps ==
    ASSUME ReportInv, Finish PROVE ReportInv'
<1>1. /\ pc = "next" /\ job.todo = <<>>
      /\ UNCHANGED <<disk, cache, world, job, cur, tries, failure, server, left, budget>>
  BY DEF Finish
<1>2. server = NoServer /\ NoServer.state = "none" /\ faults \in Nat
  BY <1>1 DEF ReportInv, Serving, Types, NoServer
<1>3. CASE job.kind = "benchmark" /\ report.status = "running" /\ Summarisable(report)
  <2> DEFINE e == [report EXCEPT !.status = "complete"]
  <2>1. report' = e /\ pc' = "write"
    BY <1>3 DEF Finish
  <2>2. /\ Right(report) /\ report.bench <= sessions /\ disk = report
        /\ (disk # NoReport => Right(disk) /\ disk.bench <= sessions)
    BY <1>1 DEF ReportInv, Reporting
  <2>3. /\ e \in Reports /\ e.status = "complete" /\ e.bench = report.bench /\ e.env = report.env
        /\ e.runs = report.runs /\ e.attempts = report.attempts
    BY <2>2 DEF Right, Reports
  <2> HIDE DEF e
  <2>4. Right(e)
    <3>1. Trail(e)
      BY <2>2, <2>3 DEF Right, Trail
    <3>2. Full(report)
      BY <1>3 DEF Summarisable, Full
    <3> QED
      BY <2>2, <2>3, <3>1, <3>2, StaysRight
  <2>5. Preserves(disk, e)
    BY <1>3, <2>2 DEF Preserves, Loadable
  <2>6. ~InAttempt' /\ pc' \notin Attempting
    BY <2>1 DEF InAttempt, Attempting, Starting, Stopping
  <2>7. Types'
    BY <1>1, <2>1, <2>6 DEF ReportInv, Types, PCs, budget
  <2>8. Reporting'
    BY <1>1, <1>3, <2>1, <2>2, <2>3, <2>4, <2>5, <2>6 DEF Reporting, budget
  <2>9. Todo'
    <3>1. DOMAIN job.todo = {} /\ Ordered(job.todo)
      BY <1>1 DEF Ordered
    <3> QED
      BY <1>1, <2>6, <3>1 DEF Todo
  <2>10. Attempted' /\ Expected' /\ Uncached' /\ Measured' /\ Unsaved'
    BY <2>1, <2>6 DEF Attempted, Expected, Uncached, Measured, Unsaved, Attempting
  <2>11. Serving'
    BY <1>1, <1>2, <2>1 DEF Serving, Starting, Stopping
  <2> QED
    BY <2>7, <2>8, <2>9, <2>10, <2>11 DEF ReportInv
<1>4. CASE ~(job.kind = "benchmark" /\ report.status = "running" /\ Summarisable(report))
  <2>1. report' = report /\ pc' = "exit"
    BY <1>4 DEF Finish
  <2>2. faults' \in Nat /\ faults' >= faults /\ sessions' = sessions
    BY <1>1, <1>2 DEF budget
  <2> QED
    BY <1>1, <1>2, <2>1, <2>2, EndingKeeps
<1> QED
  BY <1>3, <1>4

\* The report is written.
LEMMA WriteKeeps ==
    ASSUME ReportInv, Write PROVE ReportInv'
<1>1. /\ pc = "write" /\ disk' = report
      /\ pc' = (IF report.status = "running" \/ (job.kind = "rerun" /\ report.status = "complete")
                THEN "next" ELSE "exit")
      /\ UNCHANGED <<cache, world, report, job, cur, tries, failure, server, left, budget>>
  BY DEF Write
<1>2. /\ Right(report) /\ report.bench <= sessions
      /\ (job.kind = "rerun" => report.status \in {"complete", "rerun_failed"})
  BY <1>1 DEF ReportInv, Reporting
<1>3. ~InAttempt' /\ pc' \notin Attempting \cup {"off", "write"} /\ pc' \in {"next", "exit"}
  BY <1>1 DEF InAttempt, Attempting, Starting, Stopping
<1>4. Types'
  <2>1. disk' \in Reports
    BY <1>1, <1>2 DEF Right
  <2> QED
    BY <1>1, <1>3, <2>1 DEF ReportInv, Types, PCs, budget
<1>5. Reporting'
  <2>1. pc' = "next" /\ job.kind = "benchmark" => report.status = "running"
    BY <1>1
  <2> QED
    BY <1>1, <1>2, <1>3, <2>1 DEF Reporting, budget
<1>6. Todo'
  <2>1. job.kind = "benchmark" /\ report.status = "running" =>
          /\ Ordered(job.todo)
          /\ \A i \in DOMAIN job.todo :
                /\ report.runs[job.todo[i]] = NoRun
                /\ (job.todo[i][1] = "cached_miss" => Cold(job.todo[i][2]))
    BY <1>1 DEF ReportInv, Todo
  <2>2. \A x : Cold(x)' <=> Cold(x)
    BY <1>1 DEF Cold
  <2> QED
    BY <1>1, <1>3, <2>1, <2>2 DEF Todo
<1>7. Attempted' /\ Expected' /\ Uncached' /\ Measured' /\ Unsaved'
  BY <1>3 DEF Attempted, Expected, Uncached, Measured, Unsaved, Attempting
<1>8. Serving'
  <2>1. server.state = "alive" => cur.status = "failed" /\ faults > 0
    BY <1>1 DEF ReportInv, Serving
  <2>2. pc' = "next" => server = NoServer
    BY <1>1 DEF ReportInv, Serving
  <2> QED
    BY <1>1, <1>3, <2>1, <2>2 DEF Serving, Starting, Stopping, budget
<1> QED
  BY <1>4, <1>5, <1>6, <1>7, <1>8 DEF ReportInv

\* Between sessions all that is left is the file, the cache and perhaps a server.
LEMMA OffKeeps ==
    ASSUME ReportInv, pc' = "off", report' = NoReport, job' = IdleJob, cur' = Idle,
           tries' = <<>>, failure' = "none", server' = NoServer,
           orphan' \in {"none", "listening", "mute"},
           late' \subseteq late \cup Unfinished,
           UNCHANGED <<disk, cache, stray, world, sessions>>, faults' \in Nat
    PROVE  ReportInv'
<1>1. ~InAttempt' /\ pc' \notin Attempting
  BY DEF InAttempt, Attempting, Starting, Stopping
<1>2. /\ NoServer \in Servers /\ NoServer.state = "none" /\ IdleJob \in Jobs
      /\ NoServer.saving = {}
      /\ <<>> \in Seq(AttemptRecords) /\ Len(<<>>) < MaxAttempts
  <2>1. NoServer \in Servers /\ NoServer.state = "none" /\ NoServer.saving = {}
    BY DEF NoServer, Servers, Events, Fps
  <2>2. IdleJob \in Jobs
    BY JobsAre, EmptySeq
  <2> QED
    BY <2>1, <2>2, BenchmarkAssumption
<1>3. Types'
  <2>1. late' \subseteq Fps \ {NoFp} /\ \A f \in late' : f[1] <= sessions
    BY UnfinishedIs DEF ReportInv, Types
  <2> QED
    BY <1>1, <1>2, <2>1 DEF ReportInv, Types, PCs
<1>4. Reporting'
  BY <1>1 DEF ReportInv, Reporting
<1>5. Todo' /\ Attempted' /\ Expected' /\ Uncached' /\ Measured' /\ Unsaved'
  BY <1>1 DEF Todo, Attempted, Expected, Uncached, Measured, Unsaved, Attempting
<1>6. Serving'
  BY <1>2 DEF Serving, Starting, Stopping
<1> QED
  BY <1>3, <1>4, <1>5, <1>6 DEF ReportInv

\* The script exits, is killed, or the machine goes down.
LEMMA LeavingKeeps ==
    ASSUME ReportInv, Exit \/ Killed \/ Reboot PROVE ReportInv'
<1>1. /\ pc' = "off" /\ report' = NoReport /\ job' = IdleJob /\ cur' = Idle
      /\ tries' = <<>> /\ failure' = "none" /\ server' = NoServer
      /\ UNCHANGED <<disk, cache, stray, world, sessions>>
  BY DEF Exit, Killed, Reboot, Leave, budget
<1>2. faults' \in Nat
  BY DEF Exit, Killed, Reboot, Fault, budget, ReportInv, Types
<1>3. orphan' \in {"none", "listening", "mute"} /\ late' \subseteq late \cup Unfinished
  BY DEF Exit, Killed, Reboot, Leave, ReportInv, Types
<1> QED
  BY <1>1, <1>2, <1>3, OffKeeps

-----------------------------------------------------------------------------
(* What happens around.                                                    *)

\* The world moves: a server exits, an entry goes, ComfyUI is updated.
LEMMA AroundKeeps ==
    ASSUME ReportInv, UNCHANGED <<disk, control, sessions>>,
           cache' \subseteq cache \cup late, cache' \ stray' \subseteq cache \ stray,
           late' \subseteq late, stray' \subseteq stray \cup late, world' \in Worlds,
           orphan' \in {"none", "listening", "mute"}, faults' \in Nat, faults' >= faults,
           \/ server' = server
           \/ /\ server.state = "alive"
              /\ server' = [server EXCEPT !.state = "dead", !.saving = {}]
    PROVE  ReportInv'
<1>1. UNCHANGED <<disk, pc, report, job, cur, tries, failure, sessions>>
  BY DEF control
<1>2. server \in Servers /\ faults \in Nat
  BY DEF ReportInv, Types
<1>3. /\ server' \in Servers /\ server'.env = server.env /\ server'.fp = server.fp
      /\ server'.event = server.event /\ server'.abi = server.abi
      /\ server'.saving \subseteq server.saving
      /\ (server = NoServer => server' = NoServer)
      /\ (server.state # "none" => server'.state # "none")
      /\ (server'.state = "alive" => server.state = "alive")
  <2>1. CASE server' = server
    BY <1>2, <2>1
  <2>2. CASE /\ server.state = "alive"
             /\ server' = [server EXCEPT !.state = "dead", !.saving = {}]
    <3>1. server # NoServer
      BY <2>2 DEF NoServer
    <3> QED
      BY <1>2, <2>2, <3>1 DEF Servers
  <2> QED
    BY <2>1, <2>2
<1>4. \A c : Cold(c) => Cold(c)'
  BY <1>1 DEF Cold
<1>5. InAttempt' = InAttempt
  BY <1>1 DEF InAttempt
<1>6. Types'
  BY <1>1, <1>3, <1>5 DEF ReportInv, Types
<1>7. Reporting'
  BY <1>1 DEF ReportInv, Reporting
<1>8. Todo'
  <2>1. PairOf(cur)' = PairOf(cur)
    BY <1>1 DEF PairOf
  <2> QED
    BY <1>1, <1>4, <1>5, <2>1 DEF ReportInv, Todo
<1>9. Attempted'
  BY <1>1, <1>5 DEF ReportInv, Attempted
<1>10. Expected'
  BY <1>1, <1>5 DEF ReportInv, Expected
<1>11. Uncached'
  BY <1>1, <1>4 DEF ReportInv, Uncached
<1>12. Measured'
  BY <1>1, <1>3, <1>5 DEF ReportInv, Measured
<1>13. Serving'
  <2>1. faults > 0 => faults' > 0
    BY <1>2
  <2> QED
    BY <1>1, <1>3, <2>1 DEF ReportInv, Serving
<1>14. Unsaved'
  <2>1. Saves' = Saves
    BY <1>1, <1>3 DEF Saves, KeyNow, FpOf
  <2> QED
    BY <1>1, <1>3, <1>5, <2>1 DEF ReportInv, Unsaved
<1> QED
  BY <1>6, <1>7, <1>8, <1>9, <1>10, <1>11, <1>12, <1>13, <1>14 DEF ReportInv

\* An attempt's server saves what nobody waits for.
LEMMA ServerSavesKeeps ==
    ASSUME ReportInv, ServerSaves PROVE ReportInv'
<1> DEFINE s == [server EXCEPT !.saving = {}]
<1>1. /\ server.saving # {} /\ cache' = cache \cup server.saving /\ server' = s
      /\ UNCHANGED <<disk, world, pc, report, job, cur, tries, failure, left, budget>>
  BY DEF ServerSaves, control
<1>2. /\ server \in Servers /\ s \in Servers /\ s.saving = {} /\ s.state = server.state
      /\ s.env = server.env /\ s.abi = server.abi /\ s.fp = server.fp /\ s.event = server.event
      /\ server # NoServer
  BY <1>1 DEF ReportInv, Types, Servers, NoServer
<1> HIDE DEF s
<1>3. pc \notin Starting /\ pc \notin {"off", "next"} /\ pc \in PCs
  BY <1>1, <1>2 DEF ReportInv, Types, Unsaved, Serving
<1>4. Uncached' /\ Measured'
  <2>1. Uncached'
    BY <1>1, <1>3 DEF Uncached, Starting
  <2>2. Measured'
    BY <1>1, <1>3 DEF ReportInv, Measured, InAttempt, Starting
  <2> QED
    BY <2>1, <2>2
<1>5. Serving'
  BY <1>1, <1>2, <1>3 DEF ReportInv, Serving, Starting, budget
<1>6. CASE InAttempt
  <2>1. SameAttempt
    BY <1>1, <1>2, <1>3, <1>6 DEF SameAttempt, ReportInv, Types, Unsaved, InAttempt, budget
  <2> QED
    BY <1>4, <1>5, <2>1, AttemptFrame DEF ReportInv
<1>7. CASE ~InAttempt
  <2>1. pc \in {"write", "exit"} /\ ~InAttempt'
    BY <1>1, <1>3, <1>7 DEF PCs, InAttempt
  <2>2. Types'
    BY <1>1, <1>2, <2>1 DEF ReportInv, Types, Servers, budget
  <2>3. Reporting'
    BY <1>1 DEF ReportInv, Reporting, budget
  <2>4. ~(pc = "write" /\ report.status = "running")
    BY <1>2 DEF ReportInv, Serving
  <2>5. Todo'
    BY <1>1, <1>7, <2>1, <2>4 DEF Todo, InAttempt
  <2>6. Attempted' /\ Expected'
    BY <2>1 DEF Attempted, Expected
  <2>7. Unsaved'
    BY <1>1, <1>2, <2>1 DEF Unsaved
  <2> QED
    BY <1>4, <1>5, <2>2, <2>3, <2>5, <2>6, <2>7 DEF ReportInv
<1> QED
  BY <1>6, <1>7

\* A signal ends an attempt, is noted by the cleanup, or ends the script.
LEMMA SignalKeeps ==
    ASSUME ReportInv, Signal PROVE ReportInv'
<1>1. UNCHANGED <<disk, cache, world, sessions, faults>> /\ faults \in Nat
  BY DEF Signal, ReportInv, Types
<1>2. CASE /\ pc \in {"launch", "ready", "delete", "prepare", "execute", "verify"}
           /\ \E f \in {"shutdown", "error"} : Raise(f)
           /\ server' = Abandoned /\ UNCHANGED <<report, job, tries, left>>
  <2>1. PICK f \in {"shutdown", "error"} : Raise(f)
    BY <1>2
  <2> QED
    BY <1>1, <1>2, <2>1, RaiseKeeps DEF Starting
<1>3. CASE /\ pc = "release" /\ CleanupError /\ pc' = "settle"
           /\ UNCHANGED <<report, job, tries, server, left>>
  <2>1. server.state = "alive" => faults > 0
    BY <1>3 DEF ReportInv, Serving
  <2> QED
    BY <1>1, <1>3, <2>1, CleanupErrorKeeps
<1>4. CASE pc \in Stopping \cup {"next", "write", "settle", "exit"} /\ Leave
  <2>1. /\ orphan' \in {"none", "listening", "mute"} /\ late' \subseteq late \cup Unfinished
        /\ stray' = stray
    BY <1>4 DEF Leave, ReportInv, Types
  <2> QED
    BY <1>1, <1>4, <2>1, OffKeeps DEF Leave
<1> QED
  BY <1>2, <1>3, <1>4 DEF Signal

-----------------------------------------------------------------------------
(* The invariant is inductive.                                             *)

\* The invariant holds at first.
LEMMA InitInv == Init => ReportInv
<1> SUFFICES ASSUME Init PROVE ReportInv
  OBVIOUS
<1>1. /\ disk = NoReport /\ cache = {} /\ world = [env |-> 0, abi |-> 0] /\ pc = "off"
      /\ report = NoReport /\ job = IdleJob /\ cur = Idle /\ tries = <<>> /\ failure = "none"
      /\ server = NoServer /\ orphan = "none" /\ sessions = 0 /\ faults = 0
      /\ late = {} /\ stray = {}
  BY DEF Init
<1>2. ~InAttempt /\ pc \notin Attempting
  BY <1>1 DEF InAttempt, Attempting, Starting, Stopping
<1>3. NoServer \in Servers /\ NoServer.state = "none" /\ NoServer.saving = {}
  BY DEF NoServer, Servers, Events, Fps
<1>4. IdleJob \in Jobs
  BY JobsAre, EmptySeq
<1>5. world \in Worlds
  BY <1>1 DEF Worlds
<1>6. tries \in Seq(AttemptRecords) /\ Len(tries) < MaxAttempts /\ sessions \in 0..MaxSessions
  BY <1>1, BenchmarkAssumption
<1>7. Types
  BY <1>1, <1>2, <1>3, <1>4, <1>5, <1>6 DEF Types, PCs
<1>8. Reporting /\ Todo /\ Attempted /\ Expected /\ Uncached /\ Measured /\ Unsaved
  BY <1>1, <1>2 DEF Reporting, Todo, Attempted, Expected, Uncached, Measured, Unsaved, Attempting
<1>9. Serving
  BY <1>1, <1>3 DEF Serving, Starting, Stopping
<1> QED
  BY <1>7, <1>8, <1>9 DEF ReportInv

\* Every step keeps it.
LEMMA StepKeeps == ReportInv /\ [Next]_vars => ReportInv'
<1> SUFFICES ASSUME ReportInv, [Next]_vars PROVE ReportInv'
  OBVIOUS
<1>0. faults \in Nat /\ faults >= faults /\ world \in Worlds /\ orphan \in {"none", "listening", "mute"}
  BY DEF ReportInv, Types
<1>1. CASE Session
  BY <1>1, StartBenchmarkKeeps, StartRerunKeeps, NextMeasurementKeeps, FinishKeeps, WriteKeeps,
     LeavingKeeps DEF Session
<1>2. CASE Attempt
  BY <1>2, LaunchKeeps, ReadyKeeps, DeleteKeeps, PrepareKeeps, ExecuteKeeps, VerifyKeeps,
     FailureKeeps DEF Attempt
<1>3. CASE Cleanup
  BY <1>3, StoppingKeeps, ReleaseKeeps, SettleKeeps DEF Cleanup
<1>4. CASE ServerExits
  <2>1. faults' \in Nat /\ faults' >= faults
    BY <1>0, <1>4 DEF ServerExits, Fault
  <2> QED
    BY <1>0, <1>4, <2>1, AroundKeeps DEF ServerExits
<1>5. CASE OrphanMoves
  BY <1>0, <1>5, AroundKeeps DEF OrphanMoves, budget
<1>10. CASE OrphanSaves
  BY <1>0, <1>10, AroundKeeps DEF OrphanSaves, budget
<1>6. CASE Update
  <2>1. faults' \in Nat /\ faults' >= faults
    BY <1>0, <1>6 DEF Update, Fault
  <2> QED
    BY <1>0, <1>6, <2>1, AroundKeeps DEF Update
<1>7. CASE DeletedByHand
  <2>1. faults' \in Nat /\ faults' >= faults /\ cache' \subseteq cache
    BY <1>0, <1>7 DEF DeletedByHand, Fault
  <2> QED
    BY <1>0, <1>7, <2>1, AroundKeeps DEF DeletedByHand
<1>8. CASE WriteFails
  <2>1. faults' \in Nat /\ faults' >= faults
    BY <1>0, <1>8 DEF WriteFails, Fault
  <2> QED
    BY <1>8, <2>1, EndingKeeps DEF WriteFails
<1>9. CASE UNCHANGED vars
  BY <1>0, <1>9, AroundKeeps DEF vars, control, budget
<1> QED
  BY <1>1, <1>2, <1>3, <1>4, <1>5, <1>6, <1>7, <1>8, <1>9, <1>10, SignalKeeps, LeavingKeeps,
     ServerSavesKeeps DEF Next, Around

\* Every reachable state of the orchestrator satisfies the invariant.
THEOREM Invariance == Spec => []ReportInv
BY InitInv, StepKeeps, PTL DEF Spec

-----------------------------------------------------------------------------
(* What it gives.                                                          *)

\* All variables keep their types (TypeOK).
THEOREM TypeCorrect == Spec => []TypeOK
<1>1. ReportInv => TypeOK
  <2> SUFFICES ASSUME ReportInv PROVE TypeOK
    OBVIOUS
  <2>1. disk \in Reports \cup {NoReport} /\ report \in Reports \cup {NoReport}
    BY DEF ReportInv, Types, Reporting, Right
  <2>2. job \in Jobs /\ server \in Servers
    BY DEF ReportInv, Types
  <2>3. /\ job.kind \in {"none", "benchmark", "rerun"} /\ job.fp \in Fps /\ job.delete \in Fps
        /\ job.todo \in Seq(Pairs)
        /\ server.state \in {"none", "alive", "dead"} /\ server.event \in Events
        /\ server.saving \subseteq Fps \ {NoFp}
    BY <2>2 DEF Jobs, Servers
  <2> QED
    BY <2>1, <2>3 DEF ReportInv, Types, TypeOK
<1> QED
  BY Invariance, <1>1, PTL

\* A report that says it is whole is: one accepted run per pair, and no other in the
\* trail, on one environment, each what its group is named for (WholeReport).
THEOREM ReportIsWhole == Spec => []WholeReport
<1>1. ReportInv => WholeReport
  <2> SUFFICES ASSUME ReportInv, disk # NoReport, disk.status \in {"complete", "rerun_failed"}
               PROVE  OneRunEach(disk) /\ Comparable(disk) /\ Genuine(disk)
    BY DEF WholeReport
  <2>1. Right(disk) /\ Full(disk)
    BY DEF ReportInv, Reporting, Right
  <2>2. \A p \in Pairs : disk.runs[p] # NoRun /\ RunIsRight(disk, p)
    BY <2>1 DEF Right, Full
  <2>3. OneRunEach(disk)
    <3> SUFFICES ASSUME NEW p \in Pairs
                 PROVE  /\ disk.runs[p] # NoRun /\ RunOK(disk.runs[p])
                        /\ PairOf(disk.runs[p]) = p
                        /\ \A i \in DOMAIN disk.attempts :
                              (disk.attempts[i].accepted /\ PairOf(disk.attempts[i]) = p)
                                 <=> disk.attempts[i] = disk.runs[p]
      BY DEF OneRunEach, PairOf
    <3>1. disk.runs[p] # NoRun /\ RunOK(disk.runs[p]) /\ PairOf(disk.runs[p]) = p
      BY <2>2 DEF RunIsRight
    <3>2. disk.runs[p].accepted
      BY <3>1 DEF RunOK
    <3>3. \A i \in DOMAIN disk.attempts :
             disk.attempts[i].accepted => disk.runs[PairOf(disk.attempts[i])] = disk.attempts[i]
      BY <2>1 DEF Right, Trail
    <3> QED
      BY <3>1, <3>2, <3>3
  <2>4. Comparable(disk)
    <3>1. \A p \in Pairs : disk.runs[p].env = disk.env
      BY <2>2 DEF RunIsRight
    <3>2. ASSUME NEW c \in Cases
          PROVE  /\ disk.runs[<<"cached_miss", c>>].fp # NoFp
                 /\ disk.runs[<<"cached_hit", c>>].fp = disk.runs[<<"cached_miss", c>>].fp
      <4>1. <<"cached_miss", c>> \in Pairs /\ <<"cached_hit", c>> \in Pairs
        BY PairsAre
      <4>2. disk.runs[<<"cached_miss", c>>].fp # NoFp
        BY <2>2, <4>1 DEF RunIsRight
      <4>3. HitIsOfMiss(disk, c)
        BY <2>1 DEF Right
      <4> QED
        BY <2>2, <4>1, <4>2, <4>3 DEF HitIsOfMiss
    <3> QED
      BY <3>1, <3>2 DEF Comparable
  <2>5. Genuine(disk)
    <3> SUFFICES ASSUME NEW p \in Pairs PROVE disk.runs[p].encoded = (p[1] # "cached_hit")
      BY DEF Genuine
    <3>1. disk.runs[p].encoded <=> p[1] # "cached_hit"
      BY <2>2 DEF RunIsRight
    <3>2. disk.runs[p].encoded \in BOOLEAN
      BY <2>1, <2>2, ReportFields, RecordFields DEF Right
    <3> QED
      BY <3>1, <3>2
  <2> QED
    BY <2>3, <2>4, <2>5
<1> QED
  BY Invariance, <1>1, PTL

\* A MISS is measured cold (MissStartsCold).
THEOREM MissesAreCold == Spec => []MissStartsCold
<1>1. ReportInv => MissStartsCold
  <2> SUFFICES ASSUME ReportInv, pc = "execute", cur.group = "cached_miss",
                      job.fp \in {NoFp, KeyNow}
               PROVE  KeyNow \notin cache \ stray
    BY DEF MissStartsCold
  <2>1. /\ (job.fp = NoFp => Cold(cur.case)) /\ job.delete \notin cache \ stray
        /\ job.delete = job.fp
    BY DEF ReportInv, Uncached, Expected, InAttempt, Attempting, Starting
  <2>2. KeyNow[1] = report.bench /\ KeyNow[2] = cur.case
    BY SavesAre DEF ReportInv, InAttempt, Attempting, Starting
  <2> QED
    BY <2>1, <2>2 DEF Cold
<1> QED
  BY Invariance, <1>1, PTL

\* A server is left to itself only where the code cannot stop it (ServerNotLeft).
THEOREM ServerIsStopped == Spec => ServerNotLeft
<1> DEFINE Left == orphan = "none" /\ orphan' # "none" =>
                      \/ pc \in Stopping
                      \/ faults' = faults + 1
                      \/ cur.status = "failed" /\ faults > 0 /\ pc \in {"settle", "write", "exit"}
<1>1. ReportInv /\ [Next]_vars => [Left]_vars
  <2> SUFFICES ASSUME ReportInv, Next, orphan = "none", orphan' # "none"
               PROVE  \/ pc \in Stopping
                      \/ faults' = faults + 1
                      \/ cur.status = "failed" /\ faults > 0 /\ pc \in {"settle", "write", "exit"}
    OBVIOUS
  <2>1. Exit \/ Killed \/ Signal
    BY DEF Next, Session, Attempt, Cleanup, Around, StartBenchmark, StartRerun, NextMeasurement,
       Finish, Write, Launch, Ready, DeleteEntry, Prepare, Execute, ExecuteUnsaved, ExecuteFails,
       Verify, StepFails, ServerGone, Stop, Reap, Escalate, GiveUp, Release, Settle, ServerExits,
       OrphanMoves, ServerSaves, OrphanSaves, Update, DeletedByHand, WriteFails, Reboot
  <2>2. CASE Killed
    BY <2>2 DEF Killed, Fault
  <2>3. CASE Exit \/ Signal
    <3>1. Leave /\ pc \in Stopping \cup {"next", "write", "settle", "exit"}
      BY <2>3 DEF Exit, Signal
    <3>2. server.state = "alive"
      BY <3>1 DEF Leave
    <3>3. pc # "next"
      BY <3>2 DEF ReportInv, Serving, NoServer
    <3>4. pc \in {"write", "settle", "exit"} => cur.status = "failed" /\ faults > 0
      BY <3>2 DEF ReportInv, Serving
    <3> QED
      BY <3>1, <3>3, <3>4
  <2> QED
    BY <2>1, <2>2, <2>3
<1> QED
  BY Invariance, <1>1, PTL DEF Spec, ServerNotLeft

\* Once whole, the file changes at most one run at a time, none when a rerun failed,
\* loses no attempt and stays whole (ResultsPreserved).
THEOREM ResultsAreKept == Spec => ResultsPreserved
<1>1. ReportInv /\ [Next]_vars => [Preserves(disk, disk')]_vars
  <2> SUFFICES ASSUME ReportInv, Next PROVE Preserves(disk, disk')
    OBVIOUS
  <2>1. CASE Write
    <3>1. pc = "write" /\ disk' = report
      BY <2>1 DEF Write
    <3>2. Preserves(disk, report)
      BY <3>1 DEF ReportInv, Reporting
    <3> QED
      BY <3>1, <3>2
  <2>2. CASE ~Write
    <3>1. disk' = disk
      BY <2>2 DEF Next, Session, Attempt, Cleanup, Around, StartBenchmark, StartRerun,
         NextMeasurement, Finish, Exit, Launch, Ready, DeleteEntry, Prepare, Execute,
         ExecuteUnsaved, ExecuteFails, Verify, StepFails, ServerGone, Stop, Reap, Escalate, GiveUp,
         Release, Settle, ServerExits, OrphanMoves, ServerSaves, OrphanSaves, Update,
         DeletedByHand, WriteFails, Signal,
         Killed, Reboot
    <3> QED
      BY <3>1 DEF Preserves
  <2> QED
    BY <2>1, <2>2
<1> QED
  BY Invariance, <1>1, PTL DEF Spec, ResultsPreserved
=============================================================================
