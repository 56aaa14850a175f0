---------------------------- MODULE StudiesProofs ----------------------------
(***************************************************************************)
(* Proofs about the studies: what the probe studies and the control        *)
(* studies leave in their files, for every number of groups, requests,     *)
(* conditions and targets.                                                 *)
(***************************************************************************)
EXTENDS Studies, FiniteSetTheorems, TLAPS

(* A finite set has subsets of every smaller size. *)
LEMMA SubsetOfSize ==
    ASSUME NEW S, IsFiniteSet(S), NEW k \in Nat, k <= Cardinality(S)
    PROVE  \E T \in SUBSET S : Cardinality(T) = k
<1> DEFINE n == Cardinality(S)
<1>1. n \in Nat /\ ExistsBijection(1..n, S)
    BY FS_CardinalityType
<1>2. PICK f : f \in Bijection(1..n, S)
    BY <1>1 DEF ExistsBijection
<1>3. /\ f \in [1..n -> S]
      /\ \A i, j \in 1..n : f[i] = f[j] => i = j
    BY <1>2 DEF Bijection, Injection, Surjection, IsInjective
<1>4. 1..k \subseteq 1..n
    BY <1>1
<1> DEFINE g == [i \in 1..k |-> f[i]]
           T == {f[i] : i \in 1..k}
<1>5. g \in Bijection(1..k, T)
    BY <1>3, <1>4 DEF Bijection, Injection, Surjection, IsInjective
<1>6. IsFiniteSet(1..k) /\ Cardinality(1..k) = k
    BY FS_Interval
<1>7. ExistsBijection(1..k, T)
    BY <1>5 DEF ExistsBijection
<1>8. Cardinality(T) = k
    BY <1>6, <1>7, FS_Bijection
<1> QED
    BY <1>3, <1>4, <1>8

-----------------------------------------------------------------------------
(* The numbers the probe studies are about. *)
LEMMA ProbeSizes ==
    /\ FullSize \in Nat /\ PilotSize \in Nat /\ MaxCollections \in Nat
    /\ PilotSize <= FullSize
<1>1. NumGroups \in Nat /\ PerGroup \in Nat
    BY ProbeAssumption
<1>2. NumGroups * PerGroup \in Nat
    BY <1>1
<1> QED
    BY <1>2, ProbeAssumption DEF FullSize

(* The answered rows of a sequence are some of its rows. *)
LEMMA AnsweredRows ==
    ASSUME NEW rows \in AnyRows, NEW n \in Nat, Len(rows) <= n
    PROVE  /\ Answered(rows) \subseteq 1..n
           /\ IsFiniteSet(Answered(rows))
           /\ Cardinality(Answered(rows)) \in Nat
           /\ Cardinality(Answered(rows)) = n =>
                    Answered(rows) = 1..n /\ rows = [i \in 1..n |-> TRUE]
<1>1. Len(rows) \in Nat /\ rows \in [1..Len(rows) -> BOOLEAN]
    BY DEF AnyRows
<1>2. Answered(rows) \in SUBSET (1..n)
    BY <1>1 DEF Answered
<1>3. IsFiniteSet(1..n) /\ Cardinality(1..n) = n
    BY FS_Interval
<1>4. IsFiniteSet(Answered(rows))
    BY <1>2, <1>3, FS_Subset
<1>5. Cardinality(Answered(rows)) = n => Answered(rows) = 1..n
    BY <1>2, <1>3, FS_Subset
<1>6. ASSUME Answered(rows) = 1..n
      PROVE  rows = [i \in 1..n |-> TRUE]
  <2>1. n >= 1 => n \in 1..Len(rows)
      BY <1>6 DEF Answered
  <2>2. Len(rows) = n
    <3>1. Len(rows) \in Nat /\ Len(rows) <= n
        BY <1>1
    <3> QED
        BY <2>1, <3>1
  <2>3. \A i \in 1..n : rows[i] = TRUE
      BY <1>1, <1>6, <2>2 DEF Answered
  <2> QED
      BY <1>1, <2>2, <2>3
<1> QED
    BY <1>2, <1>4, <1>5, <1>6, FS_CardinalityType

(* What the analysis computes from rows it accepts. *)
Sound(result) ==
    /\ result.learned \cap result.scored = {}
    /\ study # "stage18" =>
            /\ result.scored = Held("test")
            /\ result.learned = Held("train")
                 \cup (IF study = "stage21a" THEN Held("validation") ELSE {})

(* Models never learn from the rows they are scored on, and of a complete  *)
(* collection every row of the splits in question is used.                 *)
LEMMA AcceptedRowsAreSound ==
    ASSUME study \in ProbeStudies, study # "stage23",
           NEW rows \in AnyRows, Len(rows) <= FullSize, Accepted(rows)
    PROVE  LET result == [learned |-> LearnedFrom(rows),
                          scored |-> ScoredOn(rows)]
           IN  result \in Results /\ Sound(result)
<1> DEFINE A == Answered(rows)
<1>1. /\ FullSize \in Nat
      /\ A \subseteq 1..FullSize /\ IsFiniteSet(A)
      /\ Cardinality(A) \in Nat
      /\ Cardinality(A) = FullSize => A = 1..FullSize
    BY ProbeSizes, AnsweredRows
<1>2. CASE study = "stage18"
  <2> DEFINE k == (4 * Cardinality(A)) \div 5
  <2>1. k \in Nat /\ k <= Cardinality(A)
      BY <1>1
  <2>2. \E S \in SUBSET A : Cardinality(S) = k
    <3> HIDE DEF A, k
    <3> QED
      BY <1>1, <2>1, SubsetOfSize
  <2>3. LearnedFrom(rows) \in SUBSET A
      BY <1>2, <2>2 DEF LearnedFrom
  <2>4. ScoredOn(rows) = A \ LearnedFrom(rows)
      BY <1>2 DEF ScoredOn
  <2> QED
      BY <1>1, <1>2, <2>3, <2>4 DEF Results, Sound
<1>3. CASE study # "stage18"
  <2>1. A = 1..FullSize
      BY <1>1, <1>3 DEF Accepted
  <2>2. ScoredOn(rows) = Held("test")
      BY <1>3, <2>1 DEF ScoredOn, Held
  <2>3. LearnedFrom(rows) = Held("train")
            \cup (IF study = "stage21a" THEN Held("validation") ELSE {})
      BY <1>3, <2>1, Zenon DEF LearnedFrom, Held
  <2>4. /\ Held("test") \subseteq 1..FullSize
        /\ Held("train") \subseteq 1..FullSize
        /\ Held("validation") \subseteq 1..FullSize
        /\ Held("test") \cap Held("train") = {}
        /\ Held("test") \cap Held("validation") = {}
      BY DEF Held
  <2> QED
      BY <1>3, <2>2, <2>3, <2>4 DEF Results, Sound
<1> QED
    BY <1>2, <1>3

-----------------------------------------------------------------------------
(* The inductive invariant of the probe studies: what is being written is  *)
(* as sound as what has been written, and what is in data.json is a        *)
(* collection, if maybe one that no analysis accepts.                      *)
AllAnswered == [i \in 1..PilotSize |-> TRUE]

PilotIsSound ==
    /\ (collector.at = "writing" /\ collector.mode = "pilot"
            /\ collector.passed) => collector.rows = AllAnswered
    /\ (pilot.state = "whole" /\ pilot.passed) => pilot.rows = AllAnswered

ReportsAreSound ==
    /\ analyst.at # "idle" => Sound(analyst.result)
    /\ probe.state = "whole" => Sound(probe.result)
    /\ probe.result.learned \cap probe.result.scored = {}

ProbeInv ==
    /\ ProbeTypeOK
    /\ PilotIsSound
    /\ ReportsAreSound
    /\ Len(data.rows) <= FullSize

LEMMA ModeSizes ==
    /\ Size("pilot") = PilotSize /\ Size("full") = FullSize
    /\ \A mode \in Modes : Size(mode) \in Nat
BY ProbeSizes DEF Size, Modes

LEMMA EmptyRows == <<>> \in AnyRows /\ Len(<<>>) = 0
BY DEF AnyRows

LEMMA ProbeInitInv == ProbeInit => ProbeInv
<1> SUFFICES ASSUME ProbeInit PROVE ProbeInv
    OBVIOUS
<1> USE DEF ProbeInit, NothingAsked
<1>1. ProbeTypeOK
  <2>1. collector \in [at : {"idle", "warming", "asking", "writing"},
                       mode : Modes, rows : AnyRows, passed : BOOLEAN]
      BY EmptyRows DEF Modes
  <2>2. Len(collector.rows) <= Size(collector.mode)
      BY EmptyRows, ModeSizes DEF Modes
  <2>3. NoResult \in Results
      BY DEF NoResult, Results
  <2>4. NoRows \in [state : FileStates, rows : AnyRows, passed : BOOLEAN]
      BY EmptyRows DEF NoRows, FileStates
  <2> QED
      BY <2>1, <2>2, <2>3, <2>4, ProbeSizes DEF ProbeTypeOK, FileStates
<1>2. PilotIsSound
    BY DEF PilotIsSound, NoRows
<1>3. ReportsAreSound
    BY DEF ReportsAreSound, NoResult
<1>4. Len(data.rows) <= FullSize
    BY EmptyRows, ProbeSizes DEF NoRows
<1> QED
    BY <1>1, <1>2, <1>3, <1>4 DEF ProbeInv

(* The collector's steps change no report, the analyst's no collection. *)
LEMMA CollectorInv == ProbeInv /\ Collector => ProbeInv'
<1> SUFFICES ASSUME ProbeInv, Collector PROVE ProbeInv'
    OBVIOUS
<1> USE DEF ProbeInv
<1>0. UNCHANGED <<study, analyst, probe>>
    BY DEF Collector, CollectionStarts, WarmUpIsAnswered, RequestEnds,
           FileIsOpened, FileIsWritten, CollectionStops
<1>1. ReportsAreSound'
    BY <1>0 DEF ReportsAreSound, Sound
<1>2. /\ study' \in ProbeStudies
      /\ (analyst \in [at : {"idle", "fitted", "writing"},
                       result : Results])'
      /\ (probe \in [state : FileStates, result : Results])'
    BY <1>0 DEF ProbeTypeOK
<1>3. ASSUME begun' \in 0..MaxCollections,
             (collector \in [at : {"idle", "warming", "asking", "writing"},
                      mode : Modes, rows : AnyRows, passed : BOOLEAN])',
             (Len(collector.rows) <= Size(collector.mode))',
             (pilot \in [state : FileStates, rows : AnyRows,
                         passed : BOOLEAN])',
             (data \in [state : FileStates, rows : AnyRows,
                        passed : BOOLEAN])',
             (Len(data.rows) <= FullSize)',
             PilotIsSound'
      PROVE  ProbeInv'
    BY <1>1, <1>2, <1>3 DEF ProbeTypeOK
<1>4. /\ collector \in [at : {"idle", "warming", "asking", "writing"},
                        mode : Modes, rows : AnyRows, passed : BOOLEAN]
      /\ Len(collector.rows) <= Size(collector.mode)
      /\ pilot \in [state : FileStates, rows : AnyRows, passed : BOOLEAN]
      /\ data \in [state : FileStates, rows : AnyRows, passed : BOOLEAN]
      /\ begun \in 0..MaxCollections
      /\ Len(data.rows) <= FullSize
    BY DEF ProbeTypeOK
<1>5. Size(collector.mode) \in Nat /\ Len(collector.rows) \in Nat
    BY <1>4, ModeSizes DEF AnyRows
<1>6. CASE CollectionStarts
  <2>1. PICK mode \in Modes :
            collector' = [at |-> IF HasPilot THEN "warming" ELSE "asking",
                          mode |-> mode, rows |-> <<>>, passed |-> FALSE]
      BY <1>6 DEF CollectionStarts, Modes
  <2>2. begun' \in 0..MaxCollections
      BY <1>4, <1>6, ProbeSizes DEF CollectionStarts
  <2>3. UNCHANGED <<pilot, data>>
      BY <1>6 DEF CollectionStarts
  <2>4. /\ (collector \in [at : {"idle", "warming", "asking", "writing"},
                      mode : Modes, rows : AnyRows, passed : BOOLEAN])'
        /\ (Len(collector.rows) <= Size(collector.mode))'
      BY <2>1, EmptyRows, ModeSizes
  <2>5. PilotIsSound'
      BY <2>1, <2>3 DEF PilotIsSound
  <2> QED
      BY <1>3, <1>4, <2>2, <2>3, <2>4, <2>5
<1>7. CASE WarmUpIsAnswered
  <2>1. /\ collector' = [collector EXCEPT !.at = "asking"]
        /\ UNCHANGED <<begun, pilot, data>>
      BY <1>7 DEF WarmUpIsAnswered
  <2>2. PilotIsSound'
      BY <1>4, <2>1 DEF PilotIsSound
  <2> QED
      BY <1>3, <1>4, <2>1, <2>2
<1>8. CASE RequestEnds
  <2>1. PICK answered \in BOOLEAN :
            collector' = [collector EXCEPT !.rows = Append(@, answered)]
      BY <1>8 DEF RequestEnds
  <2>2. collector.at = "asking" /\ UNCHANGED <<begun, pilot, data>>
      BY <1>8 DEF RequestEnds
  <2>3. Len(collector.rows) < Size(collector.mode)
      BY <1>8 DEF RequestEnds
  <2>4. /\ Append(collector.rows, answered) \in AnyRows
        /\ Len(Append(collector.rows, answered)) = Len(collector.rows) + 1
      BY <1>4 DEF AnyRows
  <2>5. /\ (collector \in [at : {"idle", "warming", "asking", "writing"},
                      mode : Modes, rows : AnyRows, passed : BOOLEAN])'
        /\ collector'.mode = collector.mode
        /\ collector'.rows = Append(collector.rows, answered)
        /\ collector'.at = "asking"
      BY <1>4, <2>1, <2>2, <2>4
  <2>6. (Len(collector.rows) <= Size(collector.mode))'
    <3>1. Len(collector.rows) + 1 <= Size(collector.mode)
        BY <1>5, <2>3
    <3> QED
        BY <2>4, <2>5, <3>1 DEF Size
  <2>7. PilotIsSound'
      BY <2>2, <2>5 DEF PilotIsSound
  <2> QED
      BY <1>3, <1>4, <2>2, <2>5, <2>6, <2>7
<1>9. CASE FileIsOpened
  <2>1. UNCHANGED begun /\ collector.at = "asking"
      BY <1>9 DEF FileIsOpened
  <2>2. CASE collector.mode = "full"
    <3>1. /\ collector' = [collector EXCEPT !.at = "writing",
                                            !.passed = study = "stage22"]
          /\ data' = [data EXCEPT !.state = "torn"]
          /\ UNCHANGED pilot
        BY <1>9, <2>2 DEF FileIsOpened
    <3>2. /\ (collector \in [at : {"idle", "warming", "asking", "writing"},
                      mode : Modes, rows : AnyRows, passed : BOOLEAN])'
          /\ collector'.mode = "full"
          /\ collector'.rows = collector.rows
        BY <1>4, <2>2, <3>1
    <3>3. /\ (data \in [state : FileStates, rows : AnyRows,
                        passed : BOOLEAN])'
          /\ data'.rows = data.rows
        BY <1>4, <3>1 DEF FileStates
    <3>4. PilotIsSound'
        BY <3>1, <3>2 DEF PilotIsSound
    <3>5. (Len(collector.rows) <= Size(collector.mode))'
        BY <1>4, <2>2, <3>2 DEF Size
    <3> QED
        BY <1>3, <1>4, <2>1, <3>1, <3>2, <3>3, <3>4, <3>5
  <2>3. CASE collector.mode = "pilot"
    <3>1. PICK differ \in BOOLEAN :
              collector' = [collector EXCEPT
                    !.at = "writing",
                    !.passed = PilotPasses(collector.rows, differ)]
        BY <1>9, <2>3 DEF FileIsOpened
    <3>2. pilot' = [pilot EXCEPT !.state = "torn"] /\ UNCHANGED data
        BY <1>9, <2>3 DEF FileIsOpened
    <3>3. PilotPasses(collector.rows, differ) \in BOOLEAN
        BY DEF PilotPasses
    <3>4. /\ (collector \in [at : {"idle", "warming", "asking", "writing"},
                      mode : Modes, rows : AnyRows, passed : BOOLEAN])'
          /\ collector'.mode = "pilot"
          /\ collector'.rows = collector.rows
          /\ collector'.passed = PilotPasses(collector.rows, differ)
        BY <1>4, <2>3, <3>1, <3>3
    <3>5. /\ (pilot \in [state : FileStates, rows : AnyRows,
                         passed : BOOLEAN])'
          /\ pilot'.state = "torn"
        BY <1>4, <3>2 DEF FileStates
    <3>6. collector'.passed => collector.rows = AllAnswered
      <4>1. Len(collector.rows) <= PilotSize
          BY <1>4, <2>3, ModeSizes
      <4>2. collector'.passed => Cardinality(Answered(collector.rows))
                                    = PilotSize
          BY <3>4 DEF PilotPasses
      <4> QED
          BY <1>4, <4>1, <4>2, AnsweredRows, ProbeSizes DEF AllAnswered
    <3>7. PilotIsSound'
        BY <3>4, <3>5, <3>6 DEF PilotIsSound, AllAnswered
    <3>8. (Len(collector.rows) <= Size(collector.mode))'
        BY <1>4, <2>3, <3>4 DEF Size
    <3> QED
        BY <1>3, <1>4, <2>1, <3>2, <3>4, <3>5, <3>7, <3>8
  <2> QED
      BY <1>9, <2>2, <2>3 DEF FileIsOpened
<1>10. CASE FileIsWritten
  <2> DEFINE file == [state |-> "whole", rows |-> collector.rows,
                      passed |-> collector.passed]
  <2>1. /\ collector' = [collector EXCEPT !.at = "idle"]
        /\ collector.at = "writing"
        /\ UNCHANGED begun
        /\ IF collector.mode = "pilot"
           THEN pilot' = file /\ UNCHANGED data
           ELSE data' = file /\ UNCHANGED pilot
      BY <1>10 DEF FileIsWritten
  <2>2. file \in [state : FileStates, rows : AnyRows, passed : BOOLEAN]
      BY <1>4 DEF FileStates
  <2>3. /\ (collector \in [at : {"idle", "warming", "asking", "writing"},
                      mode : Modes, rows : AnyRows, passed : BOOLEAN])'
        /\ collector'.at = "idle"
        /\ collector'.mode = collector.mode
        /\ collector'.rows = collector.rows
      BY <1>4, <2>1
  <2>4. (Len(collector.rows) <= Size(collector.mode))'
      BY <1>4, <2>3 DEF Size
  <2>5. PilotIsSound'
    <3>1. (pilot.state = "whole" /\ pilot.passed => pilot.rows = AllAnswered)'
      <4>1. CASE collector.mode = "pilot"
        <5>1. /\ pilot'.passed = collector.passed
              /\ pilot'.rows = collector.rows
            BY <2>1, <4>1
        <5> QED
            BY <2>1, <4>1, <5>1 DEF PilotIsSound, AllAnswered
      <4>2. CASE collector.mode # "pilot"
          BY <2>1, <4>2 DEF PilotIsSound, AllAnswered
      <4> QED
          BY <4>1, <4>2
    <3> QED
        BY <2>3, <3>1 DEF PilotIsSound
  <2>6. (Len(data.rows) <= FullSize)'
    <3>1. CASE collector.mode = "pilot"
        BY <1>4, <2>1, <3>1
    <3>2. CASE collector.mode = "full"
        BY <1>4, <2>1, <3>2, ModeSizes
    <3> QED
        BY <1>4, <3>1, <3>2 DEF Modes
  <2> QED
      BY <1>3, <1>4, <2>1, <2>2, <2>3, <2>4, <2>5, <2>6
<1>11. CASE CollectionStops
  <2>1. /\ collector' = [collector EXCEPT !.at = "idle"]
        /\ UNCHANGED <<begun, pilot, data>>
      BY <1>11 DEF CollectionStops
  <2>2. PilotIsSound'
      BY <1>4, <2>1 DEF PilotIsSound
  <2> QED
      BY <1>3, <1>4, <2>1, <2>2
<1> QED
    BY <1>6, <1>7, <1>8, <1>9, <1>10, <1>11 DEF Collector

LEMMA AnalystInv == ProbeInv /\ Analyst => ProbeInv'
<1> SUFFICES ASSUME ProbeInv, Analyst PROVE ProbeInv'
    OBVIOUS
<1> USE DEF ProbeInv
<1>0. UNCHANGED <<study, collectorVars>>
    BY DEF Analyst, RowsAreAnalysed, ReportIsOpened, ReportIsWritten,
           AnalysisStops
<1>1. PilotIsSound' /\ (Len(data.rows) <= FullSize)'
    BY <1>0 DEF PilotIsSound, AllAnswered, collectorVars
<1>2. ASSUME (analyst \in [at : {"idle", "fitted", "writing"},
                           result : Results])',
             (probe \in [state : FileStates, result : Results])',
             ReportsAreSound'
      PROVE  ProbeInv'
    BY <1>0, <1>1, <1>2 DEF ProbeTypeOK, collectorVars, Size
<1>3. /\ analyst \in [at : {"idle", "fitted", "writing"}, result : Results]
      /\ probe \in [state : FileStates, result : Results]
    BY DEF ProbeTypeOK
<1>4. CASE RowsAreAnalysed
  <2> DEFINE result == [learned |-> LearnedFrom(data.rows),
                        scored |-> ScoredOn(data.rows)]
  <2>1. /\ study # "stage23" /\ Accepted(data.rows)
        /\ analyst' = [at |-> "fitted", result |-> result]
        /\ UNCHANGED probe
      BY <1>4 DEF RowsAreAnalysed
  <2>2. study \in ProbeStudies /\ data.rows \in AnyRows
      BY DEF ProbeTypeOK
  <2>3. result \in Results /\ Sound(result)
      BY <2>1, <2>2, AcceptedRowsAreSound
  <2>4. (analyst \in [at : {"idle", "fitted", "writing"},
                      result : Results])'
    <3> HIDE DEF result
    <3> QED
      BY <2>1, <2>3
  <2>5. ReportsAreSound'
    <3> HIDE DEF result
    <3> QED
      BY <1>0, <2>1, <2>3 DEF ReportsAreSound, Sound
  <2> QED
      BY <1>2, <1>3, <2>1, <2>4, <2>5
<1>5. CASE ReportIsOpened
  <2>1. /\ analyst.at = "fitted"
        /\ analyst' = [analyst EXCEPT !.at = "writing"]
        /\ probe' = [probe EXCEPT !.state = "torn"]
      BY <1>5 DEF ReportIsOpened
  <2>2. /\ (analyst \in [at : {"idle", "fitted", "writing"},
                         result : Results])'
        /\ (probe \in [state : FileStates, result : Results])'
        /\ analyst'.result = analyst.result
        /\ probe'.result = probe.result /\ probe'.state = "torn"
      BY <1>3, <2>1 DEF FileStates
  <2>3. ReportsAreSound'
      BY <1>0, <2>1, <2>2 DEF ReportsAreSound, Sound
  <2> QED
      BY <1>2, <2>2, <2>3
<1>6. CASE ReportIsWritten
  <2>1. /\ analyst.at = "writing"
        /\ analyst' = [analyst EXCEPT !.at = "idle"]
        /\ probe' = [state |-> "whole", result |-> analyst.result]
      BY <1>6 DEF ReportIsWritten
  <2>2. /\ (analyst \in [at : {"idle", "fitted", "writing"},
                         result : Results])'
        /\ (probe \in [state : FileStates, result : Results])'
        /\ analyst'.at = "idle" /\ probe'.result = analyst.result
      BY <1>3, <2>1 DEF FileStates
  <2>3. ReportsAreSound'
      BY <1>0, <2>1, <2>2 DEF ReportsAreSound, Sound
  <2> QED
      BY <1>2, <2>2, <2>3
<1>7. CASE AnalysisStops
  <2>1. analyst' = [analyst EXCEPT !.at = "idle"] /\ UNCHANGED probe
      BY <1>7 DEF AnalysisStops
  <2>2. ReportsAreSound'
      BY <1>0, <1>3, <2>1 DEF ReportsAreSound, Sound
  <2> QED
      BY <1>2, <1>3, <2>1, <2>2
<1> QED
    BY <1>4, <1>5, <1>6, <1>7 DEF Analyst

LEMMA ProbeStepInv == ProbeInv /\ [ProbeNext]_probeVars => ProbeInv'
<1>1. ProbeInv /\ UNCHANGED probeVars => ProbeInv'
    BY DEF ProbeInv, ProbeTypeOK, PilotIsSound, ReportsAreSound, Sound,
           AllAnswered, Size, probeVars, collectorVars
<1> QED
    BY <1>1, CollectorInv, AnalystInv DEF ProbeNext

LEMMA ProbeInvIsSound == ProbeInv => RecordedFilesAreSound
BY DEF ProbeInv, PilotIsSound, ReportsAreSound, Sound, AllAnswered,
       RecordedFilesAreSound

(* ProbeSpec keeps the inductive invariant. *)
THEOREM ProbeInvariant == ProbeSpec => []ProbeInv
BY ProbeInitInv, ProbeStepInv, PTL DEF ProbeSpec

(* The variables of the probe studies keep their types: no collection has  *)
(* more rows than its mode has requests.                                   *)
THEOREM ProbeTypeCorrect == ProbeSpec => []ProbeTypeOK
<1>1. ProbeInv => ProbeTypeOK
    BY DEF ProbeInv
<1> QED
    BY <1>1, ProbeInvariant, PTL

(* RecordedFilesAreSound, for any number of groups and requests: a report  *)
(* that can be read is about a complete collection and scored on rows no   *)
(* model has learned from, and a pilot on record as passed was answered    *)
(* throughout.                                                             *)
THEOREM RecordedFilesSound == ProbeSpec => []RecordedFilesAreSound
BY ProbeInvariant, ProbeInvIsSound, PTL

-----------------------------------------------------------------------------
(* The order of tuples, spelled out for the ranks of the two studies. *)
LEMMA LexLessOfSix ==
    ASSUME NEW a1, NEW a2, NEW a3, NEW a4, NEW a5, NEW a6,
           NEW b1, NEW b2, NEW b3, NEW b4, NEW b5, NEW b6,
           LexLess(<<a1, a2, a3, a4, a5, a6>>, <<b1, b2, b3, b4, b5, b6>>)
    PROVE  \/ a1 < b1
           \/ a1 = b1 /\ a2 < b2
           \/ a1 = b1 /\ a2 = b2 /\ a3 < b3
           \/ a1 = b1 /\ a2 = b2 /\ a3 = b3 /\ a4 < b4
           \/ a1 = b1 /\ a2 = b2 /\ a3 = b3 /\ a4 = b4 /\ a5 < b5
           \/ a1 = b1 /\ a2 = b2 /\ a3 = b3 /\ a4 = b4 /\ a5 = b5 /\ a6 < b6
<1> DEFINE r == <<a1, a2, a3, a4, a5, a6>>
           s == <<b1, b2, b3, b4, b5, b6>>
<1>1. /\ Len(r) = 6
      /\ r[1] = a1 /\ r[2] = a2 /\ r[3] = a3 /\ r[4] = a4 /\ r[5] = a5
      /\ r[6] = a6
      /\ s[1] = b1 /\ s[2] = b2 /\ s[3] = b3 /\ s[4] = b4 /\ s[5] = b5
      /\ s[6] = b6
    OBVIOUS
<1>2. LexLess(r, s)
    OBVIOUS
<1> HIDE DEF r, s
<1>3. PICK i \in 1..6 : r[i] < s[i] /\ \A j \in 1..(i - 1) : r[j] = s[j]
    BY <1>1, <1>2 DEF LexLess
<1>4. i = 1 \/ i = 2 \/ i = 3 \/ i = 4 \/ i = 5 \/ i = 6
    OBVIOUS
<1>5. \A j \in {1, 2, 3, 4, 5} : j < i => r[j] = s[j]
    BY <1>3
<1> QED
    BY <1>1, <1>3, <1>4, <1>5

LEMMA LexLessOfFour ==
    ASSUME NEW a1, NEW a2, NEW a3, NEW a4, NEW b1, NEW b2, NEW b3, NEW b4,
           LexLess(<<a1, a2, a3, a4>>, <<b1, b2, b3, b4>>)
    PROVE  \/ a1 < b1
           \/ a1 = b1 /\ a2 < b2
           \/ a1 = b1 /\ a2 = b2 /\ a3 < b3
           \/ a1 = b1 /\ a2 = b2 /\ a3 = b3 /\ a4 < b4
<1> DEFINE r == <<a1, a2, a3, a4>>
           s == <<b1, b2, b3, b4>>
<1>1. /\ Len(r) = 4
      /\ r[1] = a1 /\ r[2] = a2 /\ r[3] = a3 /\ r[4] = a4
      /\ s[1] = b1 /\ s[2] = b2 /\ s[3] = b3 /\ s[4] = b4
    OBVIOUS
<1>2. LexLess(r, s)
    OBVIOUS
<1> HIDE DEF r, s
<1>3. PICK i \in 1..4 : r[i] < s[i] /\ \A j \in 1..(i - 1) : r[j] = s[j]
    BY <1>1, <1>2 DEF LexLess
<1>4. i = 1 \/ i = 2 \/ i = 3 \/ i = 4
    OBVIOUS
<1>5. \A j \in {1, 2, 3} : j < i => r[j] = s[j]
    BY <1>3
<1> QED
    BY <1>1, <1>3, <1>4, <1>5

(* Of complete tallies the rule selects a condition to which none is       *)
(* preferred.                                                              *)
LEMMA SelectedIsPreferred ==
    ASSUME tally \in [Conditions -> Tallies],
           \A c \in Conditions : /\ tally[c].rows = NumTargets
                                 /\ tally[c].successes <= NumTargets,
           NEW c \in Conditions, NEW d \in Conditions, Selects(c)
    PROVE  ~Preferred(tally, d, c)
<1>1. /\ tally[c].rows = NumTargets /\ tally[d].rows = NumTargets
      /\ tally[c].successes \in Nat /\ tally[d].successes \in Nat
      /\ tally[c].distance \in Nat /\ tally[d].distance \in Nat
      /\ tally[c].clips \in Nat /\ tally[d].clips \in Nat
      /\ tally[c].successes <= NumTargets /\ tally[d].successes <= NumTargets
    BY DEF Tallies
<1>2. /\ NumTargets \in Nat /\ c \in Nat /\ d \in Nat
      /\ Steps[c] \in Nat /\ Steps[d] \in Nat
      /\ Dt[c] \in Nat /\ Dt[d] \in Nat
    BY ControlAssumption DEF Conditions
<1>3. CASE d = c
    BY <1>1, <1>2, <1>3 DEF Preferred, AllSucceed
<1>4. CASE d # c
  <2>1. LexLess(Rank(tally[c], c), Rank(tally[d], d))
      BY <1>4 DEF Selects
  <2>2. CASE study = "stage20"
    <3>1. LexLess(<<-AllSucceed(tally[c]), -tally[c].successes,
                    tally[c].distance, Steps[c], Dt[c], c>>,
                  <<-AllSucceed(tally[d]), -tally[d].successes,
                    tally[d].distance, Steps[d], Dt[d], d>>)
        BY <2>1, <2>2 DEF Rank
    <3> DEFINE a == AllSucceed(tally[c])
               b == AllSucceed(tally[d])
    <3>2. \/ -a < -b
          \/ -a = -b /\ -tally[c].successes < -tally[d].successes
          \/ /\ -a = -b /\ -tally[c].successes = -tally[d].successes
             /\ \/ tally[c].distance < tally[d].distance
                \/ /\ tally[c].distance = tally[d].distance
                   /\ \/ Steps[c] < Steps[d]
                      \/ Steps[c] = Steps[d] /\ Dt[c] < Dt[d]
                      \/ Steps[c] = Steps[d] /\ Dt[c] = Dt[d]
        BY <3>1, LexLessOfSix
    <3>3. /\ a \in {0, 1} /\ b \in {0, 1}
          /\ a = 1 <=> tally[c].successes = NumTargets
          /\ b = 1 <=> tally[d].successes = NumTargets
        BY <1>1 DEF AllSucceed
    <3> HIDE DEF a, b
    <3>4. /\ ~(b > a)
          /\ ~(tally[d].successes > tally[c].successes)
          /\ tally[d].successes = tally[c].successes =>
                /\ ~(tally[d].distance < tally[c].distance)
                /\ tally[d].distance = tally[c].distance =>
                    /\ ~(Steps[d] < Steps[c])
                    /\ ~(Steps[d] = Steps[c] /\ Dt[d] < Dt[c])
        BY <1>1, <1>2, <3>2, <3>3
    <3> QED
        BY <2>2, <3>4 DEF Preferred, a, b
  <2>3. CASE study # "stage20"
    <3>1. LexLess(<<-tally[c].successes, tally[c].distance,
                    tally[c].clips, c>>,
                  <<-tally[d].successes, tally[d].distance,
                    tally[d].clips, d>>)
        BY <2>1, <2>3 DEF Rank
    <3>2. \/ -tally[c].successes < -tally[d].successes
          \/ /\ -tally[c].successes = -tally[d].successes
             /\ \/ tally[c].distance < tally[d].distance
                \/ /\ tally[c].distance = tally[d].distance
                   /\ \/ tally[c].clips < tally[d].clips
                      \/ tally[c].clips = tally[d].clips /\ c < d
        BY <3>1, LexLessOfFour
    <3> QED
        BY <1>1, <1>2, <2>3, <3>2 DEF Preferred
  <2> QED
      BY <2>2, <2>3
<1> QED
    BY <1>3, <1>4

(* The inductive invariant of the control studies. *)
Declared(t, c) ==
    /\ c \in Conditions
    /\ \A d \in Conditions : t[d].rows = NumTargets /\ ~Preferred(t, d, c)

FinalRow(i, c) ==
    [target |-> (i - 1) \div 4 + 1,
     controller |-> ControllerOrder[((i - 1) % 4) + 1],
     condition |-> IF ControllerOrder[((i - 1) % 4) + 1]
                        = "direct_position_ik_oracle" THEN 0 ELSE c]

InOrder(rows, c) == \A i \in 1..Len(rows) : rows[i] = FinalRow(i, c)

FinalsInv ==
    /\ at = "development" => finals = <<>>
    /\ at \in {"final", "writing"} =>
            Declared(tally, selected) /\ InOrder(finals, selected)
    /\ at = "writing" => Len(finals) = 4 * NumTargets

ReportInv ==
    report.state = "whole" =>
        /\ Declared(report.tally, report.selected)
        /\ InOrder(report.finals, report.selected)
        /\ Len(report.finals) = 4 * NumTargets

ControlInv ==
    /\ ControlTypeOK
    /\ \A c \in Conditions : tally[c].successes <= tally[c].rows
    /\ FinalsInv
    /\ ReportInv

LEMMA ControlSizes ==
    /\ NumTargets \in Nat \ {0} /\ NumConditions \in Nat \ {0}
    /\ NumConditions * NumTargets \in Nat
    /\ MaxStudies \in Nat /\ MaxDistance \in Nat /\ MaxClips \in Nat
<1>1. NumTargets \in Nat \ {0} /\ NumConditions \in Nat \ {0}
    BY ControlAssumption
<1>2. NumConditions * NumTargets \in Nat
    BY <1>1
<1> QED
    BY <1>1, <1>2, ControlAssumption

LEMMA EmptyTallies ==
    /\ [c \in Conditions |-> NoTally] \in [Conditions -> Tallies]
    /\ \A c \in Conditions : NoTally.successes <= NoTally.rows
BY DEF NoTally, Tallies

LEMMA EmptyFinals == <<>> \in Seq(FinalRows)
OBVIOUS

LEMMA ControlInitInv == ControlInit => ControlInv
<1> SUFFICES ASSUME ControlInit PROVE ControlInv
    OBVIOUS
<1> USE DEF ControlInit, NothingRun
<1>1. report \in [state : FileStates, tally : [Conditions -> Tallies],
                  selected : 0..NumConditions, finals : Seq(FinalRows)]
    BY EmptyTallies, EmptyFinals, ControlSizes DEF FileStates
<1>2. ControlTypeOK
    BY <1>1, EmptyTallies, EmptyFinals, ControlSizes DEF ControlTypeOK
<1>3. \A c \in Conditions : tally[c].successes <= tally[c].rows
    BY EmptyTallies
<1>4. FinalsInv /\ ReportInv
    BY DEF FinalsInv, ReportInv
<1> QED
    BY <1>2, <1>3, <1>4 DEF ControlInv

(* A final episode appends the row that is due next. *)
LEMMA FinalEpisodeRow ==
    ASSUME finals \in Seq(FinalRows), selected \in 0..NumConditions,
           Len(finals) < 4 * NumTargets
    PROVE  FinalRow(Len(finals) + 1, selected) \in FinalRows
<1> DEFINE n == Len(finals)
<1>1. n \in Nat /\ NumTargets \in Nat /\ n < 4 * NumTargets
    BY ControlSizes
<1>2. n + 1 - 1 = n
    BY <1>1
<1>3. n \div 4 + 1 \in Targets /\ n % 4 \in 0..3
  <2> HIDE DEF n
  <2> QED
    BY <1>1 DEF Targets
<1>4. (n % 4) + 1 \in 1..4
  <2> HIDE DEF n
  <2> QED
    BY <1>3
<1>5. \A i \in 1..4 : ControllerOrder[i] \in Controllers
    BY DEF ControllerOrder, Controllers
<1> HIDE DEF n
<1>6. ControllerOrder[(n % 4) + 1] \in Controllers
    BY <1>4, <1>5
<1>7. 0 \in 0..NumConditions
    BY ControlSizes
<1> QED
    BY <1>2, <1>3, <1>6, <1>7 DEF FinalRow, FinalRows, n

LEMMA ControlNextInv == ControlInv /\ ControlNext => ControlInv'
<1> SUFFICES ASSUME ControlInv, ControlNext PROVE ControlInv'
    OBVIOUS
<1> USE DEF ControlInv
<1>0. /\ study \in ControlStudies
      /\ studies \in 0..MaxStudies
      /\ at \in {"idle", "development", "final", "writing"}
      /\ done \in 0..(NumConditions * NumTargets)
      /\ tally \in [Conditions -> Tallies]
      /\ selected \in 0..NumConditions
      /\ finals \in Seq(FinalRows)
      /\ report \in [state : FileStates, tally : [Conditions -> Tallies],
                     selected : 0..NumConditions, finals : Seq(FinalRows)]
    BY DEF ControlTypeOK
<1>r. ASSUME UNCHANGED <<study, report>>
      PROVE  ReportInv'
    BY <1>r DEF ReportInv, Declared, Preferred, InOrder, FinalRow
<1>1. CASE StudyStarts
  <2>1. /\ studies' \in 0..MaxStudies /\ at' = "development" /\ done' = 0
        /\ tally' = [c \in Conditions |-> NoTally] /\ selected' = 0
        /\ finals' = <<>> /\ UNCHANGED <<study, report>>
      BY <1>0, <1>1, ControlSizes DEF StudyStarts
  <2>2. ControlTypeOK'
      BY <1>0, <2>1, EmptyTallies, EmptyFinals, ControlSizes
         DEF ControlTypeOK
  <2>3. (\A c \in Conditions : tally[c].successes <= tally[c].rows)'
      BY <2>1, EmptyTallies
  <2>4. FinalsInv'
      BY <2>1 DEF FinalsInv
  <2> QED
      BY <1>r, <2>1, <2>2, <2>3, <2>4
<1>2. CASE DevelopmentEpisode
  <2> DEFINE c == (done \div NumTargets) + 1
  <2>1. PICK success \in BOOLEAN, distance \in 0..MaxDistance,
             clips \in 0..MaxClips :
                tally' = [tally EXCEPT ![c] =
                    [rows |-> @.rows + 1,
                     successes |-> @.successes + IF success THEN 1 ELSE 0,
                     distance |-> @.distance + distance,
                     clips |-> @.clips + clips]]
      BY <1>2 DEF DevelopmentEpisode
  <2>2. /\ at = "development" /\ done' = done + 1
        /\ done < NumConditions * NumTargets
        /\ UNCHANGED <<study, studies, at, selected, finals, report>>
      BY <1>2 DEF DevelopmentEpisode
  <2> HIDE DEF c
  <2> DEFINE t == [rows |-> tally[c].rows + 1,
                   successes |-> tally[c].successes
                                    + IF success THEN 1 ELSE 0,
                   distance |-> tally[c].distance + distance,
                   clips |-> tally[c].clips + clips]
  <2>3. ASSUME c \in Conditions
        PROVE  /\ tally' \in [Conditions -> Tallies]
               /\ (\A d \in Conditions : tally[d].successes <= tally[d].rows)'
    <3>1. tally[c] \in Tallies
        BY <1>0, <2>3
    <3>2. tally' = [tally EXCEPT ![c] = t]
        BY <2>1
    <3>3. t \in Tallies /\ t.successes <= t.rows
      <4>1. /\ tally[c].rows \in Nat /\ tally[c].successes \in Nat
            /\ tally[c].distance \in Nat /\ tally[c].clips \in Nat
            /\ tally[c].successes <= tally[c].rows
          BY <2>3, <3>1 DEF Tallies
      <4>2. distance \in Nat /\ clips \in Nat
          BY ControlSizes
      <4> QED
          BY <4>1, <4>2 DEF Tallies
    <3> HIDE DEF t
    <3>4. tally' \in [Conditions -> Tallies]
        BY <1>0, <3>2, <3>3
    <3>5. (\A d \in Conditions : tally[d].successes <= tally[d].rows)'
        BY <1>0, <3>2, <3>3
    <3> QED
        BY <3>4, <3>5
  <2>4. ASSUME c \notin Conditions
        PROVE  tally' = tally
      BY <1>0, <2>1, <2>4
  <2>5. /\ tally' \in [Conditions -> Tallies]
        /\ (\A d \in Conditions : tally[d].successes <= tally[d].rows)'
      BY <1>0, <2>3, <2>4
  <2>6. done' \in 0..(NumConditions * NumTargets)
    <3> DEFINE m == NumConditions * NumTargets
    <3>1. m \in Nat /\ done \in 0..m /\ done < m
        BY <1>0, <2>2, ControlSizes
    <3> HIDE DEF m
    <3>2. done + 1 \in 0..m
        BY <3>1
    <3> QED
        BY <2>2, <3>2 DEF m
  <2>7. ControlTypeOK'
      BY <1>0, <2>2, <2>5, <2>6 DEF ControlTypeOK
  <2>8. FinalsInv'
      BY <2>2 DEF FinalsInv
  <2> QED
      BY <1>r, <2>2, <2>5, <2>7, <2>8
<1>3. CASE ConditionIsSelected
  <2>1. PICK c \in Conditions : Selects(c) /\ selected' = c
      BY <1>3 DEF ConditionIsSelected
  <2>2. /\ at = "development" /\ at' = "final"
        /\ \A d \in Conditions : tally[d].rows = NumTargets
        /\ UNCHANGED <<study, studies, done, tally, finals, report>>
      BY <1>3 DEF ConditionIsSelected
  <2>3. \A d \in Conditions : ~Preferred(tally, d, c)
      BY <1>0, <2>1, <2>2, SelectedIsPreferred
  <2>4. Declared(tally, selected)'
      BY <2>1, <2>2, <2>3 DEF Declared, Preferred
  <2>5. finals' = <<>>
      BY <2>2 DEF FinalsInv
  <2>6. FinalsInv'
      BY <2>2, <2>4, <2>5 DEF FinalsInv, InOrder
  <2>7. selected' \in 0..NumConditions
      BY <2>1, ControlSizes DEF Conditions
  <2>8. ControlTypeOK'
      BY <1>0, <2>2, <2>7 DEF ControlTypeOK
  <2> QED
      BY <1>r, <2>2, <2>6, <2>8
<1>4. CASE FinalEpisode
  <2>1. /\ at = "final" /\ Len(finals) < 4 * NumTargets
        /\ UNCHANGED <<study, studies, at, done, tally, selected, report>>
      BY <1>4 DEF FinalEpisode
  <2> DEFINE row == FinalRow(Len(finals) + 1, selected)
  <2>2. Len(finals) \in Nat
      BY <1>0
  <2>3. finals' = Append(finals, row)
    <3>1. Len(finals) + 1 - 1 = Len(finals)
        BY <2>2
    <3> QED
        BY <1>4, <3>1 DEF FinalEpisode, FinalRow
  <2>4. row \in FinalRows
      BY <1>0, <2>1, FinalEpisodeRow
  <2> HIDE DEF row
  <2>5. /\ finals' \in Seq(FinalRows) /\ Len(finals') = Len(finals) + 1
        /\ \A i \in 1..Len(finals) : finals'[i] = finals[i]
        /\ finals'[Len(finals) + 1] = row
      BY <1>0, <2>3, <2>4
  <2>6. InOrder(finals, selected)'
    <3>1. InOrder(finals, selected)
        BY <2>1 DEF FinalsInv
    <3>2. \A i \in 1..Len(finals') :
            i \in 1..Len(finals) \/ i = Len(finals) + 1
        BY <2>2, <2>5
    <3>3. \A i \in 1..Len(finals') : finals'[i] = FinalRow(i, selected)
        BY <2>5, <3>1, <3>2 DEF InOrder, row
    <3> QED
        BY <2>1, <3>3 DEF InOrder, FinalRow
  <2>7. FinalsInv'
      BY <2>1, <2>6 DEF FinalsInv, Declared, Preferred
  <2>8. ControlTypeOK'
      BY <1>0, <2>1, <2>5 DEF ControlTypeOK
  <2> QED
      BY <1>r, <2>1, <2>7, <2>8
<1>5. CASE ReportIsTruncated
  <2>1. /\ at = "final" /\ at' = "writing" /\ Len(finals) = 4 * NumTargets
        /\ report' = [report EXCEPT !.state = "torn"]
        /\ UNCHANGED <<study, studies, done, tally, selected, finals>>
      BY <1>5 DEF ReportIsTruncated
  <2>2. /\ report' \in [state : FileStates,
                        tally : [Conditions -> Tallies],
                        selected : 0..NumConditions, finals : Seq(FinalRows)]
        /\ report'.state = "torn"
      BY <1>0, <2>1 DEF FileStates
  <2>3. ControlTypeOK'
      BY <1>0, <2>1, <2>2 DEF ControlTypeOK
  <2>4. ReportInv'
      BY <2>2 DEF ReportInv
  <2>5. FinalsInv'
      BY <2>1 DEF FinalsInv, Declared, Preferred, InOrder, FinalRow
  <2> QED
      BY <2>1, <2>3, <2>4, <2>5
<1>6. CASE ReportIsSaved
  <2>1. /\ at = "writing" /\ at' = "idle"
        /\ report' = [state |-> "whole", tally |-> tally,
                      selected |-> selected, finals |-> finals]
        /\ UNCHANGED <<study, studies, done, tally, selected, finals>>
      BY <1>6 DEF ReportIsSaved
  <2>2. report' \in [state : FileStates, tally : [Conditions -> Tallies],
                     selected : 0..NumConditions, finals : Seq(FinalRows)]
      BY <1>0, <2>1 DEF FileStates
  <2>3. ControlTypeOK'
      BY <1>0, <2>1, <2>2 DEF ControlTypeOK
  <2>4. ReportInv'
    <3>1. /\ report'.tally = tally /\ report'.selected = selected
          /\ report'.finals = finals
        BY <2>1
    <3>2. /\ Declared(tally, selected) /\ InOrder(finals, selected)
          /\ Len(finals) = 4 * NumTargets
        BY <2>1 DEF FinalsInv
    <3> QED
        BY <2>1, <3>1, <3>2
           DEF ReportInv, Declared, Preferred, InOrder, FinalRow
  <2>5. FinalsInv'
      BY <2>1 DEF FinalsInv
  <2> QED
      BY <2>1, <2>3, <2>4, <2>5
<1>7. CASE StudyStops
  <2>1. /\ at' = "idle"
        /\ UNCHANGED <<study, studies, done, tally, selected, finals, report>>
      BY <1>7 DEF StudyStops
  <2>2. ControlTypeOK'
      BY <1>0, <2>1 DEF ControlTypeOK
  <2>3. FinalsInv'
      BY <2>1 DEF FinalsInv
  <2> QED
      BY <1>r, <2>1, <2>2, <2>3
<1> QED
    BY <1>1, <1>2, <1>3, <1>4, <1>5, <1>6, <1>7 DEF ControlNext

LEMMA ControlStepInv == ControlInv /\ [ControlNext]_controlVars => ControlInv'
<1>1. ControlInv /\ UNCHANGED controlVars => ControlInv'
    BY DEF ControlInv, ControlTypeOK, FinalsInv, ReportInv, Declared,
           Preferred, InOrder, FinalRow, controlVars
<1> QED
    BY <1>1, ControlNextInv

(* ControlSpec keeps the inductive invariant. *)
THEOREM ControlInvariant == ControlSpec => []ControlInv
BY ControlInitInv, ControlStepInv, PTL DEF ControlSpec

(* The variables of the control studies keep their types. *)
THEOREM ControlTypeCorrect == ControlSpec => []ControlTypeOK
<1>1. ControlInv => ControlTypeOK
    BY DEF ControlInv
<1> QED
    BY <1>1, ControlInvariant, PTL

(* Every target meets every controller among the rows in order. *)
LEMMA EveryPairIsRun ==
    ASSUME NEW rows, NEW c, Len(rows) = 4 * NumTargets, InOrder(rows, c),
           NEW target \in Targets, NEW k \in Controllers
    PROVE  \E i \in 1..Len(rows) :
                /\ rows[i].target = target
                /\ rows[i].controller = k
                /\ rows[i].condition =
                    IF k = "direct_position_ik_oracle" THEN 0 ELSE c
<1>1. PICK j \in 1..4 : ControllerOrder[j] = k
    BY DEF ControllerOrder, Controllers
<1>2. target \in 1..NumTargets /\ NumTargets \in Nat
    BY ControlSizes DEF Targets
<1> DEFINE i == 4 * (target - 1) + j
<1>3. /\ i \in 1..(4 * NumTargets)
      /\ (i - 1) \div 4 + 1 = target
      /\ ((i - 1) % 4) + 1 = j
    BY <1>2
<1> HIDE DEF i
<1>4. rows[i] = FinalRow(i, c)
    BY <1>3 DEF InOrder
<1>5. /\ FinalRow(i, c).target = target
      /\ FinalRow(i, c).controller = k
      /\ FinalRow(i, c).condition =
            IF k = "direct_position_ik_oracle" THEN 0 ELSE c
    BY <1>1, <1>3 DEF FinalRow
<1> QED
    BY <1>3, <1>4, <1>5

LEMMA ControlInvIsOfDeclaredRule == ControlInv => ReportIsOfDeclaredRule
<1> SUFFICES ASSUME ControlInv, report.state = "whole"
             PROVE  ReportIsOfDeclaredRule
    BY DEF ReportIsOfDeclaredRule
<1>1. /\ Declared(report.tally, report.selected)
      /\ InOrder(report.finals, report.selected)
      /\ Len(report.finals) = 4 * NumTargets
    BY DEF ControlInv, ReportInv
<1>2. \A target \in Targets, k \in Controllers :
          \E i \in 1..Len(report.finals) :
              /\ report.finals[i].target = target
              /\ report.finals[i].controller = k
              /\ report.finals[i].condition =
                  IF k = "direct_position_ik_oracle"
                  THEN 0 ELSE report.selected
    BY <1>1, EveryPairIsRun
<1> QED
    BY <1>1, <1>2 DEF Declared, ReportIsOfDeclaredRule

(* ReportIsOfDeclaredRule, for any number of conditions and targets: a     *)
(* report that can be read selects a condition to which no other is        *)
(* preferred, over complete development rows, and its final rows are of    *)
(* that condition, every controller on every target.                       *)
THEOREM ReportOfDeclaredRule == ControlSpec => []ReportIsOfDeclaredRule
BY ControlInvariant, ControlInvIsOfDeclaredRule, PTL

-----------------------------------------------------------------------------
(* The studies together: whichever is carried out keeps its invariant, and *)
(* the other one has left nothing in its files.                            *)
StudiesInv ==
    \/ ProbeInv /\ NothingRun
    \/ ControlInv /\ NothingAsked

LEMMA StudyKinds == ProbeStudies \cap ControlStudies = {}
BY DEF ProbeStudies, ControlStudies

LEMMA NothingAskedIsSound == NothingAsked => RecordedFilesAreSound
BY DEF NothingAsked, NoRows, NoResult, RecordedFilesAreSound

LEMMA NothingRunIsOfDeclaredRule == NothingRun => ReportIsOfDeclaredRule
BY DEF NothingRun, ReportIsOfDeclaredRule

LEMMA StudiesStep ==
    ASSUME StudiesInv, [StudiesNext]_<<probeVars, controlVars>>
    PROVE  StudiesInv'
<1>1. CASE ProbeInv /\ NothingRun
  <2>1. [ProbeNext]_probeVars /\ UNCHANGED controlVars
      BY <1>1, StudyKinds DEF ProbeInv, ProbeTypeOK, StudiesNext
  <2>2. NothingRun'
      BY <1>1, <2>1 DEF NothingRun, controlVars
  <2> QED
      BY <1>1, <2>1, <2>2, ProbeStepInv DEF StudiesInv
<1>2. CASE ControlInv /\ NothingAsked
  <2>1. [ControlNext]_controlVars /\ UNCHANGED probeVars
      BY <1>2, StudyKinds DEF ControlInv, ControlTypeOK, StudiesNext
  <2>2. NothingAsked'
      BY <1>2, <2>1 DEF NothingAsked, probeVars, collectorVars
  <2> QED
      BY <1>2, <2>1, <2>2, ControlStepInv DEF StudiesInv
<1> QED
    BY <1>1, <1>2 DEF StudiesInv

(* StudiesSpec keeps the invariant of the study that is carried out, and   *)
(* nothing of the other one moves.                                         *)
THEOREM StudiesInvariant == StudiesSpec => []StudiesInv
<1>1. StudiesInit => StudiesInv
    BY ProbeInitInv, ControlInitInv
       DEF StudiesInit, StudiesInv, ProbeInit, ControlInit
<1> QED
    BY <1>1, StudiesStep, PTL DEF StudiesSpec

(* StudiesTypeOK: the study that is carried out keeps its types, for any   *)
(* number of groups, requests, conditions and targets.                     *)
THEOREM StudiesTypeCorrect == StudiesSpec => []StudiesTypeOK
<1>1. StudiesInv => StudiesTypeOK
    BY StudyKinds
       DEF StudiesInv, StudiesTypeOK, ProbeInv, ProbeTypeOK, ControlInv,
           ControlTypeOK
<1> QED
    BY <1>1, StudiesInvariant, PTL

(* RecordedFilesAreSound and ReportIsOfDeclaredRule of the six studies     *)
(* together (analyze_remote_stage22_probes.py:32-47, stage20.py:26-40).    *)
THEOREM StudiesAreSound ==
    StudiesSpec => [](RecordedFilesAreSound /\ ReportIsOfDeclaredRule)
<1>1. StudiesInv => RecordedFilesAreSound /\ ReportIsOfDeclaredRule
    BY ProbeInvIsSound, ControlInvIsOfDeclaredRule, NothingAskedIsSound,
       NothingRunIsOfDeclaredRule DEF StudiesInv
<1> QED
    BY <1>1, StudiesInvariant, PTL
=============================================================================
