--------------------------- MODULE FunctionTopProofs ---------------------------
(***************************************************************************)
(* Proofs about kubeless function top, for any set of functions, any       *)
(* answers of their metrics endpoints and any timeout: no goroutine blocks *)
(* on the channel, only a function that was late is missing, and the       *)
(* averages are those of their rows.                                       *)
(***************************************************************************)
EXTENDS FunctionTop, FiniteSetTheorems, SequenceTheorems, TLAPS

\* What a goroutine may send.
Results == UNION {GetFunctionMetrics(f) : f \in Functions}

\* The goroutines that have sent their rows.
EndedSet == {f \in listed : gor[f] = "ended"}

\* The average belongs to the durations and the calls of the same row.
AverageOK(r) == r.avg = (IF r.calls > 0 THEN <<r.dur, r.calls>> ELSE << >>)

InMetrics(f) == \E r \in metrics : r.function = f

\* The types of what the type invariant leaves out.
RowsTyped ==
    /\ ch \in Seq(Results)
    /\ DOMAIN result = Functions
    /\ at \in [Functions -> Nat]
    /\ pc = "list" => listed = {} /\ i = 0 /\ ch = << >>

\* Every result that was sent is in the channel or was counted, unless the timer
\* has ended the loop.
ResultsCounted ==
    /\ Len(ch) <= Cardinality(EndedSet)
    /\ pc \in {"wait", "done"} =>
          i + Len(ch) = Cardinality(EndedSet) \/ (LastResult /\ now = timer)
    /\ pc = "done" => LastResult

\* A function whose rows are neither collected nor missing for good had them in this
\* very tick.
PendingNow ==
    \A f \in Functions :
        /\ gor[f] \in {"none", "scrape"} => at[f] = 0
        /\ gor[f] = "send" => result[f] \in GetFunctionMetrics(f)
        /\ gor[f] \in {"send", "ended"} => InMetrics(f) \/ at[f] = now
        /\ gor[f] = "ended" =>
              InMetrics(f) \/ \E j \in 1..Len(ch) : ch[j] \in GetFunctionMetrics(f)
        /\ gor[f] # "none" => f \in listed

\* The inductive invariant.
TopInv ==
    /\ TypeOK
    /\ RowsTyped
    /\ ResultsCounted
    /\ PendingNow
    /\ AverageOfRow

-----------------------------------------------------------------------------
(* The rows of a function                                                  *)

Fields == {"function", "method", "message", "dur", "calls", "fails", "avg"}

\* An empty row.
LEMMA EmptyRow ==
    ASSUME NEW f, NEW k
    PROVE  /\ DOMAIN Metric(f, k) = Fields
           /\ Metric(f, k).function = f
           /\ Metric(f, k).calls = 0
           /\ Metric(f, k).avg = << >>
  BY DEF Metric, Fields

\* Reading one metric into a row.
LEMMA ReadDur ==
    ASSUME NEW r, DOMAIN r = Fields, NEW v
    PROVE  /\ DOMAIN Read(r, "dur", v) = Fields
           /\ Read(r, "dur", v).function = r.function
           /\ Read(r, "dur", v).calls = r.calls
           /\ Read(r, "dur", v).avg = r.avg
  BY DEF Read, Fields

LEMMA ReadFails ==
    ASSUME NEW r, DOMAIN r = Fields, NEW v
    PROVE  /\ DOMAIN Read(r, "fails", v) = Fields
           /\ Read(r, "fails", v).function = r.function
           /\ AverageOK(r) => AverageOK(Read(r, "fails", v))
  BY DEF Read, Fields, AverageOK

LEMMA ReadCalls ==
    ASSUME NEW r, DOMAIN r = Fields, r.avg = << >>, NEW v
    PROVE  /\ DOMAIN Read(r, "calls", v) = Fields
           /\ Read(r, "calls", v).function = r.function
           /\ AverageOK(Read(r, "calls", v))
  BY DEF Read, Fields, AverageOK

\* The rows of tmp are rows of f.
RowsOf(f, tmp) == \A k \in DOMAIN tmp : DOMAIN tmp[k] = Fields /\ tmp[k].function = f

\* Of a fresh row the calls have not been read.
Fresh(tmp) == \A k \in DOMAIN tmp : tmp[k].calls = 0 /\ tmp[k].avg = << >>

\* A row for method k comes from one that was there, or from an empty one, by reading
\* metric m into it or leaving it alone.
RowFrom(f, tmp, m, k, row) ==
    \E r : /\ DOMAIN r = Fields /\ r.function = f
           /\ \/ k \in DOMAIN tmp /\ r = tmp[k]
              \/ r.calls = 0 /\ r.avg = << >>
           /\ row = r \/ \E v : row = Read(r, m, v)

\* The rows of the next family.
LEMMA FamilyRow ==
    ASSUME NEW f, NEW raw, NEW tmp, NEW m, RowsOf(f, tmp),
           NEW new, new = Family(f, raw, tmp, m), NEW k \in DOMAIN new
    PROVE  RowFrom(f, tmp, m, k, new[k])
<1> DEFINE r == IF k \in DOMAIN tmp THEN tmp[k] ELSE Metric(f, k)
<1>1. /\ DOMAIN r = Fields /\ r.function = f
      /\ \/ k \in DOMAIN tmp /\ r = tmp[k]
         \/ r.calls = 0 /\ r.avg = << >>
  BY EmptyRow DEF RowsOf
<1>2. k \in DOMAIN tmp \union DOMAIN raw[m]
  BY DEF Family
<1>3. new[k] = IF k \in DOMAIN raw[m] THEN Read(r, m, raw[m][k]) ELSE r
  BY <1>2, Zenon DEF Family
<1> HIDE DEF r
<1>4. new[k] = r \/ \E v : new[k] = Read(r, m, v)
  BY <1>3
<1> QED
  BY <1>1, <1>4, Zenon DEF RowFrom

\* Durations come first and leave the rows fresh.
LEMMA FamilyDur ==
    ASSUME NEW f, NEW raw, NEW tmp, RowsOf(f, tmp), Fresh(tmp)
    PROVE  RowsOf(f, Family(f, raw, tmp, "dur")) /\ Fresh(Family(f, raw, tmp, "dur"))
<1> DEFINE new == Family(f, raw, tmp, "dur")
<1>0. new = Family(f, raw, tmp, "dur")
  OBVIOUS
<1> HIDE DEF new
<1>1. ASSUME NEW k \in DOMAIN new
      PROVE  /\ DOMAIN new[k] = Fields /\ new[k].function = f
             /\ new[k].calls = 0 /\ new[k].avg = << >>
  <2>0. RowFrom(f, tmp, "dur", k, new[k])
    BY <1>0, <1>1, FamilyRow, Zenon
  <2>1. PICK r : /\ DOMAIN r = Fields /\ r.function = f
                 /\ \/ k \in DOMAIN tmp /\ r = tmp[k]
                    \/ r.calls = 0 /\ r.avg = << >>
                 /\ new[k] = r \/ \E v : new[k] = Read(r, "dur", v)
    BY <2>0 DEF RowFrom
  <2>2. r.calls = 0 /\ r.avg = << >>
    BY <2>1 DEF Fresh
  <2>3. CASE new[k] = r
    BY <2>1, <2>2, <2>3
  <2>4. ASSUME NEW v, new[k] = Read(r, "dur", v)
        PROVE  /\ DOMAIN new[k] = Fields /\ new[k].function = f
               /\ new[k].calls = 0 /\ new[k].avg = << >>
    BY <2>1, <2>2, <2>4, ReadDur
  <2> QED
    BY <2>1, <2>3, <2>4
<1> QED
  BY <1>0, <1>1 DEF RowsOf, Fresh

\* Calls come second: the average is taken of the durations read before.
LEMMA FamilyCalls ==
    ASSUME NEW f, NEW raw, NEW tmp, RowsOf(f, tmp), Fresh(tmp)
    PROVE  /\ RowsOf(f, Family(f, raw, tmp, "calls"))
           /\ \A k \in DOMAIN Family(f, raw, tmp, "calls") :
                  AverageOK(Family(f, raw, tmp, "calls")[k])
<1> DEFINE new == Family(f, raw, tmp, "calls")
<1>0. new = Family(f, raw, tmp, "calls")
  OBVIOUS
<1> HIDE DEF new
<1>1. ASSUME NEW k \in DOMAIN new
      PROVE  /\ DOMAIN new[k] = Fields /\ new[k].function = f
             /\ AverageOK(new[k])
  <2>0. RowFrom(f, tmp, "calls", k, new[k])
    BY <1>0, <1>1, FamilyRow, Zenon
  <2>1. PICK r : /\ DOMAIN r = Fields /\ r.function = f
                 /\ \/ k \in DOMAIN tmp /\ r = tmp[k]
                    \/ r.calls = 0 /\ r.avg = << >>
                 /\ new[k] = r \/ \E v : new[k] = Read(r, "calls", v)
    BY <2>0 DEF RowFrom
  <2>2. r.calls = 0 /\ r.avg = << >>
    BY <2>1 DEF Fresh
  <2>3. CASE new[k] = r
    BY <2>1, <2>2, <2>3 DEF AverageOK
  <2>4. ASSUME NEW v, new[k] = Read(r, "calls", v)
        PROVE  /\ DOMAIN new[k] = Fields /\ new[k].function = f
               /\ AverageOK(new[k])
    BY <2>1, <2>2, <2>4, ReadCalls
  <2> QED
    BY <2>1, <2>3, <2>4
<1> QED
  BY <1>0, <1>1 DEF RowsOf

\* Failures come last and leave the average alone.
LEMMA FamilyFails ==
    ASSUME NEW f, NEW raw, NEW tmp, RowsOf(f, tmp), \A k \in DOMAIN tmp : AverageOK(tmp[k])
    PROVE  /\ RowsOf(f, Family(f, raw, tmp, "fails"))
           /\ \A k \in DOMAIN Family(f, raw, tmp, "fails") :
                  AverageOK(Family(f, raw, tmp, "fails")[k])
<1> DEFINE new == Family(f, raw, tmp, "fails")
<1>0. new = Family(f, raw, tmp, "fails")
  OBVIOUS
<1> HIDE DEF new
<1>1. ASSUME NEW k \in DOMAIN new
      PROVE  /\ DOMAIN new[k] = Fields /\ new[k].function = f
             /\ AverageOK(new[k])
  <2>0. RowFrom(f, tmp, "fails", k, new[k])
    BY <1>0, <1>1, FamilyRow, Zenon
  <2>1. PICK r : /\ DOMAIN r = Fields /\ r.function = f
                 /\ \/ k \in DOMAIN tmp /\ r = tmp[k]
                    \/ r.calls = 0 /\ r.avg = << >>
                 /\ new[k] = r \/ \E v : new[k] = Read(r, "fails", v)
    BY <2>0 DEF RowFrom
  <2>2. AverageOK(r)
    BY <2>1 DEF AverageOK
  <2>3. CASE new[k] = r
    BY <2>1, <2>2, <2>3
  <2>4. ASSUME NEW v, new[k] = Read(r, "fails", v)
        PROVE  /\ DOMAIN new[k] = Fields /\ new[k].function = f
               /\ AverageOK(new[k])
    BY <2>1, <2>2, <2>4, ReadFails
  <2> QED
    BY <2>1, <2>3, <2>4
<1> QED
  BY <1>0, <1>1 DEF RowsOf

\* What is sent for f: at least one row, every row of f, every average its row's.
LEMMA RowsSound ==
    ASSUME NEW f, NEW rows \in GetFunctionMetrics(f)
    PROVE  /\ \E r \in rows : r.function = f
           /\ \A r \in rows : r.function = f /\ AverageOK(r)
<1>1. ASSUME NEW k PROVE AverageOK(Metric(f, k))
  BY EmptyRow DEF AverageOK
<1>2. ASSUME NEW text, rows = Message(f, text)
      PROVE  /\ \E r \in rows : r.function = f
             /\ \A r \in rows : r.function = f /\ AverageOK(r)
  <2> DEFINE row == [Metric(f, "") EXCEPT !.message = text]
  <2>1. row.function = f /\ AverageOK(row)
    BY DEF Metric, AverageOK
  <2> HIDE DEF row
  <2>2. rows = {row}
    BY <1>2 DEF Message, row
  <2> QED
    BY <2>1, <2>2
<1>3. ASSUME NEW raw \in Scrapes, rows = parseMetrics(f, raw)
      PROVE  /\ \E r \in rows : r.function = f
             /\ \A r \in rows : r.function = f /\ AverageOK(r)
  <2> DEFINE none == [k \in {} |-> 0]
             first == Family(f, raw, none, "dur")
             second == Family(f, raw, first, "calls")
             tmp == Family(f, raw, second, "fails")
  <2>1. RowsOf(f, none) /\ Fresh(none)
    BY DEF RowsOf, Fresh
  <2> HIDE DEF none
  <2>2. RowsOf(f, first) /\ Fresh(first)
    BY <2>1, FamilyDur
  <2> HIDE DEF first
  <2>3. RowsOf(f, second) /\ \A k \in DOMAIN second : AverageOK(second[k])
    BY <2>2, FamilyCalls
  <2> HIDE DEF second
  <2>4. RowsOf(f, tmp) /\ \A k \in DOMAIN tmp : AverageOK(tmp[k])
    BY <2>3, FamilyFails
  <2> HIDE DEF tmp
  <2>5. rows = IF DOMAIN tmp = {} THEN {Metric(f, "")} ELSE {tmp[k] : k \in DOMAIN tmp}
    <3>1. metricsOfInterest[1] = "dur" /\ metricsOfInterest[2] = "calls" /\ metricsOfInterest[3] = "fails"
      BY DEF metricsOfInterest
    <3> QED
      BY <1>3, <3>1, Zenon DEF parseMetrics, tmp, second, first, none
  <2>6. CASE DOMAIN tmp = {}
    BY <1>1, <2>5, <2>6, EmptyRow
  <2>7. CASE DOMAIN tmp # {}
    BY <2>4, <2>5, <2>7 DEF RowsOf
  <2> QED
    BY <2>6, <2>7
<1> QED
  BY <1>2, <1>3 DEF GetFunctionMetrics

-----------------------------------------------------------------------------
(* Counting and sequences                                                  *)

\* The functions that were listed, and those of them that ended, are finitely many.
LEMMA EndedCount ==
    ASSUME listed \subseteq Functions
    PROVE  /\ Cardinality(listed) \in Nat /\ IsFiniteSet(listed)
           /\ Cardinality(EndedSet) \in Nat /\ IsFiniteSet(EndedSet)
           /\ Cardinality(EndedSet) <= Cardinality(listed)
           /\ Cardinality(EndedSet) = Cardinality(listed) => EndedSet = listed
<1>1. IsFiniteSet(listed) /\ EndedSet \subseteq listed
  BY TopAssumption, FS_Subset DEF EndedSet
<1> QED
  BY <1>1, FS_Subset, FS_CardinalityType

\* One more result at the end of the channel.
LEMMA Appended ==
    ASSUME NEW S, NEW s \in Seq(S), NEW e \in S
    PROVE  /\ Append(s, e) \in Seq(S)
           /\ Len(Append(s, e)) = Len(s) + 1
           /\ \A j \in 1..Len(s) : Append(s, e)[j] = s[j]
           /\ Append(s, e)[Len(s) + 1] = e
  BY AppendProperties

\* The first result of the channel is taken.
LEMMA Received ==
    ASSUME NEW S, NEW s \in Seq(S), s # << >>
    PROVE  /\ Len(s) \in Nat \ {0}
           /\ Head(s) = s[1] /\ Head(s) \in S
           /\ Tail(s) \in Seq(S)
           /\ Len(Tail(s)) = Len(s) - 1
           /\ \A j \in 1..(Len(s) - 1) : Tail(s)[j] = s[j + 1]
  BY HeadTailProperties, EmptySeq, LenProperties

-----------------------------------------------------------------------------
LEMMA InitTopInv == Init => TopInv
<1> SUFFICES ASSUME Init PROVE TopInv
  OBVIOUS
<1>1. EndedSet = {} /\ Cardinality(EndedSet) = 0 /\ Cardinality(listed) = 0
  BY FS_EmptySet DEF Init, EndedSet
<1>2. TypeOK
  BY <1>1, TopAssumption DEF Init, TypeOK
<1>3. RowsTyped
  BY DEF Init, RowsTyped
<1>4. ResultsCounted
  BY <1>1 DEF Init, ResultsCounted
<1>5. PendingNow /\ AverageOfRow
  BY DEF Init, PendingNow, AverageOfRow
<1> QED
  BY <1>2, <1>3, <1>4, <1>5 DEF TopInv

-----------------------------------------------------------------------------
(* The steps                                                               *)

\* Before the list is there nothing has been started.
LEMMA ListsStep ==
    ASSUME TopInv, NEW fs \in SUBSET Functions, Lists(fs)
    PROVE  TopInv'
<1> USE DEF TopInv, Lists
<1>1. EndedSet' = {} /\ Cardinality(EndedSet)' = 0
  BY FS_EmptySet DEF EndedSet
<1>2. Cardinality(fs) \in Nat
  BY TopAssumption, FS_Subset, FS_CardinalityType
<1>3. TypeOK'
  BY <1>2, TopAssumption DEF TypeOK, RowsTyped
<1>4. RowsTyped'
  BY DEF RowsTyped
<1>5. ResultsCounted'
  BY <1>1 DEF RowsTyped, ResultsCounted
<1>6. PendingNow'
  <2>1. \A f \in Functions : gor[f] = "none" /\ at[f] = 0
    BY DEF PendingNow, RowsTyped
  <2> QED
    BY <2>1 DEF PendingNow, InMetrics
<1>7. AverageOfRow'
  BY DEF AverageOfRow
<1> QED
  BY <1>3, <1>4, <1>5, <1>6, <1>7

\* A scrape ends.
LEMMA ScrapedStep ==
    ASSUME TopInv, NEW f \in Functions, Scraped(f)
    PROVE  TopInv'
<1> USE DEF TopInv
<1>0. PICK rows \in GetFunctionMetrics(f) : result' = [result EXCEPT ![f] = rows]
  BY DEF Scraped
<1>1. /\ gor[f] = "scrape"
      /\ at' = [at EXCEPT ![f] = now]
      /\ gor' = [gor EXCEPT ![f] = "send"]
      /\ UNCHANGED <<listed, pc, ch, i, metrics, now, timer>>
  BY DEF Scraped
<1>2. EndedSet' = EndedSet
  BY <1>1 DEF EndedSet, TypeOK
<1>3. TypeOK'
  BY <1>1 DEF TypeOK
<1>4. RowsTyped'
  BY <1>0, <1>1 DEF RowsTyped, TypeOK
<1>5. ResultsCounted'
  BY <1>1, <1>2 DEF ResultsCounted, LastResult
<1>6. PendingNow'
  <2> SUFFICES ASSUME NEW g \in Functions
               PROVE  /\ gor'[g] \in {"none", "scrape"} => at'[g] = 0
                      /\ gor'[g] = "send" => result'[g] \in GetFunctionMetrics(g)
                      /\ gor'[g] \in {"send", "ended"} => InMetrics(g)' \/ at'[g] = now'
                      /\ gor'[g] = "ended" =>
                            InMetrics(g)' \/ \E j \in 1..Len(ch') : ch'[j] \in GetFunctionMetrics(g)
                      /\ gor'[g] # "none" => g \in listed'
    BY DEF PendingNow
  <2>1. CASE g = f
    BY <1>0, <1>1, <2>1 DEF PendingNow, RowsTyped, TypeOK
  <2>2. CASE g # f
    BY <1>0, <1>1, <2>2 DEF PendingNow, InMetrics, RowsTyped, TypeOK
  <2> QED
    BY <2>1, <2>2
<1>7. AverageOfRow'
  BY <1>1 DEF AverageOfRow
<1> QED
  BY <1>3, <1>4, <1>5, <1>6, <1>7

\* A goroutine that has its rows is not counted yet, so there is room for them.
LEMMA SendsStep ==
    ASSUME TopInv, NEW f \in Functions, Sends(f)
    PROVE  TopInv'
<1> USE DEF TopInv
<1>0. /\ gor[f] = "send" /\ f \in listed /\ result[f] \in GetFunctionMetrics(f)
      /\ result[f] \in Results
      /\ gor' = [gor EXCEPT ![f] = "ended"]
      /\ UNCHANGED <<listed, pc, result, at, i, metrics, now, timer>>
  BY DEF Sends, PendingNow, Results
<1>1. /\ ch' \in Seq(Results)
      /\ Len(ch') = Len(ch) + 1 /\ Len(ch) \in Nat
      /\ \A j \in 1..Len(ch) : ch'[j] = ch[j]
      /\ ch'[Len(ch) + 1] = result[f]
  BY <1>0, Appended DEF Sends, RowsTyped
<1>2. EndedSet' = EndedSet \cup {f} /\ f \notin EndedSet
  BY <1>0 DEF EndedSet, TypeOK
<1>3. Cardinality(EndedSet') = Cardinality(EndedSet) + 1
  BY <1>2, EndedCount, FS_AddElement DEF TypeOK
<1>4. TypeOK'
  BY <1>0, <1>1, EndedCount DEF TypeOK, Sends, Capacity
<1>5. RowsTyped'
  BY <1>0, <1>1 DEF RowsTyped
<1>6. ResultsCounted'
  BY <1>0, <1>1, <1>3, EndedCount DEF ResultsCounted, LastResult, TypeOK
<1>7. PendingNow'
  <2> SUFFICES ASSUME NEW g \in Functions
               PROVE  /\ gor'[g] \in {"none", "scrape"} => at'[g] = 0
                      /\ gor'[g] = "send" => result'[g] \in GetFunctionMetrics(g)
                      /\ gor'[g] \in {"send", "ended"} => InMetrics(g)' \/ at'[g] = now'
                      /\ gor'[g] = "ended" =>
                            InMetrics(g)' \/ \E j \in 1..Len(ch') : ch'[j] \in GetFunctionMetrics(g)
                      /\ gor'[g] # "none" => g \in listed'
    BY DEF PendingNow
  <2>1. CASE g = f
    BY <1>0, <1>1, <2>1 DEF PendingNow, InMetrics, TypeOK
  <2>2. CASE g # f
    BY <1>0, <1>1, <2>2 DEF PendingNow, InMetrics, TypeOK
  <2> QED
    BY <2>1, <2>2
<1>8. AverageOfRow'
  BY <1>0 DEF AverageOfRow
<1> QED
  BY <1>4, <1>5, <1>6, <1>7, <1>8

\* A result is collected: its function is in the metrics, the others stay behind it.
LEMMA ReceivesStep ==
    ASSUME TopInv, Receives
    PROVE  TopInv'
<1> USE DEF TopInv
<1>0. /\ pc = "wait" /\ ~LastResult
      /\ metrics' = metrics \union Head(ch)
      /\ i' = i + 1 /\ timer' = now + Timeout
      /\ UNCHANGED <<listed, pc, gor, result, at, now>>
  BY DEF Receives
<1>1. /\ Len(ch) \in Nat \ {0}
      /\ Head(ch) = ch[1] /\ ch[1] \in Results
      /\ ch' \in Seq(Results)
      /\ Len(ch') = Len(ch) - 1
      /\ \A j \in 1..(Len(ch) - 1) : ch'[j] = ch[j + 1]
  BY Received DEF Receives, RowsTyped
<1>2. EndedSet' = EndedSet
  BY <1>0 DEF EndedSet
<1>3. TypeOK'
  BY <1>0, <1>1, EndedCount, TopAssumption DEF TypeOK, LastResult
<1>4. RowsTyped'
  BY <1>0, <1>1 DEF RowsTyped
<1>5. ResultsCounted'
  BY <1>0, <1>1, <1>2, EndedCount DEF ResultsCounted, TypeOK
<1>6. PendingNow'
  <2> SUFFICES ASSUME NEW g \in Functions
               PROVE  /\ gor'[g] \in {"none", "scrape"} => at'[g] = 0
                      /\ gor'[g] = "send" => result'[g] \in GetFunctionMetrics(g)
                      /\ gor'[g] \in {"send", "ended"} => InMetrics(g)' \/ at'[g] = now'
                      /\ gor'[g] = "ended" =>
                            InMetrics(g)' \/ \E j \in 1..Len(ch') : ch'[j] \in GetFunctionMetrics(g)
                      /\ gor'[g] # "none" => g \in listed'
    BY DEF PendingNow
  <2>1. InMetrics(g) => InMetrics(g)'
    BY <1>0 DEF InMetrics
  <2>2. ASSUME gor[g] = "ended", ~InMetrics(g)
        PROVE  InMetrics(g)' \/ \E j \in 1..Len(ch') : ch'[j] \in GetFunctionMetrics(g)
    <3>1. PICK j \in 1..Len(ch) : ch[j] \in GetFunctionMetrics(g)
      BY <2>2 DEF PendingNow
    <3>2. CASE j = 1
      <4>1. \E r \in ch[1] : r.function = g
        BY <3>1, <3>2, RowsSound
      <4> QED
        BY <4>1, <1>0, <1>1 DEF InMetrics
    <3>3. CASE j # 1
      <4>1. j - 1 \in 1..Len(ch') /\ ch'[j - 1] = ch[j]
        BY <1>1, <3>3
      <4> QED
        BY <4>1, <3>1
    <3> QED
      BY <3>2, <3>3
  <2> QED
    BY <1>0, <2>1, <2>2 DEF PendingNow
<1>7. AverageOfRow'
  <2>1. \A r \in ch[1] : AverageOK(r)
    BY <1>1, RowsSound DEF Results
  <2> QED
    BY <1>0, <1>1, <2>1 DEF AverageOfRow, AverageOK
<1> QED
  BY <1>3, <1>4, <1>5, <1>6, <1>7

\* The loop ends, the list cannot be made, or the rows are printed.
LEMMA EndsStep ==
    ASSUME TopInv, Expires \/ ListFails \/ Prints
    PROVE  TopInv'
<1> USE DEF TopInv, Expires, ListFails, Prints
<1>1. EndedSet' = EndedSet
  BY DEF EndedSet
<1>2. TypeOK'
  BY EndedCount DEF TypeOK
<1>3. RowsTyped'
  BY DEF RowsTyped
<1>4. ResultsCounted'
  BY <1>1, EndedCount DEF ResultsCounted, LastResult, TypeOK
<1>5. PendingNow' /\ AverageOfRow'
  BY DEF PendingNow, InMetrics, AverageOfRow
<1> QED
  BY <1>2, <1>3, <1>4, <1>5

\* The clock goes on only when no rows are pending.
LEMMA TickStep ==
    ASSUME TopInv, Tick
    PROVE  TopInv'
<1> USE DEF TopInv, Tick
<1>1. EndedSet' = EndedSet
  BY DEF EndedSet
<1>2. TypeOK'
  BY TopAssumption DEF TypeOK
<1>3. RowsTyped'
  BY DEF RowsTyped
<1>4. ResultsCounted'
  BY <1>1 DEF ResultsCounted, LastResult
<1>5. PendingNow'
  <2>1. \A g \in Functions : gor[g] # "send"
    BY DEF PendingNow
  <2>2. Len(ch) = 0
    OBVIOUS
  <2>3. \A g \in Functions : gor[g] = "ended" => InMetrics(g)
    BY <2>2 DEF PendingNow
  <2> QED
    BY <2>1, <2>3 DEF PendingNow, InMetrics
<1>6. AverageOfRow'
  BY DEF AverageOfRow
<1> QED
  BY <1>2, <1>3, <1>4, <1>5, <1>6

\* Every step keeps the inductive invariant.
LEMMA NextTopInv == TopInv /\ [Next]_vars => TopInv'
<1> SUFFICES ASSUME TopInv, [Next]_vars PROVE TopInv'
  OBVIOUS
<1>1. CASE UNCHANGED vars
  <2>1. EndedSet' = EndedSet
    BY <1>1 DEF EndedSet, vars
  <2>2. TypeOK' /\ RowsTyped' /\ AverageOfRow'
    BY <1>1 DEF TopInv, TypeOK, RowsTyped, AverageOfRow, vars
  <2>3. ResultsCounted' /\ PendingNow'
    BY <1>1, <2>1 DEF TopInv, ResultsCounted, PendingNow, InMetrics, LastResult, vars
  <2> QED
    BY <2>2, <2>3 DEF TopInv
<1> QED
  BY <1>1, ListsStep, ScrapedStep, SendsStep, ReceivesStep, EndsStep, TickStep DEF Next, doTop

-----------------------------------------------------------------------------
(* The theorems                                                            *)

\* The invariant holds in every reachable state.
THEOREM TopInvariant == Spec => []TopInv
  BY InitTopInv, NextTopInv, PTL DEF Spec

\* The types: the counter stays within the list, the clock within the timer.
THEOREM TopTypeCorrect == Spec => []TypeOK
<1>1. TopInv => TypeOK
  BY DEF TopInv
<1> QED
  BY <1>1, TopInvariant, PTL

\* A goroutine with a result always finds room in the channel (top.go:82), also when
\* the command no longer receives.
THEOREM SendNeverBlocksTheorem == Spec => []SendNeverBlocks
<1>1. TopInv => SendNeverBlocks
  <2> SUFFICES ASSUME TopInv, NEW f \in listed, gor[f] = "send"
               PROVE  Len(ch) < Capacity
    BY DEF SendNeverBlocks
  <2>1. EndedSet # listed
    BY DEF EndedSet
  <2>2. Len(ch) \in Nat
    BY DEF TopInv, RowsTyped
  <2> QED
    BY <2>1, <2>2, EndedCount DEF TopInv, TypeOK, ResultsCounted, Capacity
<1> QED
  BY <1>1, TopInvariant, PTL

\* A function that had its rows before the last timer expired is in the output
\* (top.go:92-101).
THEOREM MissingOnlyIfLateTheorem == Spec => []MissingOnlyIfLate
<1>1. TopInv => MissingOnlyIfLate
  <2> SUFFICES ASSUME TopInv, pc = "done", NEW f \in listed
               PROVE  InMetrics(f) \/ at[f] = 0 \/ at[f] >= timer
    BY DEF MissingOnlyIfLate, InMetrics
  <2>1. LastResult /\ f \in Functions
    BY DEF TopInv, ResultsCounted, TypeOK
  <2>2. CASE now = timer
    BY <2>1, <2>2 DEF TopInv, PendingNow, TypeOK
  <2>3. CASE i + Len(ch) = Cardinality(EndedSet)
    <3>1. EndedSet = listed /\ Len(ch) = 0
      BY <2>1, <2>3, EndedCount DEF TopInv, TypeOK, RowsTyped, LastResult
    <3> QED
      BY <2>1, <3>1 DEF TopInv, PendingNow, EndedSet
  <2> QED
    BY <2>1, <2>2, <2>3 DEF TopInv, ResultsCounted
<1> QED
  BY <1>1, TopInvariant, PTL

\* The average of a row is that of its own durations and calls, for any methods the
\* endpoint lists under each metric (metrics.go:57-86).
THEOREM AverageOfRowTheorem == Spec => []AverageOfRow
<1>1. TopInv => AverageOfRow
  BY DEF TopInv
<1> QED
  BY <1>1, TopInvariant, PTL
=============================================================================
