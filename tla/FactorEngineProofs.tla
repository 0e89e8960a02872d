------------------------- MODULE FactorEngineProofs -------------------------
(***************************************************************************)
(* TLAPS proofs about FactorEngine, for every calendar, registry and run:  *)
(* the statements a batch computes with are current and indexed, what a    *)
(* provider is given is what it declared, and every value is as if its     *)
(* factor were computed alone.                                             *)
(***************************************************************************)
EXTENDS FactorEngine, NumberLemmas, SequenceTheorems

\* A cached year: no newer than its file, no older than its stamp, and with an index of
\* that very table, if it has one.
EntryOf(entry, newest) ==
  /\ entry = [cols |-> entry.cols, version |-> entry.version, stamp |-> entry.stamp, index |-> entry.index]
  /\ entry.stamp \in Nat /\ entry.version \in Nat
  /\ entry.stamp <= entry.version /\ entry.version <= newest
  /\ entry.index \in {NoIndex, IndexOf(entry)}

FilesOk ==
  /\ files \in [FileYears -> Nat] /\ began \in [FileYears -> Nat]
  /\ \A y \in FileYears : began[y] <= files[y]
CacheOk ==
  /\ DOMAIN cache \subseteq FileYears
  /\ \A y \in DOMAIN cache : EntryOf(cache[y], files[y])

\* The years of the batch that are done are loaded, and the stamp of the next one is no
\* older than the batch.
Loaded(y) == y \in DOMAIN cache /\ Wanted(work) \subseteq cache[y].cols /\ began[y] <= cache[y].version
Loading ==
  /\ todo \subseteq SourceYears(work) /\ (todo = {} => stamp = None)
  /\ \A y \in SourceYears(work) \ todo : Loaded(y)
  /\ stamp # None => \A y \in todo : (\A z \in todo : y <= z) =>
                       stamp \in Nat /\ began[y] <= stamp /\ stamp <= files[y]

Working == {"load", "view", "compute", "write", "finish"}
Sourced(y) ==
  /\ sources[y].version >= began[y]
  /\ Wanted(work) \subseteq sources[y].cols
  /\ sources[y].index = [cols |-> sources[y].cols, version |-> sources[y].version]

IInv ==
  /\ FilesOk
  /\ CacheOk
  /\ stage = "sources" => Loading
  /\ stage # "sources" => stamp = None
  /\ stage \in {"group", "begin", "sources", "done"} => DOMAIN sources = {}
  /\ stage \in Working => DOMAIN sources = SourceYears(work)
  /\ \A y \in DOMAIN sources : Sourced(y)

-----------------------------------------------------------------------------
(* What the operations of the cache preserve. *)

\* Files only get newer.
LEMMA EntryAges ==
  ASSUME NEW entry, NEW old \in Nat, NEW new \in Nat, EntryOf(entry, old), old <= new
  PROVE  EntryOf(entry, new)
BY DEF EntryOf

\* Dropping columns drops the index with them.
LEMMA NarrowedEntry ==
  ASSUME NEW entry, NEW newest, NEW columns, EntryOf(entry, newest)
  PROVE  EntryOf(Narrowed(entry, columns), newest)
BY DEF EntryOf, Narrowed, IndexOf

\* Retaining years and columns leaves cached years of the same files.
LEMMA RetainedEntries ==
  ASSUME NEW years, NEW columns, CacheOk
  PROVE  LET kept == RetainedColumns(cache, years, columns)
         IN  DOMAIN kept \subseteq FileYears /\ \A y \in DOMAIN kept : EntryOf(kept[y], files[y])
<1> DEFINE kept == RetainedColumns(cache, years, columns)
<1>1. DOMAIN kept = DOMAIN cache \cap years
  BY DEF RetainedColumns, Retained
<1>2. \A y \in DOMAIN kept : kept[y] = Narrowed(cache[y], columns)
  BY DEF RetainedColumns, Retained
<1> QED
  BY <1>1, <1>2, NarrowedEntry DEF CacheOk

\* Indexing leaves the tables and gives the years an index of theirs.
LEMMA IndexedEntry ==
  ASSUME NEW entry, NEW newest, EntryOf(entry, newest)
  PROVE  LET indexed == [entry EXCEPT !.index = IndexOf(entry)]
         IN  /\ EntryOf(indexed, newest)
             /\ indexed.cols = entry.cols /\ indexed.version = entry.version
             /\ indexed.index = IndexOf(entry)
BY DEF EntryOf, IndexOf

\* Indexing cached years keeps their columns and age.
LEMMA IndexedEntries ==
  ASSUME NEW years, CacheOk
  PROVE  LET with == Indexed(cache, years)
         IN  /\ DOMAIN with = DOMAIN cache
             /\ \A y \in DOMAIN cache :
                  /\ EntryOf(with[y], files[y])
                  /\ with[y].cols = cache[y].cols /\ with[y].version = cache[y].version
                  /\ y \in years => with[y].index = IndexOf(cache[y])
<1> DEFINE with == Indexed(cache, years)
<1>1. DOMAIN with = DOMAIN cache
  BY DEF Indexed
<1>2. SUFFICES ASSUME NEW y \in DOMAIN cache
               PROVE  /\ EntryOf(with[y], files[y])
                      /\ with[y].cols = cache[y].cols /\ with[y].version = cache[y].version
                      /\ y \in years => with[y].index = IndexOf(cache[y])
  BY <1>1
<1>3. EntryOf(cache[y], files[y])
  BY DEF CacheOk
<1>4. CASE y \in years /\ cache[y].index = NoIndex
  <2>1. with[y] = [cache[y] EXCEPT !.index = IndexOf(cache[y])]
    BY <1>4 DEF Indexed
  <2> QED
    BY <2>1, <1>3, IndexedEntry
<1>5. CASE ~(y \in years /\ cache[y].index = NoIndex)
  <2>1. with[y] = cache[y]
    BY <1>5 DEF Indexed
  <2> QED
    BY <2>1, <1>3, <1>5 DEF EntryOf
<1> QED
  BY <1>4, <1>5

\* A year that was read, or needed no reading, has the columns and is as new as the stamp.
LEMMA ReloadedEntries ==
  ASSUME NEW year \in FileYears, NEW columns, NEW taken \in Nat, taken <= files[year],
         FilesOk, CacheOk
  PROVE  LET after == IF NeedsReload(cache, year, columns, taken)
                      THEN Reloaded(cache, year, columns, taken, files[year]) ELSE cache
         IN  /\ DOMAIN after = DOMAIN cache \cup {year}
             /\ \A y \in DOMAIN cache \ {year} : after[y] = cache[y]
             /\ EntryOf(after[year], files[year])
             /\ columns \subseteq after[year].cols
             /\ year \in DOMAIN cache => cache[year].cols \subseteq after[year].cols
             /\ taken <= after[year].version
<1>1. files[year] \in Nat
  BY DEF FilesOk
<1>2. CASE NeedsReload(cache, year, columns, taken)
  <2> DEFINE kept == IF year \in DOMAIN cache THEN cache[year].cols ELSE {}
             entry == [cols |-> kept \cup columns, version |-> files[year], stamp |-> taken, index |-> NoIndex]
             after == Reloaded(cache, year, columns, taken, files[year])
  <2>1. after = [y \in DOMAIN cache \cup {year} |-> IF y = year THEN entry ELSE cache[y]]
    BY DEF Reloaded
  <2>2. EntryOf(entry, files[year])
    BY <1>1 DEF EntryOf
  <2>3. columns \subseteq entry.cols /\ (year \in DOMAIN cache => cache[year].cols \subseteq entry.cols)
    OBVIOUS
  <2> QED
    BY <1>2, <2>1, <2>2, <2>3
<1>3. CASE ~NeedsReload(cache, year, columns, taken)
  <2>1. year \in DOMAIN cache /\ columns \subseteq cache[year].cols /\ cache[year].stamp = taken
    BY <1>3 DEF NeedsReload
  <2>2. EntryOf(cache[year], files[year])
    BY <2>1 DEF CacheOk
  <2> QED
    BY <1>3, <2>1, <2>2 DEF EntryOf
<1> QED
  BY <1>2, <1>3

\* Only years that have a file are loaded.
LEMMA SourceYearsAreFiles == ASSUME NEW w PROVE SourceYears(w) \subseteq FileYears
BY DEF SourceYears

-----------------------------------------------------------------------------
\* A run begins with no cached year.
LEMMA InitIInv == Init => IInv
BY YearsAssumption DEF Init, IInv, FilesOk, CacheOk, Working

\* A file that is replaced is newer than what was read of it and than its stamp.
LEMMA UpdateKeepsIInv == ASSUME IInv, NEW y \in FileYears, UpdateFile(y) PROVE IInv'
<1> USE DEF IInv
<1>1. /\ UNCHANGED <<stage, cache, todo, stamp, work, began, sources>>
      /\ stage # "done" /\ files' = [files EXCEPT ![y] = @ + 1]
  BY DEF UpdateFile, planVars, batchVars
<1>2. /\ files' \in [FileYears -> Nat]
      /\ \A z \in FileYears : files[z] \in Nat /\ began[z] \in Nat /\ files[z] <= files'[z]
  BY <1>1 DEF FilesOk
<1>3. FilesOk'
  BY <1>1, <1>2 DEF FilesOk
<1>4. CacheOk'
  <2> SUFFICES ASSUME NEW z \in DOMAIN cache PROVE EntryOf(cache[z], files'[z])
    BY <1>1 DEF CacheOk
  <2>1. z \in FileYears /\ EntryOf(cache[z], files[z])
    BY DEF CacheOk
  <2>2. files[z] \in Nat /\ files'[z] \in Nat /\ files[z] <= files'[z]
    BY <2>1, <1>2
  <2> QED
    BY <2>1, <2>2, EntryAges
<1>5. SourceYears(work)' = SourceYears(work) /\ Wanted(work)' = Wanted(work)
  BY <1>1 DEF SourceYears, Window, Wanted
<1>6. stage = "sources" => Loading'
  <2> SUFFICES ASSUME stage = "sources" PROVE Loading'
    OBVIOUS
  <2>1. Loading /\ todo \subseteq FileYears
    BY SourceYearsAreFiles DEF Loading
  <2>2. \A z \in SourceYears(work) \ todo : Loaded(z)'
    BY <1>1, <1>5, <2>1 DEF Loading, Loaded
  <2>3. ASSUME stamp # None, NEW z \in todo, \A x \in todo : z <= x
        PROVE  stamp \in Nat /\ began[z] <= stamp /\ stamp <= files'[z]
    BY <1>2, <2>1, <2>3 DEF Loading
  <2> QED
    BY <1>1, <1>5, <2>1, <2>2, <2>3 DEF Loading
<1>7. \A z \in DOMAIN sources : Sourced(z)'
  BY <1>1, <1>5 DEF Sourced
<1> QED
  BY <1>1, <1>3, <1>4, <1>5, <1>6, <1>7

\* A batch begins with nothing loaded and no table given out.
LEMMA BeginKeepsIInv == ASSUME IInv, BeginBatch PROVE IInv'
<1> USE DEF IInv
<1>1. /\ stage = "begin" /\ stage' = "sources"
      /\ cache' = RetainedColumns(cache, Window(work'), Wanted(work'))
      /\ todo' = SourceYears(work') /\ began' = files
      /\ UNCHANGED <<files, stamp, sources>>
  BY DEF BeginBatch
<1>2. stamp' = None /\ DOMAIN sources' = {}
  BY <1>1
<1>3. FilesOk'
  BY <1>1 DEF FilesOk
<1>4. CacheOk'
  BY <1>1, RetainedEntries DEF CacheOk
<1>5. SourceYears(work)' = SourceYears(work')
  BY DEF SourceYears, Window
<1>6. Loading'
  BY <1>1, <1>2, <1>5 DEF Loading
<1> QED
  BY <1>1, <1>2, <1>3, <1>4, <1>6 DEF Working

\* A stamp is taken when the batch has begun.
LEMMA StampKeepsIInv == ASSUME IInv, NEW y \in FileYears, StampYear(y) PROVE IInv'
<1> USE DEF IInv
<1>1. /\ stage = "sources" /\ y \in todo /\ \A z \in todo : y <= z
      /\ stamp' = files[y]
      /\ UNCHANGED <<stage, files, cache, todo, work, began, sources>>
  BY DEF StampYear, Due, planVars, batchVars
<1>2. SourceYears(work)' = SourceYears(work) /\ Wanted(work)' = Wanted(work)
  BY <1>1 DEF SourceYears, Window, Wanted
<1>3. FilesOk' /\ CacheOk' /\ DOMAIN sources' = {}
  BY <1>1 DEF FilesOk, CacheOk
<1>4. Loading'
  <2>1. ASSUME NEW z \in todo, \A x \in todo : z <= x
        PROVE  files[y] \in Nat /\ began[z] <= files[y] /\ files[y] <= files[z]
    <3>1. todo \subseteq FileYears
      BY <1>1, SourceYearsAreFiles DEF Loading
    <3>2. z \in Nat /\ y \in Nat /\ y <= z /\ z <= y
      BY <1>1, <2>1, <3>1, YearsAssumption
    <3>3. z = y
      BY <3>2
    <3> QED
      BY <3>1, <3>3, <1>1 DEF FilesOk
  <2>2. \A z \in SourceYears(work) \ todo : Loaded(z)'
    BY <1>1, <1>2 DEF Loading, Loaded
  <2> QED
    BY <1>1, <1>2, <2>1, <2>2 DEF Loading
<1> QED
  BY <1>1, <1>3, <1>4 DEF Working

\* The year is loaded afterwards, and the others are as they were.
LEMMA LoadYearKeepsIInv == ASSUME IInv, NEW y \in FileYears, LoadYear(y) PROVE IInv'
<1> USE DEF IInv
<1> DEFINE after == IF NeedsReload(cache, y, Wanted(work), stamp)
                    THEN Reloaded(cache, y, Wanted(work), stamp, files[y]) ELSE cache
<1>1. /\ stage = "sources" /\ y \in todo /\ \A z \in todo : y <= z
      /\ stamp # None /\ cache' = after /\ todo' = todo \ {y} /\ stamp' = None
      /\ UNCHANGED <<stage, files, work, began, sources>>
  BY DEF LoadYear, Due, planVars, batchVars
<1>2. SourceYears(work)' = SourceYears(work) /\ Wanted(work)' = Wanted(work)
  BY <1>1 DEF SourceYears, Window, Wanted
<1>3. stamp \in Nat /\ began[y] <= stamp /\ stamp <= files[y]
  BY <1>1 DEF Loading
<1>4. /\ DOMAIN after = DOMAIN cache \cup {y}
      /\ \A z \in DOMAIN cache \ {y} : after[z] = cache[z]
      /\ EntryOf(after[y], files[y])
      /\ Wanted(work) \subseteq after[y].cols
      /\ stamp <= after[y].version
  BY <1>3, ReloadedEntries
<1>5. FilesOk' /\ DOMAIN sources' = {}
  BY <1>1 DEF FilesOk
<1>6. CacheOk'
  <2>1. \A z \in DOMAIN after : z \in FileYears /\ EntryOf(after[z], files[z])
    BY <1>4 DEF CacheOk
  <2> QED
    BY <1>1, <2>1 DEF CacheOk
<1>7. Loading'
  <2> SUFFICES ASSUME NEW z \in SourceYears(work) \ (todo \ {y}) PROVE Loaded(z)'
    BY <1>1, <1>2 DEF Loading
  <2>1. CASE z = y
    <3>1. began[y] \in Nat /\ after[y].version \in Nat
      BY <1>4 DEF FilesOk, EntryOf
    <3>2. began[y] <= after[y].version
      BY <3>1, <1>3, <1>4
    <3> QED
      BY <2>1, <3>2, <1>1, <1>2, <1>4 DEF Loaded
  <2>2. CASE z # y
    <3>1. Loaded(z)
      BY <1>1, <2>2 DEF Loading
    <3>2. z \in DOMAIN after /\ after[z] = cache[z]
      BY <2>2, <3>1, <1>4 DEF Loaded
    <3> QED
      BY <3>1, <3>2, <1>1, <1>2 DEF Loaded
  <2> QED
    BY <2>1, <2>2
<1> QED
  BY <1>1, <1>5, <1>6, <1>7 DEF Working

\* What is given out was loaded for this batch, and has an index of its own.
LEMMA SharedKeepsIInv == ASSUME IInv, LoadShared PROVE IInv'
<1> USE DEF IInv
<1> DEFINE with == Indexed(cache, SourceYears(work))
<1>1. /\ stage = "sources" /\ todo = {} /\ stage' = "load"
      /\ cache' = with /\ sources' = [y \in SourceYears(work) |-> cache'[y]]
      /\ UNCHANGED <<files, work, todo, stamp, began>>
  BY DEF LoadShared, planVars
<1>2. SourceYears(work)' = SourceYears(work) /\ Wanted(work)' = Wanted(work)
  BY <1>1 DEF SourceYears, Window, Wanted
<1>3. /\ DOMAIN with = DOMAIN cache
      /\ \A y \in DOMAIN cache :
           /\ EntryOf(with[y], files[y])
           /\ with[y].cols = cache[y].cols /\ with[y].version = cache[y].version
           /\ y \in SourceYears(work) => with[y].index = IndexOf(cache[y])
  BY IndexedEntries
<1>4. stamp = None
  <2>1. Loading
    BY <1>1
  <2> QED
    BY <1>1, <2>1 DEF Loading
<1>5. FilesOk' /\ CacheOk'
  BY <1>1, <1>3 DEF FilesOk, CacheOk
<1>6. DOMAIN sources' = SourceYears(work)'
  BY <1>1, <1>2
<1>7. ASSUME NEW y \in SourceYears(work) PROVE Sourced(y)'
  <2>1. Loaded(y) /\ y \in FileYears
    BY <1>1, SourceYearsAreFiles DEF Loading
  <2>2. sources'[y] = with[y]
    BY <1>1
  <2>3. /\ with[y].cols = cache[y].cols /\ with[y].version = cache[y].version
        /\ with[y].index = [cols |-> cache[y].cols, version |-> cache[y].version]
    BY <1>3, <2>1 DEF Loaded, IndexOf
  <2>4. began[y] \in Nat /\ cache[y].version \in Nat /\ began[y] <= cache[y].version
    BY <2>1 DEF Loaded, FilesOk, CacheOk, EntryOf
  <2>5. began'[y] <= sources'[y].version
    BY <1>1, <2>2, <2>3, <2>4
  <2> QED
    BY <1>1, <1>2, <2>1, <2>2, <2>3, <2>4, <2>5 DEF Sourced, Loaded
<1> QED
  BY <1>1, <1>2, <1>4, <1>5, <1>6, <1>7 DEF Working

\* The other steps of a batch touch neither files, cache nor what is given out.
LEMMA BatchKeepsIInv ==
  ASSUME IInv, BeginGroup \/ LoadBatch \/ MakeViews \/ Compute \/ Fail
               \/ WriteResults \/ KeepResults \/ WriteFullBuffer
  PROVE  IInv'
<1> USE DEF IInv
<1>1. UNCHANGED <<work, files, cache, todo, stamp, began, sources>> /\ stage # "sources" /\ stage' # "sources"
  BY DEF BeginGroup, LoadBatch, MakeViews, Compute, Fail, WriteResults, KeepResults,
         WriteFullBuffer, Cleared, NextProviders, planVars, batchVars
<1>2. \/ stage = "group" /\ stage' = "begin"
      \/ stage \in Working /\ stage' \in Working \cup {"failed"}
  BY DEF BeginGroup, LoadBatch, MakeViews, Compute, Fail, WriteResults, KeepResults,
         WriteFullBuffer, NextProviders, Working
<1>3. SourceYears(work)' = SourceYears(work) /\ Wanted(work)' = Wanted(work)
  BY <1>1 DEF SourceYears, Window, Wanted
<1>4. FilesOk' /\ CacheOk' /\ \A y \in DOMAIN sources : Sourced(y)'
  BY <1>1, <1>3 DEF FilesOk, CacheOk, Sourced
<1> QED
  BY <1>1, <1>2, <1>3, <1>4 DEF Working

\* A batch ends: what was given out is taken back, and years outside its window go.
LEMMA FinishKeepsIInv == ASSUME IInv, FinishBatch PROVE IInv'
<1> USE DEF IInv
<1>1. /\ stage = "finish" /\ stage' \in {"begin", "group", "done"}
      /\ cache' = Retained(cache, Window(work)) /\ sources' = [y \in {} |-> None]
      /\ UNCHANGED <<files, stamp, began>>
  BY DEF FinishBatch, NextDates
<1>2. FilesOk' /\ CacheOk'
  BY <1>1 DEF FilesOk, CacheOk, Retained
<1> QED
  BY <1>1, <1>2 DEF Working

\* No step leaves the cache or the sources out of date.
LEMMA NextKeepsIInv == IInv /\ [Next]_vars => IInv'
<1> SUFFICES ASSUME IInv, [Next]_vars PROVE IInv'
  OBVIOUS
<1>1. CASE UNCHANGED vars
  <2>1. UNCHANGED <<stage, files, cache, todo, stamp, work, began, sources>>
    BY <1>1 DEF vars, planVars, batchVars
  <2>2. SourceYears(work)' = SourceYears(work) /\ Wanted(work)' = Wanted(work)
    BY <2>1 DEF SourceYears, Window, Wanted
  <2> QED
    BY <2>1, <2>2 DEF IInv, FilesOk, CacheOk, Loading, Loaded, Sourced
<1>2. CASE \E y \in FileYears : UpdateFile(y) \/ StampYear(y) \/ LoadYear(y)
  BY <1>2, UpdateKeepsIInv, StampKeepsIInv, LoadYearKeepsIInv
<1>3. CASE BeginBatch
  BY <1>3, BeginKeepsIInv
<1>4. CASE LoadShared
  BY <1>4, SharedKeepsIInv
<1>5. CASE \/ BeginGroup \/ LoadBatch \/ MakeViews \/ Compute \/ Fail
           \/ WriteResults \/ KeepResults \/ WriteFullBuffer
  BY <1>5, BatchKeepsIInv
<1>6. CASE FinishBatch
  BY <1>6, FinishKeepsIInv
<1> QED
  BY <1>1, <1>2, <1>3, <1>4, <1>5, <1>6 DEF Next

\* However files are replaced while batches keep years, widen and narrow them: the
\* statements a batch computes with cover its window and its columns, are no older than the
\* files were when it began, and are indexed as they are.
THEOREM SourcesAreCurrent == Spec => []SourcesCurrent
<1>1. IInv => SourcesCurrent
  BY DEF IInv, SourcesCurrent, Sourced, Working
<1> QED
  BY <1>1, InitIInv, NextKeepsIInv, PTL DEF Spec

-----------------------------------------------------------------------------
(* Sorted sets, and the parts of a sequence. *)

\* A finite set of numbers in their order.
LEMMA AscendingIs ==
  ASSUME NEW S, S \subseteq Nat, IsFiniteSet(S)
  PROVE  /\ Cardinality(S) \in Nat /\ DOMAIN Ascending(S) = 1 .. Cardinality(S)
         /\ Ascending(S) \in Seq(S) /\ Len(Ascending(S)) = Cardinality(S)
         /\ \A i \in 1 .. Cardinality(S) : Ascending(S)[i] \in S
         /\ \A i, j \in 1 .. Cardinality(S) : i < j => Ascending(S)[i] < Ascending(S)[j]
         /\ \A n \in S : \E i \in 1 .. Cardinality(S) : Ascending(S)[i] = n
         /\ \A i \in 1 .. Cardinality(S) : Cardinality({m \in S : m < Ascending(S)[i]}) = i - 1
<1> DEFINE before(n) == {m \in S : m < n}
           rank(n) == Cardinality(before(n))
           size == Cardinality(S)
           place == [n \in S |-> rank(n) + 1]
           A == Ascending(S)
<1>1. size \in Nat
  BY FS_CardinalityType
<1>2. \A n \in S : IsFiniteSet(before(n)) /\ rank(n) \in Nat /\ rank(n) + 1 \in 1 .. size
  <2> SUFFICES ASSUME NEW n \in S PROVE IsFiniteSet(before(n)) /\ rank(n) \in Nat /\ rank(n) + 1 \in 1 .. size
    OBVIOUS
  <2>1. before(n) \subseteq S \ {n}
    OBVIOUS
  <2>2. IsFiniteSet(S \ {n}) /\ Cardinality(S \ {n}) = size - 1
    BY FS_RemoveElement
  <2>3. IsFiniteSet(before(n)) /\ rank(n) <= size - 1
    <3> HIDE DEF before, size
    <3> QED
      BY <2>1, <2>2, FS_Subset
  <2>4. rank(n) \in Nat
    <3> HIDE DEF before
    <3> QED
      BY <2>3, FS_CardinalityType
  <2> QED
    BY <1>1, <2>3, <2>4
<1>3. \A m, n \in S : m < n => rank(m) < rank(n)
  <2> SUFFICES ASSUME NEW m \in S, NEW n \in S, m < n PROVE rank(m) < rank(n)
    OBVIOUS
  <2>0. m < n /\ m \in Nat /\ n \in Nat /\ \A k \in S : k \in Nat
    OBVIOUS
  <2>1. before(m) \subseteq before(n) /\ m \in before(n) /\ m \notin before(m)
    <3>1. \A k \in S : k < m => k < n
      BY <2>0
    <3>2. ~(m < m)
      BY <2>0
    <3> QED
      BY <2>0, <3>1, <3>2
  <2>2. IsFiniteSet(before(n)) /\ rank(m) \in Nat /\ rank(n) \in Nat
    BY <1>2
  <2> HIDE DEF before
  <2>3. rank(m) <= rank(n) /\ rank(m) # rank(n)
    BY <2>1, <2>2, FS_Subset
  <2> QED
    BY <2>2, <2>3
<1>4. \A m, n \in S : rank(m) < rank(n) => m < n
  <2> SUFFICES ASSUME NEW m \in S, NEW n \in S, rank(m) < rank(n) PROVE m < n
    OBVIOUS
  <2>1. m \in Nat /\ n \in Nat /\ rank(m) \in Nat /\ rank(n) \in Nat
    BY <1>2
  <2>2. ~(n < m) /\ m # n
    <3> HIDE DEF rank
    <3> QED
      BY <1>3, <2>1
  <2> QED
    BY <2>1, <2>2
<1>5. place \in Injection(S, 1 .. size)
  <2>1. place \in [S -> 1 .. size]
    BY <1>2
  <2>2. \A m, n \in S : rank(m) = rank(n) => m = n
    <3> SUFFICES ASSUME NEW m \in S, NEW n \in S, rank(m) = rank(n) PROVE m = n
      OBVIOUS
    <3>1. m \in Nat /\ n \in Nat /\ rank(m) \in Nat /\ rank(n) \in Nat
      BY <1>2
    <3>2. ~(m < n) /\ ~(n < m)
      <4> HIDE DEF rank
      <4> QED
        BY <1>3, <3>1
    <3> QED
      BY <3>1, <3>2
  <2>3. \A m, n \in S : place[m] = place[n] => m = n
    <3>1. \A n \in S : rank(n) \in Nat /\ place[n] = rank(n) + 1
      BY <1>2
    <3> HIDE DEF rank, place
    <3> QED
      BY <2>2, <3>1
  <2> QED
    BY <2>1, <2>3 DEF Injection, IsInjective
<1>6. place \in Surjection(S, 1 .. size)
  <2>1. IsFiniteSet(1 .. size) /\ Cardinality(1 .. size) = size
    BY <1>1, FS_Interval
  <2> HIDE DEF place
  <2> QED
    BY <1>5, <2>1, FS_Injection
<1>7. \A i \in 1 .. size : \E n \in S : rank(n) = i - 1
  <2> SUFFICES ASSUME NEW i \in 1 .. size PROVE \E n \in S : rank(n) = i - 1
    OBVIOUS
  <2>1. PICK n \in S : place[n] = i
    BY <1>6 DEF Surjection
  <2>2. rank(n) + 1 = i /\ rank(n) \in Nat
    BY <1>2, <2>1
  <2> HIDE DEF rank
  <2>3. rank(n) = i - 1
    BY <2>2
  <2> QED
    BY <2>3
<1>8. \A i \in 1 .. size : A[i] \in S /\ rank(A[i]) = i - 1
  <2>1. \A i \in 1 .. size : A[i] = CHOOSE n \in S : rank(n) = i - 1
    BY DEF Ascending
  <2> HIDE DEF rank, A
  <2> QED
    BY <1>7, <2>1
<1>9. DOMAIN A = 1 .. size
  BY DEF Ascending
<1>10. A \in Seq(S) /\ Len(A) = size
  <2> DEFINE Of(i) == CHOOSE n \in S : Cardinality({m \in S : m < n}) = i - 1
  <2>0. A = [i \in 1 .. size |-> Of(i)]
    BY DEF Ascending
  <2> HIDE DEF Of, A
  <2>1. A = [i \in 1 .. size |-> A[i]]
    BY <2>0
  <2>2. A \in [1 .. size -> S]
    BY <1>8, <2>1
  <2> QED
    BY <1>1, <1>9, <2>2, SeqDef, LenProperties
<1>11. ASSUME NEW i \in 1 .. size, NEW j \in 1 .. size, i < j PROVE A[i] < A[j]
  <2>1. A[i] \in S /\ A[j] \in S /\ rank(A[i]) < rank(A[j])
    <3>1. A[i] \in S /\ A[j] \in S /\ rank(A[i]) = i - 1 /\ rank(A[j]) = j - 1
      BY <1>8
    <3> HIDE DEF rank, A
    <3> QED
      BY <1>1, <1>11, <3>1
  <2> HIDE DEF rank, A
  <2> QED
    BY <1>4, <2>1
<1>12. ASSUME NEW n \in S PROVE \E i \in 1 .. size : A[i] = n
  <2> DEFINE i == rank(n) + 1
  <2>1. i \in 1 .. size /\ rank(n) \in Nat
    BY <1>2
  <2>2. A[i] \in S /\ rank(A[i]) = rank(n)
    <3>1. A[i] \in S /\ rank(A[i]) = i - 1
      BY <1>8, <2>1
    <3> HIDE DEF A, rank
    <3> QED
      BY <2>1, <3>1
  <2>3. A[i] = n
    <3>1. n \in Nat /\ A[i] \in Nat /\ rank(n) \in Nat
      BY <2>1, <2>2
    <3>2. ~(A[i] < n) /\ ~(n < A[i])
      <4> HIDE DEF A, rank, i
      <4> QED
        BY <1>3, <2>1, <2>2, <3>1
    <3> HIDE DEF A, i
    <3> QED
      BY <3>1, <3>2
  <2> QED
    BY <2>1, <2>3
<1>13. \A i \in 1 .. size : Cardinality({m \in S : m < A[i]}) = i - 1
  BY <1>8
<1> HIDE DEF A, size, rank
<1>14. \A i, j \in 1 .. size : i < j => A[i] < A[j]
  BY <1>11
<1> QED
  BY <1>1, <1>8, <1>9, <1>10, <1>12, <1>13, <1>14 DEF A, size

\* The elements at some places of a sequence.
LEMMA PickedPlaces ==
  ASSUME NEW X, NEW s \in Seq(X), NEW at, at \subseteq DOMAIN s
  PROVE  /\ IsFiniteSet(at) /\ Picked(s, at) \in Seq(X) /\ Len(Picked(s, at)) = Cardinality(at)
         /\ DOMAIN Picked(s, at) = 1 .. Cardinality(at)
         /\ \A k \in DOMAIN Picked(s, at) : Ascending(at)[k] \in at /\ Picked(s, at)[k] = s[Ascending(at)[k]]
         /\ \A i \in at : \E k \in DOMAIN Picked(s, at) : Ascending(at)[k] = i
<1> DEFINE A == Ascending(at)
           t == Picked(s, at)
           size == Cardinality(at)
<1>1. DOMAIN s = 1 .. Len(s) /\ Len(s) \in Nat /\ \A i \in DOMAIN s : s[i] \in X
  BY LenProperties, ElementOfSeq
<1>2. IsFiniteSet(at) /\ at \subseteq Nat
  <2>1. IsFiniteSet(1 .. Len(s))
    BY <1>1, FS_Interval
  <2> QED
    BY <1>1, <2>1, FS_Subset
<1>3. /\ size \in Nat /\ DOMAIN A = 1 .. size
      /\ \A k \in 1 .. size : A[k] \in at
      /\ \A i \in at : \E k \in 1 .. size : A[k] = i
  BY <1>2, AscendingIs
<1>4. t = [k \in 1 .. size |-> s[A[k]]]
  BY <1>3 DEF Picked
<1> HIDE DEF A, t, size
<1>5. t \in [1 .. size -> X]
  BY <1>1, <1>3, <1>4
<1>6. t \in Seq(X) /\ Len(t) = size /\ DOMAIN t = 1 .. size
  BY <1>3, <1>5, SeqDef, LenProperties
<1>7. \A k \in DOMAIN t : A[k] \in at /\ t[k] = s[A[k]]
  BY <1>3, <1>4, <1>6
<1>8. \A i \in at : \E k \in DOMAIN t : A[k] = i
  BY <1>3, <1>6
<1> QED
  BY <1>2, <1>6, <1>7, <1>8 DEF A, t, size

\* What is picked from a sequence is the elements at the picked places.
LEMMA PickedIs ==
  ASSUME NEW X, NEW s \in Seq(X), NEW at, at \subseteq DOMAIN s
  PROVE  /\ IsFiniteSet(at) /\ Picked(s, at) \in Seq(X)
         /\ (at # {} => Picked(s, at) # <<>>)
         /\ Elements(Picked(s, at)) = {s[i] : i \in at}
<1> DEFINE A == Ascending(at)
           t == Picked(s, at)
<1>1. /\ IsFiniteSet(at) /\ t \in Seq(X) /\ Len(t) = Cardinality(at)
      /\ \A k \in DOMAIN t : A[k] \in at /\ t[k] = s[A[k]]
      /\ \A i \in at : \E k \in DOMAIN t : A[k] = i
  BY PickedPlaces
<1> HIDE DEF A, t
<1>2. Elements(t) = {s[i] : i \in at}
  <2>1. \A i \in at : \E k \in DOMAIN t : t[k] = s[i]
    BY <1>1
  <2> QED
    BY <1>1, <2>1 DEF Elements
<1>3. at # {} => t # <<>>
  <2>1. at # {} => DOMAIN t # {}
    BY <1>1
  <2> QED
    BY <2>1, EmptySeq
<1> QED
  BY <1>1, <1>2, <1>3 DEF t

-----------------------------------------------------------------------------
(* Execution groups and provider batches. *)

Kinds == {"daily", "raw", "minute", "stream"}

\* A factor is in one of the groups.
Includes(list, f) == \E g \in Elements(list) : f \in Elements(g.factors)

\* Groups of factors among those of fs.
GroupsFrom(fs) ==
  {g \in [stage : Kinds, factors : Seq(Elements(fs)) \ {<<>>}] :
     \A f \in Elements(g.factors) : Factors[f].kind = g.stage}

\* The elements of a sequence.
LEMMA SequenceElements ==
  ASSUME NEW X, NEW s \in Seq(X)
  PROVE  /\ Len(s) \in Nat /\ DOMAIN s = 1 .. Len(s) /\ Elements(s) \subseteq X /\ s \in Seq(Elements(s))
         /\ \A i \in DOMAIN s : s[i] \in Elements(s)
         /\ (s # <<>> <=> Len(s) >= 1)
<1>1. Len(s) \in Nat /\ DOMAIN s = 1 .. Len(s) /\ \A i \in DOMAIN s : s[i] \in X
  BY LenProperties, ElementOfSeq
<1>2. Elements(s) \subseteq X /\ \A i \in DOMAIN s : s[i] \in Elements(s)
  BY <1>1 DEF Elements
<1>3. s \in Seq(Elements(s))
  BY <1>1, <1>2, SeqDef, LenProperties
<1>4. s # <<>> <=> Len(s) # 0
  BY EmptySeq
<1> QED
  BY <1>1, <1>2, <1>3, <1>4

\* One group for every value of the key.
LEMMA GroupsOfIs ==
  ASSUME NEW fs \in Seq(DOMAIN Factors), NEW kind \in Kinds, NEW key, \A f \in DOMAIN Factors : key[f] \in Nat
  PROVE  /\ GroupsOf(fs, kind, key) \in Seq(GroupsFrom(fs))
         /\ \A f \in Elements(fs) : Factors[f].kind = kind => Includes(GroupsOf(fs, kind, key), f)
<1> DEFINE members == {i \in DOMAIN fs : Factors[fs[i]].kind = kind}
           values == {key[fs[i]] : i \in members}
           keys == Ascending(values)
           places(k) == {i \in members : key[fs[i]] = keys[k]}
           list == GroupsOf(fs, kind, key)
<1>1. Len(fs) \in Nat /\ DOMAIN fs = 1 .. Len(fs) /\ (\A i \in DOMAIN fs : fs[i] \in DOMAIN Factors) /\ fs \in Seq(Elements(fs))
  BY SequenceElements, ElementOfSeq
<1>2. values \subseteq Nat /\ IsFiniteSet(values)
  <2>1. IsFiniteSet(members)
    <3>1. IsFiniteSet(DOMAIN fs)
      BY <1>1, FS_Interval
    <3> QED
      BY <3>1, FS_Subset
  <2>2. [i \in members |-> key[fs[i]]] \in Surjection(members, values)
    BY DEF Surjection
  <2>3. IsFiniteSet(values)
    <3> HIDE DEF members, values
    <3> QED
      BY <2>1, <2>2, FS_Surjection
  <2> QED
    BY <1>1, <2>3
<1>3. /\ Cardinality(values) \in Nat /\ DOMAIN keys = 1 .. Cardinality(values)
      /\ \A k \in DOMAIN keys : keys[k] \in values
      /\ \A v \in values : \E k \in DOMAIN keys : keys[k] = v
  <2> HIDE DEF values
  <2> QED
    BY <1>2, AscendingIs
<1>4. list = [k \in DOMAIN keys |-> [stage |-> kind, factors |-> Picked(fs, places(k))]]
  BY DEF GroupsOf
<1>5. ASSUME NEW k \in DOMAIN keys
      PROVE  /\ Picked(fs, places(k)) \in Seq(Elements(fs)) \ {<<>>}
             /\ Elements(Picked(fs, places(k))) = {fs[i] : i \in places(k)}
  <2>1. PICK i \in members : key[fs[i]] = keys[k]
    BY <1>3
  <2>2. places(k) \subseteq DOMAIN fs /\ i \in places(k)
    BY <2>1
  <2> DEFINE at == places(k)
             t == Picked(fs, at)
  <2> HIDE DEF at
  <2>3. at \subseteq DOMAIN fs /\ at # {}
    BY <2>2 DEF at
  <2>4. t \in Seq(Elements(fs)) /\ t # <<>> /\ Elements(t) = {fs[j] : j \in at}
    BY <1>1, <2>3, PickedIs
  <2> QED
    BY <2>4 DEF at
<1>6. ASSUME NEW k \in DOMAIN keys PROVE [stage |-> kind, factors |-> Picked(fs, places(k))] \in GroupsFrom(fs)
  <2> DEFINE t == Picked(fs, places(k))
  <2>0. Elements(t) = {fs[i] : i \in places(k)} /\ t \in Seq(Elements(fs)) \ {<<>>}
    BY <1>5
  <2>1. t \in Seq(Elements(fs)) \ {<<>>} /\ \A f \in Elements(t) : Factors[f].kind = kind
    <3> HIDE DEF t
    <3> QED
      BY <2>0
  <2> HIDE DEF t
  <2>2. [stage |-> kind, factors |-> t] \in GroupsFrom(fs)
    BY <2>1 DEF GroupsFrom
  <2> QED
    BY <2>2 DEF t
<1> DEFINE group(k) == [stage |-> kind, factors |-> Picked(fs, places(k))]
<1>7. ASSUME NEW f \in Elements(fs), Factors[f].kind = kind
      PROVE  \E k \in DOMAIN keys : f \in Elements(group(k).factors)
  <2>1. PICK i \in members : fs[i] = f
    BY <1>7 DEF Elements
  <2>2. PICK k \in DOMAIN keys : keys[k] = key[fs[i]]
    BY <1>3, <2>1
  <2>3. i \in places(k)
    BY <2>2
  <2>4. f \in Elements(Picked(fs, places(k)))
    BY <1>5, <2>1, <2>3
  <2> QED
    BY <2>4
<1>8. list = [k \in DOMAIN keys |-> group(k)] /\ \A k \in DOMAIN keys : group(k) \in GroupsFrom(fs)
  BY <1>4, <1>6
<1> HIDE DEF group, list, keys, values
<1>9. list \in Seq(GroupsFrom(fs)) /\ DOMAIN list = DOMAIN keys
  BY <1>3, <1>8, SeqDef
<1>10. \A f \in Elements(fs) : Factors[f].kind = kind => Includes(list, f)
  <2>1. \A k \in DOMAIN keys : group(k) \in Elements(list)
    BY <1>8, <1>9 DEF Elements
  <2> QED
    BY <1>7, <2>1 DEF Includes
<1> QED
  BY <1>9, <1>10 DEF list

\* Two lists after one another.
LEMMA Joined ==
  ASSUME NEW X, NEW s \in Seq(X), NEW t \in Seq(X)
  PROVE  s \o t \in Seq(X) /\ Elements(s \o t) = Elements(s) \union Elements(t)
<1>1. /\ s \o t \in Seq(X) /\ Len(s \o t) = Len(s) + Len(t)
      /\ \A i \in 1 .. Len(s) + Len(t) : (s \o t)[i] = IF i <= Len(s) THEN s[i] ELSE t[i - Len(s)]
  BY ConcatProperties
<1>2. Len(s) \in Nat /\ DOMAIN s = 1 .. Len(s) /\ Len(t) \in Nat /\ DOMAIN t = 1 .. Len(t)
  BY LenProperties
<1> DEFINE u == s \o t
<1> HIDE DEF u
<1>3. DOMAIN u = 1 .. Len(s) + Len(t)
  <2>1. DOMAIN u = 1 .. Len(u) /\ Len(u) = Len(s) + Len(t)
    BY <1>1, LenProperties DEF u
  <2> QED
    BY <2>1
<1>4. ASSUME NEW x \in Elements(u) PROVE x \in Elements(s) \union Elements(t)
  <2>1. PICK i \in 1 .. Len(s) + Len(t) : x = u[i]
    BY <1>3 DEF Elements
  <2>2. CASE i <= Len(s)
    <3>1. x = s[i] /\ i \in DOMAIN s
      BY <1>1, <1>2, <2>1, <2>2 DEF u
    <3> QED
      BY <3>1 DEF Elements
  <2>3. CASE ~(i <= Len(s))
    <3>1. x = t[i - Len(s)] /\ i - Len(s) \in DOMAIN t
      BY <1>1, <1>2, <2>1, <2>3 DEF u
    <3> QED
      BY <3>1 DEF Elements
  <2> QED
    BY <2>2, <2>3
<1>5. ASSUME NEW i \in DOMAIN s PROVE s[i] \in Elements(u)
  <2>1. i \in 1 .. Len(s) + Len(t) /\ i <= Len(s)
    BY <1>2
  <2>2. u[i] = s[i]
    BY <1>1, <2>1 DEF u
  <2> QED
    BY <1>3, <2>1, <2>2 DEF Elements
<1>6. ASSUME NEW i \in DOMAIN t PROVE t[i] \in Elements(u)
  <2>1. i + Len(s) \in 1 .. Len(s) + Len(t) /\ ~(i + Len(s) <= Len(s)) /\ (i + Len(s)) - Len(s) = i
    BY <1>2
  <2>2. u[i + Len(s)] = t[i]
    BY <1>1, <2>1 DEF u
  <2> QED
    BY <1>3, <2>1, <2>2 DEF Elements
<1>7. Elements(u) = Elements(s) \union Elements(t)
  BY <1>4, <1>5, <1>6 DEF Elements
<1> QED
  BY <1>1, <1>7 DEF u

\* Every factor of a run is in a group of its kind.
LEMMA ExecutionGroupsAre ==
  ASSUME NEW fs \in Seq(DOMAIN Factors), fs # <<>>
  PROVE  /\ ExecutionGroups(fs) \in Seq(GroupsFrom(fs)) /\ ExecutionGroups(fs) # <<>>
         /\ \A f \in Elements(fs) : Includes(ExecutionGroups(fs), f)
<1> DEFINE declared == [f \in DOMAIN Factors |-> Factors[f].lookback]
           together == [f \in DOMAIN Factors |-> 0]
           calendar == [f \in DOMAIN Factors |-> CalendarLookback(f)]
           a == GroupsOf(fs, "daily", together)
           b == GroupsOf(fs, "raw", declared)
           c == GroupsOf(fs, "minute", declared)
           d == GroupsOf(fs, "stream", calendar)
           list == ExecutionGroups(fs)
<1>1. \A f \in DOMAIN Factors : together[f] \in Nat /\ declared[f] \in Nat /\ calendar[f] \in Nat
  BY FactorAssumption DEF CalendarLookback, Greater
<1>2. /\ a \in Seq(GroupsFrom(fs)) /\ b \in Seq(GroupsFrom(fs)) /\ c \in Seq(GroupsFrom(fs)) /\ d \in Seq(GroupsFrom(fs))
      /\ \A f \in Elements(fs) : /\ (Factors[f].kind = "daily" => Includes(a, f))
                                /\ (Factors[f].kind = "raw" => Includes(b, f))
                                /\ (Factors[f].kind = "minute" => Includes(c, f))
                                /\ (Factors[f].kind = "stream" => Includes(d, f))
  <2> HIDE DEF together, declared, calendar
  <2>1. a \in Seq(GroupsFrom(fs)) /\ \A f \in Elements(fs) : (Factors[f].kind = "daily" => Includes(a, f))
    BY <1>1, GroupsOfIs DEF Kinds
  <2>2. b \in Seq(GroupsFrom(fs)) /\ \A f \in Elements(fs) : (Factors[f].kind = "raw" => Includes(b, f))
    BY <1>1, GroupsOfIs DEF Kinds
  <2>3. c \in Seq(GroupsFrom(fs)) /\ \A f \in Elements(fs) : (Factors[f].kind = "minute" => Includes(c, f))
    BY <1>1, GroupsOfIs DEF Kinds
  <2>4. d \in Seq(GroupsFrom(fs)) /\ \A f \in Elements(fs) : (Factors[f].kind = "stream" => Includes(d, f))
    BY <1>1, GroupsOfIs DEF Kinds
  <2> QED
    BY <2>1, <2>2, <2>3, <2>4
<1>3. list = a \o b \o c \o d
  BY DEF ExecutionGroups
<1> HIDE DEF a, b, c, d, list
<1>4. list \in Seq(GroupsFrom(fs)) /\ Elements(list) = Elements(a) \union Elements(b) \union Elements(c) \union Elements(d)
  <2> DEFINE G == GroupsFrom(fs)
             ab == a \o b
             abc == ab \o c
  <2> HIDE DEF G
  <2>0. a \in Seq(G) /\ b \in Seq(G) /\ c \in Seq(G) /\ d \in Seq(G)
    BY <1>2 DEF G
  <2>1. ab \in Seq(G) /\ Elements(ab) = Elements(a) \union Elements(b)
    BY <2>0, Joined
  <2> HIDE DEF ab
  <2>2. abc \in Seq(G) /\ Elements(abc) = Elements(ab) \union Elements(c)
    BY <2>0, <2>1, Joined
  <2> HIDE DEF abc
  <2>3. abc \o d \in Seq(G) /\ Elements(abc \o d) = Elements(abc) \union Elements(d)
    BY <2>0, <2>2, Joined
  <2>4. list = abc \o d
    BY <1>3 DEF abc, ab
  <2> QED
    BY <2>1, <2>2, <2>3, <2>4 DEF G
<1>5. ASSUME NEW f \in Elements(fs) PROVE Includes(list, f)
  <2>1. Factors[f].kind \in Kinds
    BY SequenceElements, FactorAssumption DEF Kinds
  <2>2. Includes(a, f) \/ Includes(b, f) \/ Includes(c, f) \/ Includes(d, f)
    BY <1>2, <2>1 DEF Kinds
  <2> QED
    BY <1>4, <2>2 DEF Includes
<1>6. list # <<>>
  <2>1. PICK f \in Elements(fs) : TRUE
    <3>1. 1 \in DOMAIN fs
      BY SequenceElements
    <3> QED
      BY <3>1 DEF Elements
  <2>2. DOMAIN list # {}
    BY <1>5, <2>1 DEF Elements, Includes
  <2> QED
    BY <1>4, <2>2, SequenceElements, EmptySeq
<1> QED
  BY <1>4, <1>5, <1>6 DEF list


\* Providers that together have at most size factors are computed together.
OfProvider(fs, p) == Picked(fs, {i \in DOMAIN fs : Factors[fs[i]].provider = p})
Taken(fs, size, acc, p) ==
  IF acc.current # <<>> /\ Len(acc.current) + Len(OfProvider(fs, p)) > size
  THEN [full |-> Append(acc.full, acc.current), current |-> OfProvider(fs, p)]
  ELSE [full |-> acc.full, current |-> acc.current \o OfProvider(fs, p)]
NoBatch == [full |-> <<>>, current |-> <<>>]
Batched(acc) == IF acc.current = <<>> THEN acc.full ELSE Append(acc.full, acc.current)
Folding(h, fs, size, ps) ==
  h = [s \in SUBSET DOMAIN ps |-> IF s = {} THEN NoBatch ELSE Taken(fs, size, h[s \ {Max(s)}], ps[Max(s)])]

\* Provider batches are what the fold over the providers accumulates.
LEMMA BatchesFold ==
  ASSUME NEW fs, NEW size
  PROVE  ProviderBatches(fs, size) =
           Batched((CHOOSE h : Folding(h, fs, size, Providers(fs)))[DOMAIN Providers(fs)])
BY DEF ProviderBatches, FoldLeft, MapThenFoldSet, Folding, Taken, OfProvider, NoBatch, Batched

\* The batches after each provider.
Accumulators(fs) == [full : Seq(Seq(Elements(fs))), current : Seq(Elements(fs))]

\* A step of that fold keeps batches of declared factors.
LEMMA TakenIs ==
  ASSUME NEW fs \in Seq(DOMAIN Factors), NEW size, NEW v \in Accumulators(fs), NEW p
  PROVE  Taken(fs, size, v, p) \in Accumulators(fs)
<1> DEFINE B == Seq(Elements(fs))
<1>1. OfProvider(fs, p) \in B
  <2>1. fs \in B
    BY SequenceElements
  <2>2. {i \in DOMAIN fs : Factors[fs[i]].provider = p} \subseteq DOMAIN fs
    OBVIOUS
  <2> QED
    BY <2>1, <2>2, PickedIs DEF OfProvider
<1>2. v.current \in B /\ v.full \in Seq(B) /\ v = [full |-> v.full, current |-> v.current]
  BY DEF Accumulators
<1>3. v.current \o OfProvider(fs, p) \in B
  BY <1>1, <1>2, ConcatProperties
<1> HIDE DEF B
<1>4. Append(v.full, v.current) \in Seq(B)
  BY <1>2, AppendProperties
<1>6. \A a \in Seq(B), b \in B : [full |-> a, current |-> b] \in Accumulators(fs)
  BY DEF Accumulators, B
<1> QED
  BY <1>1, <1>2, <1>3, <1>4, <1>6 DEF Taken

\* The steps of the fold, one per provider.
LEMMA BatchSteps ==
  ASSUME NEW fs \in Seq(DOMAIN Factors), NEW size, NEW X, NEW ps \in Seq(X), ps = Providers(fs)
  PROVE  \E acc : /\ acc[0] = NoBatch
                  /\ \A k \in 0 .. Len(ps) : acc[k] \in Accumulators(fs)
                  /\ \A k \in 1 .. Len(ps) : acc[k] = Taken(fs, size, acc[k - 1], ps[k])
                  /\ ProviderBatches(fs, size) = Batched(acc[Len(ps)])
<1> DEFINE V == Accumulators(fs)
           n == Len(ps)
           g == [x \in (1 .. n) \X V |-> Taken(fs, size, x[2], ps[x[1]])]
<1>1. n \in Nat /\ DOMAIN ps = 1 .. n
  BY LenProperties
<1>2. NoBatch \in V
  BY EmptySeq DEF NoBatch, Accumulators
<1>3. \A v \in V : \A p : Taken(fs, size, v, p) \in V
  BY TakenIs
<1> HIDE DEF V, n
<1>4. \A i \in 1 .. n, v \in V : g[<<i, v>>] = Taken(fs, size, v, ps[i])
  OBVIOUS
<1> HIDE DEF g
<1>4a. \A i \in 1 .. n, v \in V : g[<<i, v>>] \in V
  BY <1>3, <1>4
<1>5. PICK h : Folds(h, n, V, NoBatch, g)
  <2> DEFINE base == NoBatch
  <2>1. base \in V
    BY <1>2
  <2> HIDE DEF base
  <2>2. \E h : Folds(h, n, V, base, g)
    BY <1>1, <1>4a, <2>1, FoldExists
  <2> QED
    BY <2>2 DEF base
<1>5a. /\ h \in [SUBSET (1 .. n) -> V]
       /\ \A s \in SUBSET (1 .. n) : h[s] = IF s = {} THEN NoBatch ELSE g[<<Max(s), h[s \ {Max(s)}]>>]
  BY <1>5 DEF Folds
<1>6. \A s \in SUBSET (1 .. n) : s # {} => Max(s) \in 1 .. n
  <2> SUFFICES ASSUME NEW s \in SUBSET (1 .. n), s # {} PROVE Max(s) \in s
    OBVIOUS
  <2>1. IsFiniteSet(1 .. n)
    BY <1>1, FS_Interval
  <2>2. IsFiniteSet(s)
    BY <2>1, FS_Subset
  <2>3. s \subseteq Nat
    BY <1>1
  <2> QED
    BY <2>2, <2>3, GreatestNatural
<1>7. Folding(h, fs, size, ps)
  <2>1. \A s \in SUBSET (1 .. n) :
          (IF s = {} THEN NoBatch ELSE g[<<Max(s), h[s \ {Max(s)}]>>])
            = (IF s = {} THEN NoBatch ELSE Taken(fs, size, h[s \ {Max(s)}], ps[Max(s)]))
    <3> SUFFICES ASSUME NEW s \in SUBSET (1 .. n), s # {}
                 PROVE  g[<<Max(s), h[s \ {Max(s)}]>>] = Taken(fs, size, h[s \ {Max(s)}], ps[Max(s)])
      OBVIOUS
    <3>1. s \ {Max(s)} \in SUBSET (1 .. n)
      OBVIOUS
    <3>2. h[s \ {Max(s)}] \in V
      BY <1>5a, <3>1
    <3>3. Max(s) \in 1 .. n
      BY <1>6
    <3> QED
      BY <1>4, <3>2, <3>3
  <2> QED
    BY <1>1, <1>5a, <2>1 DEF Folding
<1> DEFINE t == CHOOSE e : Folding(e, fs, size, ps)
<1>8. Folding(t, fs, size, ps)
  BY <1>7
<1> HIDE DEF t
<1>9. \A s \in SUBSET (1 .. n) : t[s] = IF s = {} THEN NoBatch ELSE Taken(fs, size, t[s \ {Max(s)}], ps[Max(s)])
  BY <1>1, <1>8 DEF Folding
<1> DEFINE acc == [k \in 0 .. n |-> t[1 .. k]]
<1>10. acc[0] = NoBatch
  <2>1. 1 .. 0 = {} /\ 0 \in 0 .. n /\ {} \in SUBSET (1 .. n)
    BY <1>1
  <2>2. acc[0] = t[{}]
    BY <2>1
  <2> QED
    BY <1>9, <2>1, <2>2
<1>11. ASSUME NEW k \in 1 .. n PROVE acc[k] = Taken(fs, size, acc[k - 1], ps[k])
  <2>1. k \in Nat /\ k >= 1 /\ k <= n
    BY <1>1
  <2>1a. k - 1 \in 0 .. n /\ k \in 0 .. n
    BY <1>1
  <2>1b. 1 .. k \in SUBSET (1 .. n)
    BY <1>1, <2>1
  <2>1c. 1 .. k # {} /\ (1 .. k) \ {k} = 1 .. k - 1
    <3>1. k \in 1 .. k
      BY <2>1
    <3>2. \A i : i \in (1 .. k) \ {k} <=> i \in 1 .. k - 1
      BY <2>1
    <3> QED
      BY <3>1, <3>2
  <2>2. Max(1 .. k) = k
    <3>1. k \in 1 .. k /\ (\A y \in 1 .. k : k >= y) /\ \A x \in 1 .. k : (\A y \in 1 .. k : x >= y) => x = k
      BY <1>1
    <3> QED
      BY <3>1 DEF Max
  <2>3. acc[k] = t[1 .. k] /\ acc[k - 1] = t[1 .. k - 1]
    BY <2>1a
  <2> QED
    BY <1>9, <2>1b, <2>1c, <2>2, <2>3
<1>12. ProviderBatches(fs, size) = Batched(acc[n])
  <2>1. ProviderBatches(fs, size) = Batched(t[1 .. n])
    BY <1>1, BatchesFold DEF t
  <2>2. n \in 0 .. n
    BY <1>1
  <2> QED
    BY <2>1, <2>2
<1> HIDE DEF acc
<1>13. \A k \in 0 .. n : acc[k] \in V
  <2> DEFINE P == {k \in Nat : k <= n => acc[k] \in V}
  <2>1. 0 \in P
    BY <1>2, <1>10
  <2>2. \A k \in Nat : k \in P => k + 1 \in P
    <3> SUFFICES ASSUME NEW k \in Nat, k <= n => acc[k] \in V, k + 1 <= n PROVE acc[k + 1] \in V
      OBVIOUS
    <3>1. k + 1 \in 1 .. n /\ (k + 1) - 1 = k /\ acc[k] \in V
      BY <1>1
    <3>2. acc[k + 1] = Taken(fs, size, acc[k], ps[k + 1])
      BY <1>11, <3>1
    <3> QED
      BY <1>3, <3>1, <3>2
  <2> HIDE DEF P
  <2>3. Nat \subseteq P
    BY <2>1, <2>2, NaturalInduction
  <2> QED
    BY <1>1, <2>3 DEF P
<1> QED
  BY <1>10, <1>11, <1>12, <1>13 DEF n, V

\* Provider batches: at least one, of the factors they divide.
LEMMA ProviderBatchesAre ==
  ASSUME NEW fs \in Seq(DOMAIN Factors), fs # <<>>, NEW size
  PROVE  /\ ProviderBatches(fs, size) \in Seq(Seq(Elements(fs)))
         /\ ProviderBatches(fs, size) # <<>>
<1> DEFINE firsts == {i \in DOMAIN fs : \A j \in 1 .. i - 1 : Factors[fs[j]].provider # Factors[fs[i]].provider}
           places == Picked(fs, firsts)
           ps == Providers(fs)
           X == {Factors[f].provider : f \in DOMAIN Factors}
<1>1. Len(fs) \in Nat /\ DOMAIN fs = 1 .. Len(fs) /\ Len(fs) >= 1 /\ (\A i \in DOMAIN fs : fs[i] \in DOMAIN Factors)
  BY SequenceElements, ElementOfSeq
<1>2. firsts \subseteq DOMAIN fs /\ 1 \in firsts
  BY <1>1
<1>3. places \in Seq(DOMAIN Factors) /\ places # <<>> /\ Elements(places) = {fs[i] : i \in firsts}
  <2> HIDE DEF firsts
  <2> QED
    BY <1>2, PickedIs
<1>4. ps = [i \in DOMAIN places |-> Factors[places[i]].provider]
  BY DEF Providers
<1> HIDE DEF places, ps
<1>5. ps \in Seq(X) /\ Len(ps) = Len(places) /\ DOMAIN ps = DOMAIN places
  <2>1. Len(places) \in Nat /\ DOMAIN places = 1 .. Len(places) /\ \A i \in DOMAIN places : places[i] \in DOMAIN Factors
    BY <1>3, SequenceElements, ElementOfSeq
  <2>2. ps \in [1 .. Len(places) -> X]
    BY <1>4, <2>1
  <2> HIDE DEF X
  <2> QED
    BY <2>1, <2>2, SeqDef, LenProperties
<1>6. Len(ps) \in Nat /\ Len(ps) >= 1
  BY <1>3, <1>5, SequenceElements
<1>7. ASSUME NEW k \in DOMAIN ps PROVE OfProvider(fs, ps[k]) # <<>>
  <2> DEFINE at == {i \in DOMAIN fs : Factors[fs[i]].provider = ps[k]}
  <2>1. places[k] \in Elements(places)
    BY <1>5 DEF Elements
  <2>2. PICK i \in firsts : places[k] = fs[i]
    BY <1>3, <2>1
  <2>3. i \in at /\ at \subseteq DOMAIN fs
    BY <1>2, <1>4, <1>5, <2>2
  <2> HIDE DEF at
  <2>4. Picked(fs, at) # <<>>
    BY <2>3, PickedIs
  <2> QED
    BY <2>4 DEF OfProvider, at
<1> DEFINE n == Len(ps)
<1>8. PICK acc : /\ acc[0] = NoBatch
                 /\ \A k \in 0 .. n : acc[k] \in Accumulators(fs)
                 /\ \A k \in 1 .. n : acc[k] = Taken(fs, size, acc[k - 1], ps[k])
                 /\ ProviderBatches(fs, size) = Batched(acc[n])
  <2> HIDE DEF X
  <2> QED
    BY <1>5, BatchSteps DEF ps
<1>9. acc[n] = Taken(fs, size, acc[n - 1], ps[n]) /\ acc[n - 1] \in Accumulators(fs) /\ acc[n] \in Accumulators(fs)
  BY <1>6, <1>8
<1>10. acc[n].current # <<>>
  <2> DEFINE old == acc[n - 1]
             more == OfProvider(fs, ps[n])
  <2>1. more # <<>> /\ more \in Seq(Elements(fs))
    <3>1. n \in DOMAIN ps
      BY <1>5, <1>6, LenProperties
    <3>2. fs \in Seq(Elements(fs)) /\ {i \in DOMAIN fs : Factors[fs[i]].provider = ps[n]} \subseteq DOMAIN fs
      BY SequenceElements
    <3> QED
      BY <1>7, <3>1, <3>2, PickedIs DEF OfProvider
  <2>2. old = [full |-> old.full, current |-> old.current] /\ old.current \in Seq(Elements(fs))
    BY <1>9 DEF Accumulators
  <2> HIDE DEF old, more
  <2>3. old.current \o more # <<>>
    <3>1. Len(old.current \o more) = Len(old.current) + Len(more)
      BY <2>1, <2>2, ConcatProperties
    <3>2. Len(old.current) \in Nat /\ Len(more) \in Nat /\ Len(more) >= 1
      BY <2>1, <2>2, SequenceElements
    <3>3. Len(<<>>) = 0
      BY EmptySeq
    <3> QED
      BY <3>1, <3>2, <3>3
  <2>5. Taken(fs, size, old, ps[n]).current \in {more, old.current \o more}
    BY DEF Taken, more
  <2>6. acc[n].current \in {more, old.current \o more}
    BY <1>9, <2>5 DEF old
  <2> QED
    BY <2>1, <2>3, <2>6
<1>11. ProviderBatches(fs, size) = Append(acc[n].full, acc[n].current)
  BY <1>8, <1>10 DEF Batched
<1>12. acc[n].full \in Seq(Seq(Elements(fs))) /\ acc[n].current \in Seq(Elements(fs))
  BY <1>9 DEF Accumulators
<1> DEFINE B == Seq(Elements(fs))
<1> HIDE DEF B
<1>13. \A s \in Seq(B), b \in B : Append(s, b) \in Seq(B) /\ Append(s, b) # <<>>
  BY AppendProperties
<1> QED
  BY <1>11, <1>12, <1>13 DEF B

-----------------------------------------------------------------------------
(* Tables and views. *)

\* Each request of some is among others, with at least its columns.
Alike(r, q) == q.data = r.data /\ q.dates = r.dates /\ q.panelOnly = r.panelOnly
Within(some, others) == \A r \in some : \E q \in others : Alike(r, q) /\ r.cols \subseteq q.cols
Covers(table, requests) == DatesOf(requests) \subseteq table.dates /\ ColumnsOf(requests) \subseteq table.cols

\* Merging requests loses nothing of any of them.
LEMMA MergedWithin ==
  ASSUME NEW some, NEW others, some \subseteq others
  PROVE  Within(some, Merged(others)) /\ Within(Merged(some), Merged(others))
<1> DEFINE Same(r, requests) == {q \in requests : q.data = r.data /\ q.dates = r.dates /\ q.panelOnly = r.panelOnly}
           Made(r, requests) == [data |-> r.data, cols |-> ColumnsOf(Same(r, requests)), panelOnly |-> r.panelOnly,
                                 quarters |-> QuartersOf(Same(r, requests)), dates |-> r.dates]
<1>1. \A requests : Merged(requests) = {Made(r, requests) : r \in requests}
  BY DEF Merged
<1>2. \A r, requests : /\ Alike(r, Made(r, requests))
                       /\ Made(r, requests).cols = UNION {q.cols : q \in Same(r, requests)}
  BY DEF Alike, ColumnsOf
<1> HIDE DEF Made
<1>3. ASSUME NEW r \in some
      PROVE  \E q \in Merged(others) : Alike(r, q) /\ r.cols \subseteq q.cols
  <2>1. Made(r, others) \in Merged(others) /\ r \in Same(r, others)
    BY <1>1
  <2> HIDE DEF Same
  <2>2. r.cols \subseteq Made(r, others).cols
    BY <1>2, <2>1
  <2> QED
    BY <1>2, <2>1, <2>2
<1>4. ASSUME NEW m \in Merged(some)
      PROVE  \E q \in Merged(others) : Alike(m, q) /\ m.cols \subseteq q.cols
  <2>1. PICK r \in some : m = Made(r, some)
    BY <1>1
  <2>2. Made(r, others) \in Merged(others) /\ Same(r, some) \subseteq Same(r, others)
    BY <1>1
  <2> HIDE DEF Same
  <2>3. m.cols \subseteq Made(r, others).cols
    BY <1>2, <2>1, <2>2
  <2>4. Alike(m, Made(r, others))
    BY <1>2, <2>1 DEF Alike
  <2> QED
    BY <2>2, <2>3, <2>4
<1> QED
  BY <1>3, <1>4 DEF Within

\* What that means for the tables of a dataset.
LEMMA WithinTables ==
  ASSUME NEW some, NEW others, Within(some, others), NEW data
  PROVE  /\ DatesOf(For(some, data)) \subseteq DatesOf(For(others, data))
         /\ ColumnsOf(For(some, data)) \subseteq ColumnsOf(For(others, data))
         /\ DatesOf(RowRequests(some, data)) \subseteq DatesOf(RowRequests(others, data))
         /\ ColumnsOf(RowRequests(some, data)) \subseteq ColumnsOf(RowRequests(others, data))
         /\ (data \in DataOf(some) => data \in DataOf(others))
         /\ (RowRequests(some, data) # {} => RowRequests(others, data) # {})
<1>1. ASSUME NEW r \in For(some, data)
      PROVE  \E q \in For(others, data) : Alike(r, q) /\ r.cols \subseteq q.cols
  BY <1>1 DEF Within, For, Alike
<1>2. ASSUME NEW r \in RowRequests(some, data)
      PROVE  \E q \in RowRequests(others, data) : Alike(r, q) /\ r.cols \subseteq q.cols
  <2>1. r \in For(some, data) /\ ~r.panelOnly
    BY DEF RowRequests
  <2>2. PICK q \in For(others, data) : Alike(r, q) /\ r.cols \subseteq q.cols
    BY <1>1, <2>1
  <2>3. ~q.panelOnly
    BY <2>1, <2>2 DEF Alike
  <2> QED
    BY <2>2, <2>3 DEF RowRequests
<1>3. ASSUME NEW P, NEW Q, \A r \in P : \E q \in Q : Alike(r, q) /\ r.cols \subseteq q.cols
      PROVE  DatesOf(P) \subseteq DatesOf(Q) /\ ColumnsOf(P) \subseteq ColumnsOf(Q) /\ (P # {} => Q # {})
  <2>1. \A d \in DatesOf(P) : d \in DatesOf(Q)
    BY <1>3 DEF DatesOf, Alike
  <2>2. \A c \in ColumnsOf(P) : c \in ColumnsOf(Q)
    BY <1>3 DEF ColumnsOf
  <2> QED
    BY <1>3, <2>1, <2>2
<1>4. data \in DataOf(some) => data \in DataOf(others)
  BY DEF Within, Alike, DataOf
<1>5. /\ DatesOf(For(some, data)) \subseteq DatesOf(For(others, data))
      /\ ColumnsOf(For(some, data)) \subseteq ColumnsOf(For(others, data))
  BY <1>1, <1>3
<1>6. /\ DatesOf(RowRequests(some, data)) \subseteq DatesOf(RowRequests(others, data))
      /\ ColumnsOf(RowRequests(some, data)) \subseteq ColumnsOf(RowRequests(others, data))
      /\ (RowRequests(some, data) # {} => RowRequests(others, data) # {})
  BY <1>2, <1>3
<1> QED
  BY <1>4, <1>5, <1>6

\* Requests for rows are some of the requests for the data.
LEMMA RowsOfFor ==
  ASSUME NEW requests, NEW data
  PROVE  /\ RowRequests(requests, data) \subseteq For(requests, data)
         /\ DatesOf(RowRequests(requests, data)) \subseteq DatesOf(For(requests, data))
         /\ ColumnsOf(RowRequests(requests, data)) \subseteq ColumnsOf(For(requests, data))
         /\ (For(requests, data) # {} <=> data \in DataOf(requests))
         /\ (data \in PanelOnly(requests) => RowRequests(requests, data) = {})
         /\ (data \in DataOf(requests) \cap PanelData /\ RowRequests(requests, data) = {} => data \in PanelOnly(requests))
<1>1. RowRequests(requests, data) \subseteq For(requests, data)
  BY DEF RowRequests
<1>2. \A P, Q : P \subseteq Q => DatesOf(P) \subseteq DatesOf(Q) /\ ColumnsOf(P) \subseteq ColumnsOf(Q)
  BY DEF DatesOf, ColumnsOf
<1>3. For(requests, data) # {} <=> data \in DataOf(requests)
  BY DEF For, DataOf
<1>4. data \in PanelOnly(requests) => RowRequests(requests, data) = {}
  BY DEF PanelOnly, RowRequests
<1>5. data \in DataOf(requests) \cap PanelData /\ RowRequests(requests, data) = {} => data \in PanelOnly(requests)
  BY DEF PanelOnly, RowRequests
<1> QED
  BY <1>1, <1>2, <1>3, <1>4, <1>5

\* A table that covers the requests, projected on them, is their table.
LEMMA ProjectedIs ==
  ASSUME NEW table, NEW requests, Covers(table, requests)
  PROVE  Projected(table, requests) = TableOf(requests)
<1>1. table.dates \cap DatesOf(requests) = DatesOf(requests) /\ table.cols \cap ColumnsOf(requests) = ColumnsOf(requests)
  BY DEF Covers
<1> QED
  BY <1>1 DEF Projected, TableOf

\* A pool that has for the requests what they ask for, except for hidden panels.
PoolFor(shared, requests, hidden) ==
  \A data \in DataOf(requests) \cap PanelData :
    /\ data \in DOMAIN shared.panels => Covers(shared.panels[data], For(requests, data))
    /\ data \notin DOMAIN shared.panels => data \in hidden
    /\ RowRequests(requests, data) # {} =>
         data \in DOMAIN shared.rows /\ Covers(shared.rows[data], RowRequests(requests, data))

\* A view that serves requests: their own panels, and at least their rows.
Serves(view, some, hidden, data) ==
  /\ \/ data \in DOMAIN view.panels /\ view.panels[data] = TableOf(For(some, data))
     \/ data \notin DOMAIN view.panels /\ data \in hidden
  /\ RowRequests(some, data) # {} =>
       /\ data \in DOMAIN view.rows
       /\ Covers(view.rows[data], RowRequests(some, data))
       /\ view.rows[data].dates \subseteq DatesOf(For(some, data))

\* A view serves the requests it was made for, whatever else was loaded.
LEMMA ViewIs ==
  ASSUME NEW shared, NEW some, NEW requests, NEW hidden, NEW dates, NEW data \in DataOf(some) \cap PanelData,
         Within(some, requests), PoolFor(shared, requests, hidden)
  PROVE  Serves(ViewForRequests(shared, some, dates), some, hidden, data)
<1> DEFINE view == ViewForRequests(shared, some, dates)
<1>1. /\ view.panels = [d \in DOMAIN shared.panels \cap DataOf(some) |-> Projected(shared.panels[d], For(some, d))]
      /\ view.rows = [d \in (DOMAIN shared.rows \cap DataOf(some)) \ PanelOnly(some) |->
                        Sliced(shared.rows[d], For(some, d))]
  BY DEF ViewForRequests
<1> HIDE DEF view
<1>2. data \in DataOf(requests) \cap PanelData
  BY WithinTables
<1>5. ASSUME RowRequests(some, data) # {}
      PROVE  /\ data \in DOMAIN view.rows
             /\ Covers(view.rows[data], RowRequests(some, data))
             /\ view.rows[data].dates \subseteq DatesOf(For(some, data))
  <2>1. data \in DOMAIN shared.rows /\ Covers(shared.rows[data], RowRequests(requests, data))
    BY <1>2, <1>5, WithinTables DEF PoolFor
  <2>2. Covers(shared.rows[data], RowRequests(some, data))
    BY <2>1, WithinTables DEF Covers
  <2>3. data \notin PanelOnly(some)
    BY <1>5, RowsOfFor
  <2>4. data \in DOMAIN view.rows /\ view.rows[data] = Sliced(shared.rows[data], For(some, data))
    BY <1>1, <2>1, <2>3
  <2>5. DatesOf(RowRequests(some, data)) \subseteq DatesOf(For(some, data))
    BY RowsOfFor
  <2> QED
    BY <2>2, <2>4, <2>5 DEF Sliced, Covers
<1>6. \/ data \in DOMAIN view.panels /\ view.panels[data] = TableOf(For(some, data))
      \/ data \notin DOMAIN view.panels /\ data \in hidden
  <2>1. CASE data \in DOMAIN shared.panels
    <3>1. Covers(shared.panels[data], For(requests, data))
      BY <1>2, <2>1 DEF PoolFor
    <3>2. Covers(shared.panels[data], For(some, data))
      BY <3>1, WithinTables DEF Covers
    <3>3. data \in DOMAIN view.panels /\ view.panels[data] = Projected(shared.panels[data], For(some, data))
      BY <1>1, <2>1
    <3> QED
      BY <3>2, <3>3, ProjectedIs
  <2>2. CASE data \notin DOMAIN shared.panels
    <3>1. data \in hidden
      BY <1>2, <2>2 DEF PoolFor
    <3>2. data \notin DOMAIN view.panels
      BY <1>1, <2>2
    <3> QED
      BY <3>1, <3>2
  <2> QED
    BY <2>1, <2>2
<1> QED
  BY <1>5, <1>6 DEF view, Serves

\* What is loaded for requests; deferred panels are left to be built from full rows.
TablesFor(loaded, requests, deferred, data) ==
  /\ data \in DOMAIN loaded.panels =>
       data \in DataOf(requests) \cap PanelData /\ loaded.panels[data] = TableOf(For(requests, data))
  /\ data \in DOMAIN loaded.rows <=> data \in (DataOf(requests) \cap PanelData) \ PanelOnly(requests)
  /\ data \in DOMAIN loaded.rows => Covers(loaded.rows[data], RowRequests(requests, data))
  /\ data \in DOMAIN loaded.rows \ DOMAIN loaded.panels => loaded.rows[data] = TableOf(For(requests, data))
  /\ data \in DataOf(requests) \cap PanelData => data \in DOMAIN loaded.panels \cup DOMAIN loaded.rows
  /\ ~deferred /\ data \in DataOf(requests) \cap PanelData => data \in DOMAIN loaded.panels

\* What is loaded for requests has the tables they need.
LEMMA LoadedTables ==
  ASSUME NEW requests, NEW context, NEW deferred, NEW data
  PROVE  TablesFor(LoadInputs(requests, context, deferred), requests, deferred, data)
<1> DEFINE loaded == LoadInputs(requests, context, deferred)
           daily == DataOf(requests) \cap PanelData
           built == {d \in daily : ~deferred \/ d \in PanelOnly(requests) \/ NarrowRows(requests, d)}
           Rows(d) == IF deferred /\ NarrowRows(requests, d) THEN RowRequests(requests, d) ELSE For(requests, d)
<1>1. /\ loaded.panels = [d \in built |-> TableOf(For(requests, d))]
      /\ loaded.rows = [d \in daily \ PanelOnly(requests) |-> TableOf(Rows(d))]
  BY DEF LoadInputs
<1>2. \A d : d \in built <=> d \in daily /\ (~deferred \/ d \in PanelOnly(requests) \/ NarrowRows(requests, d))
  OBVIOUS
<1> HIDE DEF loaded, daily, built
<1>3. Covers(TableOf(Rows(data)), RowRequests(requests, data))
  BY RowsOfFor DEF Covers, TableOf
<1>4. data \in DOMAIN loaded.panels => data \in daily /\ loaded.panels[data] = TableOf(For(requests, data))
  BY <1>1, <1>2
<1>5. data \in DOMAIN loaded.rows <=> data \in daily \ PanelOnly(requests)
  BY <1>1
<1>6. data \in DOMAIN loaded.rows => loaded.rows[data] = TableOf(Rows(data))
  BY <1>1
<1>7. data \in DOMAIN loaded.rows \ DOMAIN loaded.panels => loaded.rows[data] = TableOf(For(requests, data))
  BY <1>1, <1>2, <1>5, <1>6
<1>8. data \in daily => data \in DOMAIN loaded.panels \cup DOMAIN loaded.rows
  BY <1>1, <1>2
<1>9. ~deferred /\ data \in daily => data \in DOMAIN loaded.panels
  BY <1>1, <1>2
<1> HIDE DEF Rows
<1>10. data \in DOMAIN loaded.rows => Covers(loaded.rows[data], RowRequests(requests, data))
  BY <1>3, <1>6
<1> QED
  BY <1>4, <1>5, <1>7, <1>8, <1>9, <1>10 DEF loaded, daily, TablesFor

\* A provider batch that loads for itself has all its tables.
LEMMA OwnPool ==
  ASSUME NEW requests, NEW context
  PROVE  PoolFor(LoadInputs(requests, context, FALSE), requests, {})
<1> DEFINE loaded == LoadInputs(requests, context, FALSE)
<1> SUFFICES ASSUME NEW data \in DataOf(requests) \cap PanelData
             PROVE  /\ data \in DOMAIN loaded.panels => Covers(loaded.panels[data], For(requests, data))
                    /\ data \in DOMAIN loaded.panels
                    /\ RowRequests(requests, data) # {} =>
                         data \in DOMAIN loaded.rows /\ Covers(loaded.rows[data], RowRequests(requests, data))
  BY DEF PoolFor
<1>1. data \in DOMAIN loaded.panels /\ loaded.panels[data] = TableOf(For(requests, data))
  BY LoadedTables DEF TablesFor
<1>2. Covers(loaded.panels[data], For(requests, data))
  <2>1. Covers(TableOf(For(requests, data)), For(requests, data))
    BY DEF Covers, TableOf
  <2> QED
    BY <1>1, <2>1
<1>3. RowRequests(requests, data) # {} => data \notin PanelOnly(requests)
  BY RowsOfFor
<1>4. RowRequests(requests, data) # {} =>
        data \in DOMAIN loaded.rows /\ Covers(loaded.rows[data], RowRequests(requests, data))
  BY <1>3, LoadedTables DEF TablesFor
<1> QED
  BY <1>1, <1>2, <1>4

\* The requests for a dataset are among the reused ones together or not at all.
Reused(requests, batches) ==
  LET Users(data) == {i \in DOMAIN batches : \E f \in Elements(batches[i]) : data \in DataOf(Factors[f].wants)}
  IN {r \in requests : (r.data = Statement \/ Cardinality(Users(r.data)) > 1) /\ r.data # "minute"}

\* Data shared by provider batches is loaded for all their requests at once.
LEMMA ReusedTogether ==
  ASSUME NEW requests, NEW batches, NEW context
  PROVE  /\ LoadReused(requests, batches, context) = LoadInputs(Reused(requests, batches), context, TRUE)
         /\ \A data \in DataOf(Reused(requests, batches)) :
              /\ For(Reused(requests, batches), data) = For(requests, data)
              /\ RowRequests(Reused(requests, batches), data) = RowRequests(requests, data)
              /\ data \in PanelOnly(Reused(requests, batches)) <=> data \in PanelOnly(requests)
<1> DEFINE Users(data) == {i \in DOMAIN batches : \E f \in Elements(batches[i]) : data \in DataOf(Factors[f].wants)}
           Often(data) == (data = Statement \/ Cardinality(Users(data)) > 1) /\ data # "minute"
           reused == Reused(requests, batches)
<1>1. reused = {r \in requests : Often(r.data)}
  BY DEF Reused
<1>2. LoadReused(requests, batches, context) = LoadInputs(reused, context, TRUE)
  <2>1. {r \in {q \in requests : q.data = Statement \/ Cardinality(Users(q.data)) > 1} : r.data # "minute"} = reused
    BY <1>1
  <2> QED
    BY <2>1 DEF LoadReused
<1> HIDE DEF Often, reused
<1>3. ASSUME NEW data \in DataOf(reused)
      PROVE  /\ For(reused, data) = For(requests, data)
             /\ RowRequests(reused, data) = RowRequests(requests, data)
             /\ data \in PanelOnly(reused) <=> data \in PanelOnly(requests)
  <2>1. Often(data)
    BY <1>1 DEF DataOf
  <2>2. For(reused, data) = For(requests, data)
    BY <1>1, <2>1 DEF For
  <2>3. RowRequests(reused, data) = RowRequests(requests, data)
    BY <2>2 DEF RowRequests
  <2>4. data \in DataOf(requests)
    BY <1>1 DEF DataOf
  <2>5. data \in PanelOnly(reused) <=> data \in PanelOnly(requests)
    BY <2>2, <2>4 DEF PanelOnly
  <2> QED
    BY <2>2, <2>3, <2>5
<1> QED
  BY <1>2, <1>3 DEF reused

\* A panel built from rows that were loaded for other batches is hidden from a batch that asks
\* for panels only.
Hidden(shared, requests) == (DOMAIN shared.rows \ DOMAIN shared.panels) \cap PanelOnly(requests)

\* What a provider batch has of a dataset that it does not load for itself.
LEMMA SharedPool ==
  ASSUME NEW whole, NEW batches, NEW requests, Within(requests, whole), NEW context, NEW shared,
         shared = LoadReused(whole, batches, context),
         NEW data \in (DataOf(requests) \cap PanelData) \ DataOf(Uncached(shared, requests))
  PROVE  LET view == ViewForRequests(shared, requests, context.load)
             panels == Overlaid(view.panels, BuiltPanels(view, requests))
         IN  /\ data \in DOMAIN panels => Covers(panels[data], For(requests, data))
             /\ data \notin DOMAIN panels => data \in Hidden(shared, requests)
             /\ RowRequests(requests, data) # {} =>
                  data \in DOMAIN view.rows /\ Covers(view.rows[data], RowRequests(requests, data))
<1> DEFINE view == ViewForRequests(shared, requests, context.load)
           panels == Overlaid(view.panels, BuiltPanels(view, requests))
           reused == Reused(whole, batches)
<1>1. /\ view.panels = [d \in DOMAIN shared.panels \cap DataOf(requests) |-> Projected(shared.panels[d], For(requests, d))]
      /\ view.rows = [d \in (DOMAIN shared.rows \cap DataOf(requests)) \ PanelOnly(requests) |->
                        Sliced(shared.rows[d], For(requests, d))]
  BY DEF ViewForRequests
<1> HIDE DEF view
<1>2. /\ DOMAIN panels = DOMAIN view.panels \cup DOMAIN view.rows
      /\ data \in DOMAIN view.panels => panels[data] = view.panels[data]
      /\ data \in DOMAIN view.rows \ DOMAIN view.panels =>
           panels[data] = [dates |-> view.rows[data].dates,
                           cols |-> view.rows[data].cols \cap ColumnsOf(For(requests, data))]
  BY DEF Overlaid, BuiltPanels
<1> HIDE DEF panels
<1>3. /\ data \in DOMAIN shared.panels =>
           data \in DataOf(reused) \cap PanelData /\ shared.panels[data] = TableOf(For(reused, data))
      /\ data \in DOMAIN shared.rows <=> data \in (DataOf(reused) \cap PanelData) \ PanelOnly(reused)
      /\ data \in DOMAIN shared.rows => Covers(shared.rows[data], RowRequests(reused, data))
      /\ data \in DOMAIN shared.rows \ DOMAIN shared.panels => shared.rows[data] = TableOf(For(reused, data))
  <2>1. shared = LoadInputs(reused, context, TRUE)
    BY ReusedTogether
  <2>2. TablesFor(shared, reused, TRUE, data)
    BY <2>1, LoadedTables
  <2> HIDE DEF reused
  <2> QED
    BY <2>2 DEF TablesFor
<1>4. /\ data \in DataOf(reused) /\ For(reused, data) = For(whole, data)
      /\ RowRequests(reused, data) = RowRequests(whole, data)
      /\ data \in PanelOnly(reused) <=> data \in PanelOnly(whole)
  <2>1. PICK r \in requests : r.data = data
    BY DEF DataOf
  <2>2. data # Statement /\ r \notin Uncached(shared, requests)
    BY <2>1, DataAssumption DEF DataOf
  <2>3. Has(shared.rows, r) \/ Has(shared.panels, r)
    BY <2>1, <2>2 DEF Uncached
  <2>4. data \in DOMAIN shared.rows \/ data \in DOMAIN shared.panels
    BY <2>1, <2>3 DEF Has
  <2>5. data \in DataOf(reused)
    BY <1>3, <2>4
  <2> QED
    BY <2>5, ReusedTogether
<1>5. /\ DatesOf(For(requests, data)) \subseteq DatesOf(For(reused, data))
      /\ ColumnsOf(For(requests, data)) \subseteq ColumnsOf(For(reused, data))
      /\ DatesOf(RowRequests(requests, data)) \subseteq DatesOf(RowRequests(reused, data))
      /\ ColumnsOf(RowRequests(requests, data)) \subseteq ColumnsOf(RowRequests(reused, data))
      /\ RowRequests(requests, data) # {} => RowRequests(reused, data) # {}
  BY <1>4, WithinTables
<1>6. ASSUME NEW table, table = TableOf(For(reused, data)) PROVE Covers(table, For(requests, data))
  BY <1>5, <1>6 DEF Covers, TableOf
<1>7. data \in DOMAIN shared.panels \cup DOMAIN shared.rows
  <2>1. LoadReused(whole, batches, context) = LoadInputs(reused, context, TRUE)
    BY ReusedTogether
  <2>2. TablesFor(shared, reused, TRUE, data)
    BY <2>1, LoadedTables
  <2> HIDE DEF reused
  <2> QED
    BY <1>4, <2>2 DEF TablesFor
<1>8. data \in DOMAIN panels => Covers(panels[data], For(requests, data))
  <2>1. CASE data \in DOMAIN shared.panels
    <3>1. Covers(shared.panels[data], For(requests, data))
      BY <1>3, <1>6, <2>1
    <3>2. data \in DOMAIN view.panels /\ view.panels[data] = TableOf(For(requests, data))
      BY <1>1, <2>1, <3>1, ProjectedIs
    <3>3. Covers(TableOf(For(requests, data)), For(requests, data))
      BY DEF Covers, TableOf
    <3> QED
      BY <1>2, <3>2, <3>3
  <2>2. CASE data \notin DOMAIN shared.panels
    <3> SUFFICES ASSUME data \in DOMAIN panels PROVE Covers(panels[data], For(requests, data))
      OBVIOUS
    <3>1. data \notin DOMAIN view.panels
      BY <1>1, <2>2
    <3>2. data \in DOMAIN view.rows
      BY <1>2, <3>1
    <3>3. view.rows[data] = Sliced(shared.rows[data], For(requests, data)) /\ data \in DOMAIN shared.rows
      BY <1>1, <3>2
    <3>4. Covers(shared.rows[data], For(requests, data))
      BY <1>3, <1>6, <2>2, <3>3
    <3>5. Covers(view.rows[data], For(requests, data))
      BY <3>3, <3>4 DEF Covers, Sliced
    <3> QED
      BY <1>2, <3>1, <3>2, <3>5 DEF Covers
  <2> QED
    BY <2>1, <2>2
<1>9. data \notin DOMAIN panels => data \in Hidden(shared, requests)
  <2> SUFFICES ASSUME data \notin DOMAIN panels PROVE data \in Hidden(shared, requests)
    OBVIOUS
  <2>1. data \notin DOMAIN view.panels /\ data \notin DOMAIN view.rows
    BY <1>2
  <2>2. data \notin DOMAIN shared.panels
    BY <1>1, <2>1
  <2>3. data \in DOMAIN shared.rows /\ data \in PanelOnly(requests)
    BY <1>1, <1>7, <2>1, <2>2
  <2> QED
    BY <2>2, <2>3 DEF Hidden
<1>10. RowRequests(requests, data) # {} =>
         data \in DOMAIN view.rows /\ Covers(view.rows[data], RowRequests(requests, data))
  <2> SUFFICES ASSUME RowRequests(requests, data) # {}
               PROVE  data \in DOMAIN view.rows /\ Covers(view.rows[data], RowRequests(requests, data))
    OBVIOUS
  <2>1. data \notin PanelOnly(reused) /\ data \notin PanelOnly(requests)
    BY <1>5, RowsOfFor
  <2>2. data \in DOMAIN shared.rows /\ Covers(shared.rows[data], RowRequests(reused, data))
    BY <1>3, <1>4, <2>1
  <2>3. data \in DOMAIN view.rows /\ view.rows[data] = Sliced(shared.rows[data], For(requests, data))
    BY <1>1, <2>1, <2>2
  <2>4. DatesOf(RowRequests(requests, data)) \subseteq DatesOf(For(requests, data))
    BY RowsOfFor
  <2>5. Covers(shared.rows[data], RowRequests(requests, data))
    BY <1>5, <2>2 DEF Covers
  <2> QED
    BY <2>3, <2>4, <2>5 DEF Covers, Sliced
<1> QED
  BY <1>8, <1>9, <1>10 DEF view, panels

OverlaidOf(u, s, t) ==
  /\ DOMAIN u = DOMAIN s \cup DOMAIN t
  /\ \A d \in DOMAIN t : u[d] = t[d]
  /\ \A d \in DOMAIN s \ DOMAIN t : u[d] = s[d]

\* Overlaying a function on another.
LEMMA OverlaidIs == ASSUME NEW s, NEW t PROVE OverlaidOf(Overlaid(s, t), s, t)
BY DEF Overlaid, OverlaidOf

\* With what it loads for itself, a provider batch has all its tables, except hidden panels.
LEMMA ReusedPool ==
  ASSUME NEW whole, NEW batches, NEW requests, Within(requests, whole), NEW context, NEW shared,
         shared = LoadReused(whole, batches, context)
  PROVE  PoolFor(LoadFromBatchInputs(shared, requests, context), requests, Hidden(shared, requests))
<1> DEFINE view == ViewForRequests(shared, requests, context.load)
           panels == Overlaid(view.panels, BuiltPanels(view, requests))
           missing == DataOf(Uncached(shared, requests))
           mine == {r \in requests : r.data \in missing}
           own == LoadInputs(mine, context, FALSE)
           all == LoadFromBatchInputs(shared, requests, context)
<1>1. all.panels = Overlaid(panels, own.panels) /\ all.rows = Overlaid(view.rows, own.rows)
  BY DEF LoadFromBatchInputs
<1> HIDE DEF view, panels, own, all, missing
<1>2. OverlaidOf(all.panels, panels, own.panels) /\ OverlaidOf(all.rows, view.rows, own.rows)
  BY <1>1, OverlaidIs
<1> SUFFICES ASSUME NEW data \in DataOf(requests) \cap PanelData
             PROVE  /\ data \in DOMAIN all.panels => Covers(all.panels[data], For(requests, data))
                    /\ data \notin DOMAIN all.panels => data \in Hidden(shared, requests)
                    /\ RowRequests(requests, data) # {} =>
                         data \in DOMAIN all.rows /\ Covers(all.rows[data], RowRequests(requests, data))
  BY DEF PoolFor, all
<1>3. CASE data \in missing
  <2>1. For(mine, data) = For(requests, data)
    BY <1>3 DEF For
  <2>2. RowRequests(mine, data) = RowRequests(requests, data)
    BY <2>1 DEF RowRequests
  <2>3. data \in DataOf(mine)
    BY <2>1, RowsOfFor
  <2> HIDE DEF mine
  <2>4. PoolFor(own, mine, {})
    BY OwnPool DEF own
  <2>5. /\ data \in DOMAIN own.panels /\ Covers(own.panels[data], For(requests, data))
        /\ RowRequests(requests, data) # {} =>
             data \in DOMAIN own.rows /\ Covers(own.rows[data], RowRequests(requests, data))
    BY <2>1, <2>2, <2>3, <2>4 DEF PoolFor
  <2>6. data \in DOMAIN all.panels /\ all.panels[data] = own.panels[data]
    BY <1>2, <2>5 DEF OverlaidOf
  <2>7. data \in DOMAIN own.rows => data \in DOMAIN all.rows /\ all.rows[data] = own.rows[data]
    BY <1>2 DEF OverlaidOf
  <2> QED
    BY <2>5, <2>6, <2>7
<1>4. CASE data \notin missing
  <2>1. /\ data \in DOMAIN panels => Covers(panels[data], For(requests, data))
        /\ data \notin DOMAIN panels => data \in Hidden(shared, requests)
        /\ RowRequests(requests, data) # {} =>
             data \in DOMAIN view.rows /\ Covers(view.rows[data], RowRequests(requests, data))
    BY <1>4, SharedPool DEF panels, view, missing
  <2>2. data \notin DataOf(mine)
    BY <1>4 DEF DataOf
  <2> HIDE DEF mine
  <2>3. data \notin DOMAIN own.panels /\ data \notin DOMAIN own.rows
    BY <2>2, LoadedTables DEF own, TablesFor
  <2>4. (data \in DOMAIN all.panels <=> data \in DOMAIN panels) /\ (data \in DOMAIN all.rows <=> data \in DOMAIN view.rows)
    BY <1>2, <2>3 DEF OverlaidOf
  <2>5. data \in DOMAIN panels => all.panels[data] = panels[data]
    BY <1>2, <2>3 DEF OverlaidOf
  <2>6. data \in DOMAIN view.rows => all.rows[data] = view.rows[data]
    BY <1>2, <2>3 DEF OverlaidOf
  <2> QED
    BY <2>1, <2>4, <2>5, <2>6
<1> QED
  BY <1>3, <1>4

-----------------------------------------------------------------------------
(* The views of a run. *)

Dividing == {"begin", "sources", "load", "view", "compute", "write", "finish"}
SplitOk == split \in Seq(Seq(Elements(Head(groups).factors))) /\ split # <<>>
WorkOk ==
  /\ work.requests = Merged(RequirementsOf(Elements(Head(groups).factors), Context))
  /\ \A b \in DOMAIN split : work.batches[b] = BatchWork(split[b], Context)
  /\ turn \in DOMAIN split
InputsOk == inputs = None \/ inputs = LoadReused(work.requests, split, Context)
HiddenNow == IF inputs = None THEN {} ELSE Hidden(inputs, Batch.requests)

PlanInv ==
  /\ run \in Runs
  /\ groups \in Seq(GroupsFrom(run.factors))
  /\ stage # "done" => groups # <<>>
  /\ stage \in Dividing => SplitOk
  /\ stage \in Dividing \ {"begin"} => WorkOk
  /\ stage \in Working => InputsOk
  /\ stage = "view" => PoolFor(pool, Batch.requests, HiddenNow)
  /\ stage \in {"compute", "write", "failed"} => ViewsAsDeclared
  /\ stage \notin {"compute", "write", "failed"} => DOMAIN views = {}

\* The groups of a run are made of its factors.
LEMMA HeadIs ==
  ASSUME NEW fs \in Seq(DOMAIN Factors), NEW list \in Seq(GroupsFrom(fs)), list # <<>>
  PROVE  /\ Head(list).factors \in Seq(DOMAIN Factors) /\ Head(list).factors # <<>>
         /\ Tail(list) \in Seq(GroupsFrom(fs)) /\ (Len(list) > 1 => Tail(list) # <<>>)
<1>1. Head(list) \in GroupsFrom(fs) /\ Tail(list) \in Seq(GroupsFrom(fs)) /\ Len(Tail(list)) = Len(list) - 1
  BY HeadTailProperties
<1>2. Head(list).factors \in Seq(Elements(fs)) /\ Head(list).factors # <<>>
  BY <1>1 DEF GroupsFrom
<1>3. Head(list).factors \in Seq(DOMAIN Factors)
  <2> DEFINE t == Head(list).factors
  <2> HIDE DEF t
  <2>1. t \in Seq(Elements(fs)) /\ Elements(fs) \subseteq DOMAIN Factors
    BY <1>2, SequenceElements DEF t
  <2>2. Len(t) \in Nat /\ DOMAIN t = 1 .. Len(t) /\ \A i \in DOMAIN t : t[i] \in Elements(fs)
    BY <2>1, LenProperties, ElementOfSeq
  <2>3. t = [i \in 1 .. Len(t) |-> t[i]]
    BY <2>1, LenProperties
  <2>4. t \in [1 .. Len(t) -> DOMAIN Factors]
    BY <2>1, <2>2, <2>3
  <2> QED
    BY <2>2, <2>4, SeqDef DEF t
<1>4. Len(list) > 1 => Tail(list) # <<>>
  <2> DEFINE rest == Tail(list)
             n == Len(list)
  <2>1. n \in Nat /\ Len(rest) = n - 1 /\ rest \in Seq(GroupsFrom(fs))
    BY <1>1, LenProperties
  <2> HIDE DEF rest, n
  <2>2. rest = <<>> => Len(rest) = 0
    BY EmptySeq
  <2>3. n > 1 => rest # <<>>
    BY <2>1, <2>2
  <2> QED
    BY <2>3 DEF rest, n
<1> QED
  BY <1>1, <1>2, <1>3, <1>4

\* A run computes declared factors, and at least one.
LEMMA RunFactors == ASSUME NEW r \in Runs PROVE r.factors \in Seq(DOMAIN Factors) /\ r.factors # <<>>
BY RunAssumption

\* What a batch asks for is among what the group asks for, and what a provider asks for among
\* that.
LEMMA BatchWithin ==
  ASSUME SplitOk, WorkOk
  PROVE  /\ Within(Batch.requests, work.requests)
         /\ \A p \in DOMAIN Batch.providers :
              Provider(p).requests = RequirementsOf(ProviderFactors(split[turn], p), Context)
         /\ \A p : Within(RequirementsOf(ProviderFactors(split[turn], p), Context), Batch.requests)
<1> DEFINE fs == split[turn]
           whole == Head(groups).factors
<1>1. Batch = BatchWork(fs, Context)
  BY DEF WorkOk, Batch
<1>2. Elements(fs) \subseteq Elements(whole)
  <2>1. fs \in Seq(Elements(whole))
    BY ElementOfSeq, LenProperties DEF SplitOk, WorkOk
  <2> HIDE DEF fs, whole
  <2> QED
    BY <2>1, SequenceElements
<1>3. /\ Batch.requests = Merged(RequirementsOf(Elements(fs), Context))
      /\ Batch.providers = [p \in Elements(Providers(fs)) |-> ProviderWork(fs, p, Context)]
  BY <1>1 DEF BatchWork
<1>4. \A P, Q : P \subseteq Q => RequirementsOf(P, Context) \subseteq RequirementsOf(Q, Context)
  BY DEF RequirementsOf
<1>5. work.requests = Merged(RequirementsOf(Elements(whole), Context))
  BY DEF WorkOk
<1>6. \A p : ProviderFactors(fs, p) \subseteq Elements(fs)
  BY DEF ProviderFactors
<1> HIDE DEF fs, whole
<1>7. Within(Batch.requests, work.requests)
  BY <1>2, <1>3, <1>4, <1>5, MergedWithin
<1>8. \A p : Within(RequirementsOf(ProviderFactors(fs, p), Context), Batch.requests)
  BY <1>3, <1>4, <1>6, MergedWithin
<1>9. ASSUME NEW p \in DOMAIN Batch.providers
      PROVE  Provider(p).requests = RequirementsOf(ProviderFactors(fs, p), Context)
  BY <1>3 DEF Provider, ProviderWork
<1> QED
  BY <1>7, <1>8, <1>9 DEF fs

\* The plan invariant holds at first, and each action keeps it.
LEMMA InitPlan == Init => PlanInv
<1> SUFFICES ASSUME Init PROVE PlanInv
  OBVIOUS
<1>1. run \in Runs /\ stage \in {"done", "group"} /\ DOMAIN views = {}
  BY DEF Init
<1>2. ExecutionGroups(run.factors) \in Seq(GroupsFrom(run.factors)) /\ ExecutionGroups(run.factors) # <<>>
  <2>1. run.factors \in Seq(DOMAIN Factors) /\ run.factors # <<>>
    BY <1>1, RunFactors
  <2> QED
    BY <2>1, ExecutionGroupsAre
<1>3. <<>> \in Seq(GroupsFrom(run.factors))
  BY EmptySeq
<1>4. groups \in Seq(GroupsFrom(run.factors)) /\ (stage # "done" => groups # <<>>)
  BY <1>2, <1>3 DEF Init
<1> QED
  BY <1>1, <1>4 DEF PlanInv, Dividing, Working

\* Steps of the files and of the cache do not touch what a batch computes with.
LEMMA SourcesKeepPlan ==
  ASSUME PlanInv, UNCHANGED <<run, groups, split, work, turn, stage, inputs, pool, views>>
  PROVE  PlanInv'
<1>1. /\ SplitOk' = SplitOk /\ WorkOk' = WorkOk /\ InputsOk' = InputsOk
      /\ Batch' = Batch /\ HiddenNow' = HiddenNow
  BY DEF SplitOk, WorkOk, InputsOk, Batch, HiddenNow, Context
<1>2. ViewsAsDeclared' = ViewsAsDeclared
  BY <1>1 DEF ViewsAsDeclared, DeclaredPanel, DeclaredRows, HiddenPanel, Provider, Batch
<1> QED
  BY <1>1, <1>2 DEF PlanInv

LEMMA GroupKeepsPlan == ASSUME PlanInv, BeginGroup PROVE PlanInv'
<1>1. /\ stage = "group" /\ stage' = "begin"
      /\ split' = ProviderBatches(Head(groups).factors, run.factorBatch)
      /\ UNCHANGED <<run, groups, views>>
  BY DEF BeginGroup, batchVars
<1>2. Head(groups).factors \in Seq(DOMAIN Factors) /\ Head(groups).factors # <<>>
  BY <1>1, RunFactors, HeadIs DEF PlanInv
<1>3. split' \in Seq(Seq(Elements(Head(groups).factors))) /\ split' # <<>>
  BY <1>1, <1>2, ProviderBatchesAre
<1>4. SplitOk'
  BY <1>1, <1>3 DEF SplitOk
<1> QED
  BY <1>1, <1>4 DEF PlanInv, Dividing, Working

LEMMA BatchKeepsPlan == ASSUME PlanInv, BeginBatch PROVE PlanInv'
<1>1. /\ stage = "begin" /\ stage' = "sources" /\ turn' = 1
      /\ work' = DateWork(Head(groups).factors, BatchContext(Head(groups), Head(queue), Targets))
      /\ UNCHANGED <<run, groups, split, views>>
  BY DEF BeginBatch
<1>2. SplitOk
  BY <1>1 DEF PlanInv, Dividing
<1>3. SplitOk'
  BY <1>1, <1>2 DEF SplitOk
<1>4. 1 \in DOMAIN split
  BY <1>2, SequenceElements DEF SplitOk
<1>5. WorkOk'
  <2> DEFINE context == BatchContext(Head(groups), Head(queue), Targets)
  <2> HIDE DEF context
  <2>1. /\ work'.context = context
        /\ work'.requests = Merged(RequirementsOf(Elements(Head(groups).factors), context))
        /\ work'.batches = [b \in DOMAIN split |-> BatchWork(split[b], context)]
    BY <1>1 DEF DateWork, context
  <2> QED
    BY <1>1, <1>4, <2>1 DEF WorkOk, Context
<1> QED
  BY <1>1, <1>3, <1>5 DEF PlanInv, Dividing, Working

LEMMA SharedKeepsPlan == ASSUME PlanInv, LoadShared PROVE PlanInv'
<1>1. /\ stage = "sources" /\ stage' = "load"
      /\ inputs' \in {None, LoadReused(work.requests, split, Context)}
      /\ UNCHANGED <<run, groups, split, work, turn, views>>
  BY DEF LoadShared, planVars
<1>2. SplitOk' /\ WorkOk'
  BY <1>1 DEF PlanInv, Dividing, SplitOk, WorkOk, Context
<1>3. InputsOk'
  BY <1>1 DEF InputsOk, Context
<1> QED
  BY <1>1, <1>2, <1>3 DEF PlanInv, Dividing, Working

LEMMA LoadKeepsPlan == ASSUME PlanInv, LoadBatch PROVE PlanInv'
<1> DEFINE loaded == IF inputs = None THEN LoadInputs(Batch.requests, Context, FALSE)
                     ELSE LoadFromBatchInputs(inputs, Batch.requests, Context)
<1>1. /\ stage = "load" /\ stage' = "view"
      /\ pool' = [loaded EXCEPT !.raw = RawDates]
      /\ UNCHANGED <<run, groups, split, work, turn, inputs, views>>
  BY DEF LoadBatch, planVars
<1>2. SplitOk /\ WorkOk /\ InputsOk
  BY <1>1 DEF PlanInv, Dividing, Working
<1>3. SplitOk' /\ WorkOk' /\ InputsOk' /\ Batch' = Batch /\ HiddenNow' = HiddenNow
  BY <1>1, <1>2 DEF SplitOk, WorkOk, InputsOk, Batch, HiddenNow, Context
<1>4. PoolFor(loaded, Batch.requests, HiddenNow)
  <2>1. CASE inputs = None
    BY <2>1, OwnPool DEF HiddenNow
  <2>2. CASE inputs # None
    <3>1. inputs = LoadReused(work.requests, split, Context) /\ Within(Batch.requests, work.requests)
      BY <1>2, <2>2, BatchWithin DEF InputsOk
    <3>2. PoolFor(LoadFromBatchInputs(inputs, Batch.requests, Context), Batch.requests, Hidden(inputs, Batch.requests))
      BY <3>1, ReusedPool
    <3> QED
      BY <2>2, <3>2 DEF HiddenNow
  <2> QED
    BY <2>1, <2>2
<1>5. pool'.panels = loaded.panels /\ pool'.rows = loaded.rows
  <2>1. loaded = [panels |-> loaded.panels, rows |-> loaded.rows, minute |-> loaded.minute,
                  raw |-> loaded.raw, universe |-> loaded.universe]
    BY DEF LoadInputs, LoadFromBatchInputs
  <2> HIDE DEF loaded
  <2> QED
    BY <1>1, <2>1
<1> HIDE DEF loaded
<1>6. PoolFor(pool', Batch.requests, HiddenNow)
  BY <1>4, <1>5 DEF PoolFor
<1> QED
  BY <1>1, <1>3, <1>6 DEF PlanInv, Dividing, Working

\* The views that are made are as declared.
LEMMA ViewsKeepPlan == ASSUME PlanInv, MakeViews PROVE PlanInv'
<1>1. /\ stage = "view" /\ stage' = "compute"
      /\ views' = [p \in DOMAIN Batch.providers |-> ViewForRequests(pool, Provider(p).requests, Provider(p).dates)]
      /\ UNCHANGED <<run, groups, split, work, turn, inputs>>
  BY DEF MakeViews, planVars
<1>2. SplitOk /\ WorkOk /\ InputsOk /\ PoolFor(pool, Batch.requests, HiddenNow)
  BY <1>1 DEF PlanInv, Dividing, Working
<1>3. SplitOk' /\ WorkOk' /\ InputsOk' /\ Batch' = Batch
  BY <1>1, <1>2 DEF SplitOk, WorkOk, InputsOk, Batch, Context
<1>4. ASSUME NEW p \in DOMAIN Batch.providers
      PROVE  LET asked == Provider(p).requests
             IN  /\ DOMAIN views'[p].panels \cup DOMAIN views'[p].rows \subseteq DataOf(asked)
                 /\ \A data \in DataOf(asked) \cap PanelData : Serves(views'[p], asked, HiddenNow, data)
  <2> DEFINE asked == Provider(p).requests
  <2>1. views'[p] = ViewForRequests(pool, asked, Provider(p).dates) /\ Within(asked, Batch.requests)
    BY <1>1, <1>2, BatchWithin
  <2> HIDE DEF asked
  <2>2. DOMAIN views'[p].panels \cup DOMAIN views'[p].rows \subseteq DataOf(asked)
    BY <2>1 DEF ViewForRequests
  <2>3. \A data \in DataOf(asked) \cap PanelData : Serves(views'[p], asked, HiddenNow, data)
    BY <1>2, <2>1, ViewIs
  <2> QED
    BY <2>2, <2>3 DEF asked
<1>5. ViewsAsDeclared'
  <2> SUFFICES ASSUME NEW p \in DOMAIN Batch.providers
               PROVE  /\ DOMAIN views'[p].panels \cup DOMAIN views'[p].rows \subseteq DataOf(Provider(p)'.requests)
                      /\ \A data \in DataOf(Provider(p)'.requests) \cap PanelData :
                           (DeclaredPanel(p, data)' \/ HiddenPanel(p, data)') /\ DeclaredRows(p, data)'
    BY <1>1, <1>3 DEF ViewsAsDeclared
  <2>1. Provider(p)' = Provider(p)
    BY <1>3 DEF Provider
  <2>2. DOMAIN views'[p].panels \cup DOMAIN views'[p].rows \subseteq DataOf(Provider(p).requests)
    BY <1>4
  <2>3. ASSUME NEW data \in DataOf(Provider(p).requests) \cap PanelData
        PROVE  (DeclaredPanel(p, data)' \/ HiddenPanel(p, data)') /\ DeclaredRows(p, data)'
    <3>1. DeclaredPanel(p, data)' \/ HiddenPanel(p, data)'
      <4>1. CASE data \in DOMAIN views'[p].panels
        BY <1>4, <2>1, <2>3, <4>1 DEF DeclaredPanel, Serves
      <4>2. CASE data \notin DOMAIN views'[p].panels
        <5>1. data \in HiddenNow
          BY <1>4, <2>3, <4>2 DEF Serves
        <5>2. inputs # None /\ data \in Hidden(inputs, Batch.requests)
          BY <5>1 DEF HiddenNow
        <5> QED
          BY <1>1, <1>3, <4>2, <5>2 DEF HiddenPanel, Hidden
      <4> QED
        BY <4>1, <4>2
    <3>2. DeclaredRows(p, data)'
      BY <1>4, <2>1, <2>3 DEF DeclaredRows, Covers, TableOf, Serves
    <3> QED
      BY <3>1, <3>2
  <2> QED
    BY <2>1, <2>2, <2>3
<1> QED
  BY <1>1, <1>3, <1>5 DEF PlanInv, Dividing, Working

LEMMA ComputeKeepsPlan == ASSUME PlanInv, Compute \/ Fail PROVE PlanInv'
<1>1. /\ stage = "compute" /\ stage' \in {"write", "failed"}
      /\ UNCHANGED <<run, groups, split, work, turn, inputs, views>>
  BY DEF Compute, Fail, planVars, batchVars
<1>2. /\ SplitOk' = SplitOk /\ WorkOk' = WorkOk /\ InputsOk' = InputsOk
      /\ Batch' = Batch
  BY <1>1 DEF SplitOk, WorkOk, InputsOk, Batch, Context
<1>3. ViewsAsDeclared' = ViewsAsDeclared
  BY <1>1, <1>2 DEF ViewsAsDeclared, DeclaredPanel, DeclaredRows, HiddenPanel, Provider, Batch
<1> QED
  BY <1>1, <1>2, <1>3 DEF PlanInv, Dividing, Working

LEMMA WriteKeepsPlan == ASSUME PlanInv, WriteResults \/ KeepResults \/ WriteFullBuffer PROVE PlanInv'
<1>1. /\ stage = "write" /\ NextProviders /\ Cleared
  BY DEF WriteResults, KeepResults, WriteFullBuffer
<1>2. /\ stage' \in {"load", "finish"} /\ DOMAIN views' = {} /\ UNCHANGED <<run, groups, split, work, inputs>>
      /\ turn' = turn \/ (turn < Len(split) /\ turn' = turn + 1)
  BY <1>1 DEF NextProviders, Cleared
<1>3. SplitOk /\ WorkOk /\ InputsOk
  BY <1>1 DEF PlanInv, Dividing, Working
<1>4. SplitOk' /\ InputsOk'
  BY <1>2, <1>3 DEF SplitOk, InputsOk, Context
<1>5. turn' \in DOMAIN split
  <2>1. turn \in DOMAIN split /\ DOMAIN split = 1 .. Len(split) /\ Len(split) \in Nat
    BY <1>3, LenProperties DEF WorkOk, SplitOk
  <2> QED
    BY <1>2, <2>1
<1>6. WorkOk'
  BY <1>2, <1>3, <1>5 DEF WorkOk, Context
<1> QED
  BY <1>1, <1>2, <1>4, <1>6 DEF PlanInv, Dividing, Working

LEMMA FinishKeepsPlan == ASSUME PlanInv, FinishBatch PROVE PlanInv'
<1>1. /\ stage = "finish" /\ UNCHANGED <<run, split, views>>
      /\ \/ stage' = "begin" /\ UNCHANGED groups
         \/ groups' = Tail(groups) /\ stage' = IF Len(groups) > 1 THEN "group" ELSE "done"
  BY DEF FinishBatch, NextDates
<1>2. /\ groups \in Seq(GroupsFrom(run.factors)) /\ groups # <<>> /\ SplitOk /\ DOMAIN views = {} /\ run \in Runs
  BY <1>1 DEF PlanInv, Dividing
<1>3. CASE stage' = "begin" /\ UNCHANGED groups
  <2>1. SplitOk'
    BY <1>1, <1>2, <1>3 DEF SplitOk
  <2> QED
    BY <1>1, <1>2, <1>3, <2>1 DEF PlanInv, Dividing, Working
<1>4. CASE groups' = Tail(groups) /\ stage' = IF Len(groups) > 1 THEN "group" ELSE "done"
  <2>1. Tail(groups) \in Seq(GroupsFrom(run.factors)) /\ (Len(groups) > 1 => Tail(groups) # <<>>)
    BY <1>2, RunFactors, HeadIs
  <2>2. stage' \in {"group", "done"} /\ groups' \in Seq(GroupsFrom(run.factors)) /\ (stage' # "done" => groups' # <<>>)
    BY <1>4, <2>1
  <2> QED
    BY <1>1, <1>2, <2>2 DEF PlanInv, Dividing, Working
<1> QED
  BY <1>1, <1>3, <1>4

\* Hence every step keeps it.
LEMMA NextKeepsPlan == PlanInv /\ [Next]_vars => PlanInv'
<1> SUFFICES ASSUME PlanInv, [Next]_vars PROVE PlanInv'
  OBVIOUS
<1>1. CASE UNCHANGED vars
  <2>1. UNCHANGED <<run, groups, split, work, turn, stage, inputs, pool, views>>
    BY <1>1 DEF vars, planVars, batchVars
  <2> QED
    BY <2>1, SourcesKeepPlan
<1>2. CASE \E y \in FileYears : UpdateFile(y) \/ StampYear(y) \/ LoadYear(y)
  <2>1. UNCHANGED <<run, groups, split, work, turn, stage, inputs, pool, views>>
    BY <1>2 DEF UpdateFile, StampYear, LoadYear, planVars, batchVars
  <2> QED
    BY <2>1, SourcesKeepPlan
<1>3. CASE BeginGroup \/ BeginBatch \/ LoadShared
  BY <1>3, GroupKeepsPlan, BatchKeepsPlan, SharedKeepsPlan
<1>4. CASE LoadBatch \/ MakeViews \/ Compute \/ Fail
  BY <1>4, LoadKeepsPlan, ViewsKeepPlan, ComputeKeepsPlan
<1>5. CASE WriteResults \/ KeepResults \/ WriteFullBuffer \/ FinishBatch
  BY <1>5, WriteKeepsPlan, FinishKeepsPlan
<1> QED
  BY <1>1, <1>2, <1>3, <1>4, <1>5 DEF Next

\* Whatever the registry, the run and its division into batches: a provider's view has the
\* panels, dates and columns it declared and the rows it asked for, however much is loaded
\* for the batches it is computed with; the only panel it can lack is one hidden by rows
\* that were loaded for others.
THEOREM ViewsServeRequests == Spec => []ViewsAsDeclared
<1>1. PlanInv => ViewsAsDeclared
  BY DEF PlanInv, ViewsAsDeclared
<1> QED
  BY <1>1, InitPlan, NextKeepsPlan, PTL DEF Spec

-----------------------------------------------------------------------------
(* The calendar by places. *)

\* An ascending enumeration of a set is the only one.
LEMMA AscendingUnique ==
  ASSUME NEW S, S \subseteq Nat, IsFiniteSet(S), NEW n \in Nat, NEW s \in [1 .. n -> S],
         \A i, j \in 1 .. n : i < j => s[i] < s[j],
         \A x \in S : \E i \in 1 .. n : s[i] = x
  PROVE  Ascending(S) = s /\ Cardinality(S) = n
<1> DEFINE A == Ascending(S)
<1>1. Cardinality(S) = n
  <2>1. s \in Injection(1 .. n, S)
    <3>1. \A i, j \in 1 .. n : s[i] = s[j] => i = j
      <4> SUFFICES ASSUME NEW i \in 1 .. n, NEW j \in 1 .. n, s[i] = s[j], i # j PROVE FALSE
        OBVIOUS
      <4>1. i < j \/ j < i
        OBVIOUS
      <4>2. s[i] < s[j] \/ s[j] < s[i]
        BY <4>1
      <4>3. s[i] \in Nat
        OBVIOUS
      <4> QED
        BY <4>2, <4>3
    <3> QED
      BY <3>1 DEF Injection, IsInjective
  <2>2. s \in Surjection(1 .. n, S)
    BY DEF Surjection
  <2>3. IsFiniteSet(1 .. n) /\ Cardinality(1 .. n) = n
    BY FS_Interval
  <2>4. Cardinality(S) <= n
    BY <2>2, <2>3, FS_Surjection
  <2>5. n <= Cardinality(S)
    BY <2>1, <2>3, FS_Injection
  <2>6. Cardinality(S) \in Nat
    BY FS_CardinalityType
  <2> QED
    BY <2>4, <2>5, <2>6
<1>2. /\ DOMAIN A = 1 .. n /\ A \in Seq(S)
      /\ \A i \in 1 .. n : A[i] \in S
      /\ \A i, j \in 1 .. n : i < j => A[i] < A[j]
      /\ \A x \in S : \E i \in 1 .. n : A[i] = x
  BY <1>1, AscendingIs
<1> HIDE DEF A
<1>3. \A i \in 1 .. n : A[i] = s[i]
  <2> DEFINE T == {i \in 1 .. n : A[i] # s[i]}
  <2> SUFFICES ASSUME T # {} PROVE FALSE
    OBVIOUS
  <2>1. PICK i \in T : \A k \in T : i <= k
    <3>1. T \subseteq Nat
      OBVIOUS
    <3> QED
      BY <3>1, LeastNatural
  <2>2. PICK j \in 1 .. n : s[j] = A[i]
    BY <1>2
  <2>3. PICK k \in 1 .. n : A[k] = s[i]
    <3>1. s[i] \in S
      OBVIOUS
    <3> QED
      BY <1>2, <3>1
  <2>4. \A m \in 1 .. n : m < i => A[m] = s[m]
    BY <2>1
  <2>5. j # i /\ k # i
    BY <2>1, <2>2, <2>3
  <2>6. A[i] \in Nat /\ s[i] \in Nat /\ s[j] \in Nat /\ A[k] \in Nat
    BY <1>2
  <2>7. ~(j < i)
    <3> SUFFICES ASSUME j < i PROVE FALSE
      OBVIOUS
    <3>1. A[j] = s[j] /\ A[j] < A[i]
      BY <1>2, <2>4
    <3> QED
      BY <2>2, <2>6, <3>1
  <2>8. ~(k < i)
    <3> SUFFICES ASSUME k < i PROVE FALSE
      OBVIOUS
    <3>1. A[k] = s[k] /\ s[k] < s[i]
      BY <2>4
    <3> QED
      BY <2>3, <2>6, <3>1
  <2>9. i < j /\ i < k
    BY <2>5, <2>7, <2>8
  <2>10. s[i] < s[j] /\ A[i] < A[k]
    BY <1>2, <2>9
  <2> QED
    BY <2>2, <2>3, <2>6, <2>10
<1>4. A = [i \in 1 .. n |-> A[i]] /\ s = [i \in 1 .. n |-> s[i]]
  BY <1>2
<1>5. A = s
  BY <1>3, <1>4
<1> QED
  BY <1>1, <1>5 DEF A

\* The open dates by their places.
Days == Ascending(OpenDates)
Count == Cardinality(OpenDates)

\* Days lists the calendar in order, and Place is the inverse.
LEMMA DaysAre ==
  /\ Count \in Nat /\ Count >= 1 /\ Days \in Seq(OpenDates) /\ DOMAIN Days = 1 .. Count /\ Len(Days) = Count
  /\ \A i \in 1 .. Count : Days[i] \in OpenDates /\ Days[i] \in Nat /\ Place(Days[i]) = i
  /\ \A i, j \in 1 .. Count : (i < j <=> Days[i] < Days[j]) /\ (i <= j <=> Days[i] <= Days[j])
  /\ \A d \in OpenDates : Place(d) \in 1 .. Count /\ Days[Place(d)] = d
<1>1. OpenDates \subseteq Nat /\ IsFiniteSet(OpenDates) /\ OpenDates # {}
  BY CalendarAssumption
<1>2. /\ Count \in Nat /\ DOMAIN Days = 1 .. Count /\ Days \in Seq(OpenDates) /\ Len(Days) = Count
      /\ \A i \in 1 .. Count : Days[i] \in OpenDates
      /\ \A i, j \in 1 .. Count : i < j => Days[i] < Days[j]
      /\ \A d \in OpenDates : \E i \in 1 .. Count : Days[i] = d
      /\ \A i \in 1 .. Count : Cardinality({m \in OpenDates : m < Days[i]}) = i - 1
  BY <1>1, AscendingIs DEF Days, Count
<1> HIDE DEF Days, Count
<1>3. Count >= 1
  <2>1. PICK d \in OpenDates : TRUE
    BY <1>1
  <2>2. PICK i \in 1 .. Count : Days[i] = d
    BY <1>2
  <2> QED
    BY <1>2, <2>2
<1>4. \A i \in 1 .. Count : Days[i] \in OpenDates /\ Days[i] \in Nat /\ Place(Days[i]) = i
  <2> SUFFICES ASSUME NEW i \in 1 .. Count PROVE Days[i] \in OpenDates /\ Days[i] \in Nat /\ Place(Days[i]) = i
    OBVIOUS
  <2>1. Days[i] \in OpenDates /\ Days[i] \in Nat
    BY <1>1, <1>2
  <2>2. Place(Days[i]) = Cardinality({m \in OpenDates : m < Days[i]}) + 1
    BY DEF Place
  <2>3. Cardinality({m \in OpenDates : m < Days[i]}) = i - 1
    BY <1>2
  <2>4. i \in Nat
    BY <1>2
  <2> QED
    BY <2>1, <2>2, <2>3, <2>4
<1>5. \A d \in OpenDates : Place(d) \in 1 .. Count /\ Days[Place(d)] = d
  <2> SUFFICES ASSUME NEW d \in OpenDates PROVE Place(d) \in 1 .. Count /\ Days[Place(d)] = d
    OBVIOUS
  <2>1. PICK i \in 1 .. Count : Days[i] = d
    BY <1>2
  <2> QED
    BY <1>4, <2>1
<1>6. ASSUME NEW i \in 1 .. Count, NEW j \in 1 .. Count
      PROVE  (i < j <=> Days[i] < Days[j]) /\ (i <= j <=> Days[i] <= Days[j])
  <2>1. Days[i] \in Nat /\ Days[j] \in Nat /\ i \in Nat /\ j \in Nat
    BY <1>4
  <2>2. (i < j => Days[i] < Days[j]) /\ (j < i => Days[j] < Days[i]) /\ (i = j => Days[i] = Days[j])
    BY <1>2
  <2>3. i < j \/ j < i \/ i = j
    BY <2>1
  <2> QED
    BY <2>1, <2>2, <2>3
<1> QED
  BY <1>2, <1>3, <1>4, <1>5, <1>6

\* Dates between two places.
LEMMA BetweenPlaces ==
  ASSUME NEW i \in 1 .. Count, NEW j \in 1 .. Count, i <= j
  PROVE  /\ Between(Days[i], Days[j]) = {Days[k] : k \in i .. j}
         /\ Ascending(Between(Days[i], Days[j])) = SubSeq(Days, i, j)
         /\ Len(SubSeq(Days, i, j)) = j - i + 1
         /\ \A k \in 1 .. j - i + 1 : SubSeq(Days, i, j)[k] = Days[i + k - 1]
         /\ SubSeq(Days, i, j) \in Seq(OpenDates)
<1> DEFINE S == Between(Days[i], Days[j])
           s == SubSeq(Days, i, j)
           n == j - i + 1
<1>0. Count \in Nat /\ i \in Nat /\ j \in Nat /\ 1 <= i /\ j <= Count /\ n \in Nat
  BY DaysAre
<1>1. S = {Days[k] : k \in i .. j}
  <2>1. ASSUME NEW d \in S PROVE d \in {Days[k] : k \in i .. j}
    <3>1. d \in OpenDates /\ Days[i] <= d /\ d <= Days[j]
      BY DEF Between
    <3>2. Place(d) \in 1 .. Count /\ Days[Place(d)] = d
      BY <3>1, DaysAre
    <3>3. i <= Place(d) /\ Place(d) <= j
      BY <3>1, <3>2, DaysAre
    <3>4. Place(d) \in i .. j
      BY <1>0, <3>2, <3>3
    <3> QED
      BY <3>2, <3>4
  <2>2. ASSUME NEW k \in i .. j PROVE Days[k] \in S
    <3>1. k \in 1 .. Count /\ i <= k /\ k <= j
      BY <1>0
    <3>2. Days[k] \in OpenDates /\ Days[i] <= Days[k] /\ Days[k] <= Days[j]
      BY <3>1, DaysAre
    <3> QED
      BY <3>2 DEF Between
  <2> QED
    BY <2>1, <2>2
<1>2. /\ Len(s) = n /\ s \in Seq(OpenDates)
      /\ \A k \in 1 .. n : s[k] = Days[i + k - 1]
  <2>1. Days \in Seq(OpenDates) /\ Len(Days) = Count /\ \A k \in i .. j : Days[k] \in OpenDates
    BY <1>0, DaysAre
  <2>2. s = [k \in 1 .. n |-> Days[k + i - 1]]
    BY <1>0, <2>1
  <2> HIDE DEF s
  <2>3. \A k \in 1 .. n : k + i - 1 \in i .. j /\ k + i - 1 = i + k - 1
    BY <1>0
  <2>4. s \in [1 .. n -> OpenDates]
    BY <2>1, <2>2, <2>3
  <2>5. s \in Seq(OpenDates) /\ Len(s) = n
    BY <1>0, <2>4, SeqDef, LenProperties
  <2> QED
    BY <2>2, <2>3, <2>5
<1>3. s \in [1 .. n -> S]
  <2>1. \A k \in 1 .. n : i + k - 1 \in i .. j
    BY <1>0
  <2>2. \A k \in 1 .. n : s[k] \in S
    BY <1>1, <1>2, <2>1
  <2>3. s = [k \in 1 .. n |-> s[k]]
    BY <1>2, LenProperties
  <2> HIDE DEF s, S
  <2> QED
    BY <2>2, <2>3
<1>4. \A k, m \in 1 .. n : k < m => s[k] < s[m]
  <2> SUFFICES ASSUME NEW k \in 1 .. n, NEW m \in 1 .. n, k < m PROVE s[k] < s[m]
    OBVIOUS
  <2>1. i + k - 1 \in 1 .. Count /\ i + m - 1 \in 1 .. Count /\ i + k - 1 < i + m - 1
    BY <1>0
  <2> HIDE DEF s
  <2> QED
    BY <1>2, <2>1, DaysAre
<1>5. \A x \in S : \E k \in 1 .. n : s[k] = x
  <2> SUFFICES ASSUME NEW m \in i .. j PROVE \E k \in 1 .. n : s[k] = Days[m]
    BY <1>1
  <2>1. m - i + 1 \in 1 .. n /\ i + (m - i + 1) - 1 = m
    BY <1>0
  <2> HIDE DEF s
  <2> QED
    BY <1>2, <2>1
<1>6. S \subseteq Nat /\ IsFiniteSet(S)
  <2>1. S \subseteq OpenDates
    BY DEF Between
  <2> HIDE DEF S
  <2> QED
    BY <2>1, CalendarAssumption, FS_Subset
<1> HIDE DEF s, S, n
<1>7. Ascending(S) = s
  BY <1>0, <1>3, <1>4, <1>5, <1>6, AscendingUnique
<1> QED
  BY <1>1, <1>2, <1>7 DEF s, S, n

\* The warmup of a date by places.
LEMMA WarmupPlace ==
  ASSUME NEW d \in OpenDates, NEW n \in Nat
  PROVE  /\ Greater(1, Place(d) - n) \in 1 .. Place(d) /\ Place(d) \in 1 .. Count
         /\ WarmupStart(d, n) = Days[Greater(1, Place(d) - n)]
<1>1. Place(d) \in 1 .. Count /\ Days[Place(d)] = d /\ Count \in Nat
  BY DaysAre
<1>2. Greater(1, Place(d) - n) \in 1 .. Place(d)
  BY <1>1 DEF Greater
<1>3. ~(Place(d) > Cardinality(OpenDates))
  BY <1>1 DEF Count
<1>4. n = 0 => Greater(1, Place(d) - n) = Place(d)
  BY <1>1 DEF Greater
<1>5. n # 0 => WarmupStart(d, n) = Days[Greater(1, Place(d) - n)]
  BY <1>3 DEF WarmupStart, Days
<1>6. n = 0 => WarmupStart(d, n) = d
  BY DEF WarmupStart
<1> QED
  BY <1>1, <1>2, <1>4, <1>5, <1>6

\* A later date or a shorter warmup starts no earlier.
LEMMA WarmupOrder ==
  ASSUME NEW d \in OpenDates, NEW e \in OpenDates, NEW m \in Nat, NEW n \in Nat, d <= e, m <= n
  PROVE  /\ WarmupStart(d, n) \in OpenDates /\ WarmupStart(d, n) <= d
         /\ WarmupStart(d, n) <= WarmupStart(e, m)
<1> DEFINE i == Greater(1, Place(d) - n)
           j == Greater(1, Place(e) - m)
<1>1. i \in 1 .. Place(d) /\ Place(d) \in 1 .. Count /\ WarmupStart(d, n) = Days[i]
  BY WarmupPlace
<1>2. j \in 1 .. Place(e) /\ Place(e) \in 1 .. Count /\ WarmupStart(e, m) = Days[j]
  BY WarmupPlace
<1>3. Days[Place(d)] = d /\ Days[Place(e)] = e /\ Place(d) <= Place(e)
  BY <1>1, <1>2, DaysAre
<1>4. Place(d) \in Nat /\ Place(e) \in Nat /\ Count \in Nat
  BY <1>1, <1>2, DaysAre
<1>5. i <= j
  BY <1>3, <1>4 DEF Greater
<1>6. i \in 1 .. Count /\ j \in 1 .. Count /\ i <= Place(d)
  BY <1>1, <1>2, <1>4
<1> HIDE DEF i, j
<1>7. Days[i] \in OpenDates /\ Days[i] <= Days[Place(d)] /\ Days[i] <= Days[j]
  BY <1>1, <1>5, <1>6, DaysAre
<1> QED
  BY <1>1, <1>2, <1>3, <1>7

-----------------------------------------------------------------------------
(* Date batches. *)

\* A part of a sequence that begins after its first k elements.
Slice(t, s, k) ==
  /\ k \in Nat /\ Len(t) >= 1 /\ k + Len(t) <= Len(s)
  /\ \A m \in 1 .. Len(t) : t[m] = s[k + m]

\* A part of a sequence.
LEMMA SubSequence ==
  ASSUME NEW X, NEW s \in Seq(X), NEW a \in Nat \ {0}, NEW b \in Nat, a <= b + 1, b <= Len(s)
  PROVE  /\ SubSeq(s, a, b) \in Seq(X) /\ Len(SubSeq(s, a, b)) = b - a + 1
         /\ DOMAIN SubSeq(s, a, b) = 1 .. b - a + 1
         /\ \A m \in 1 .. b - a + 1 : SubSeq(s, a, b)[m] = s[a + m - 1]
<1> DEFINE t == SubSeq(s, a, b)
           n == b - a + 1
<1>1. n \in Nat /\ Len(s) \in Nat /\ DOMAIN s = 1 .. Len(s) /\ \A i \in DOMAIN s : s[i] \in X
  BY LenProperties, ElementOfSeq
<1>2. t = [m \in 1 .. n |-> s[m + a - 1]]
  BY <1>1
<1> HIDE DEF t
<1>3. \A m \in 1 .. n : m + a - 1 \in DOMAIN s /\ m + a - 1 = a + m - 1
  BY <1>1
<1>4. t \in [1 .. n -> X]
  BY <1>1, <1>2, <1>3
<1>5. t \in Seq(X) /\ Len(t) = n /\ DOMAIN t = 1 .. n
  BY <1>1, <1>4, SeqDef, LenProperties
<1> QED
  BY <1>2, <1>3, <1>5 DEF t

\* Chunks are parts of the sequence that cover it; chunks of one are its elements.
LEMMA ChunksAre ==
  ASSUME NEW X, NEW s \in Seq(X), NEW size \in Nat \ {0}
  PROVE  /\ Chunks(s, size) \in Seq(Seq(X))
         /\ \A i \in DOMAIN Chunks(s, size) : \E k \in Nat : Slice(Chunks(s, size)[i], s, k)
         /\ \A j \in DOMAIN s : \E i \in DOMAIN Chunks(s, size) : s[j] \in Elements(Chunks(s, size)[i])
         /\ size = 1 => /\ Len(Chunks(s, size)) = Len(s)
                        /\ \A i \in DOMAIN s : Chunks(s, size)[i] = <<s[i]>>
<1> DEFINE n == Len(s)
           count == (n + size - 1) \div size
           first(i) == (i - 1) * size + 1
           last(i) == IF i * size < n THEN i * size ELSE n
           c == Chunks(s, size)
<1>1. n \in Nat /\ DOMAIN s = 1 .. n /\ \A i \in DOMAIN s : s[i] \in X
  BY LenProperties, ElementOfSeq
<1>2. count \in Nat /\ count * size <= n + size - 1 /\ n + size - 1 < count * size + size
  <2>1. n + size - 1 \in Nat
    BY <1>1
  <2>2. count \in Int /\ count * size <= n + size - 1 /\ n + size - 1 < count * size + size
    BY <2>1, DivRule
  <2>3. count >= 0
    BY <2>1
  <2> QED
    BY <2>2, <2>3
<1> DEFINE top == count
<1> HIDE DEF n
<1>3. c = [i \in 1 .. top |-> SubSeq(s, first(i), last(i))]
  BY DEF Chunks, n
<1> HIDE DEF top, c
<1>2a. top \in Nat /\ top * size <= n + size - 1 /\ n + size - 1 < top * size + size
  BY <1>2 DEF top
<1>4. ASSUME NEW i \in 1 .. top
      PROVE  first(i) \in Nat \ {0} /\ last(i) \in Nat /\ first(i) <= last(i) /\ last(i) <= n
  <2>1. i * size <= top * size /\ (i - 1) * size \in Nat /\ i * size \in Nat /\ (i - 1) * size = i * size - size
    <3>1. i \in Nat /\ i <= top /\ i - 1 \in Nat
      BY <1>2a
    <3> QED
      BY <1>2a, <3>1, TimesMonotone
  <2>2. (i - 1) * size <= n - 1
    BY <1>1, <1>2a, <2>1
  <2> QED
    BY <1>1, <2>1, <2>2
<1> HIDE DEF first, last
<1>5. ASSUME NEW i \in 1 .. top
      PROVE  c[i] \in Seq(X) /\ Slice(c[i], s, first(i) - 1) /\ Len(c[i]) = last(i) - first(i) + 1
  <2> DEFINE a == first(i)
             b == last(i)
             t == SubSeq(s, a, b)
  <2>1. a \in Nat \ {0} /\ b \in Nat /\ a <= b /\ b <= n
    BY <1>4
  <2>2. c[i] = t
    BY <1>3
  <2> HIDE DEF a, b
  <2>3. t \in Seq(X) /\ Len(t) = b - a + 1 /\ \A m \in 1 .. b - a + 1 : t[m] = s[a + m - 1]
    BY <2>1, SubSequence DEF n
  <2> HIDE DEF t
  <2>4. Slice(t, s, a - 1)
    <3>1. \A m \in 1 .. b - a + 1 : t[m] = s[a - 1 + m]
      <4>1. \A m \in 1 .. b - a + 1 : a + m - 1 = a - 1 + m
        BY <2>1
      <4> QED
        BY <2>3, <4>1
    <3> QED
      BY <2>1, <2>3, <3>1 DEF Slice, n
  <2> QED
    BY <2>2, <2>3, <2>4 DEF a, b
<1>6. c \in Seq(Seq(X)) /\ DOMAIN c = 1 .. top /\ Len(c) = top
  <2> DEFINE B == Seq(X)
  <2>1. \A i \in 1 .. top : c[i] \in B
    BY <1>5
  <2> HIDE DEF B
  <2>2. c \in [1 .. top -> B]
    BY <1>3, <2>1
  <2>3. c \in Seq(B)
    BY <1>2a, <2>2, SeqDef
  <2> QED
    BY <1>2a, <2>2, <2>3, LenProperties DEF B
<1>7. \A i \in DOMAIN c : \E k \in Nat : Slice(c[i], s, k)
  BY <1>5, <1>6 DEF Slice
<1>8. ASSUME NEW j \in DOMAIN s PROVE \E i \in DOMAIN c : s[j] \in Elements(c[i])
  <2> DEFINE q == (j - 1) \div size
  <2>1. j \in Nat /\ j >= 1 /\ j <= n
    BY <1>1
  <2>2. q \in Int /\ q * size <= j - 1 /\ j - 1 < q * size + size /\ q >= 0
    <3>0. ASSUME NEW a \in Nat
          PROVE  /\ a \div size \in Int /\ (a \div size) * size <= a
                 /\ a < (a \div size) * size + size /\ a \div size >= 0
      <4>1. a \div size >= 0
        OBVIOUS
      <4> QED
        BY <4>1, DivRule
    <3>1. j - 1 \in Nat
      BY <2>1
    <3> QED
      BY <3>0, <3>1
  <2> HIDE DEF q
  <2> DEFINE i == q + 1
  <2>3. i * size = q * size + size /\ q * size \in Nat /\ (i - 1) * size = q * size
    BY <2>2
  <2>4. i <= top
    <3> SUFFICES ASSUME top + 1 <= i PROVE FALSE
      BY <1>2a, <2>2
    <3>1. (top + 1) * size <= i * size /\ (top + 1) * size = top * size + size
      BY <1>2a, <2>2, TimesMonotone
    <3> QED
      BY <1>1, <1>2a, <2>1, <2>2, <2>3, <3>1
  <2>5. i \in 1 .. top
    BY <1>2a, <2>2, <2>4
  <2>6. first(i) = q * size + 1 /\ first(i) <= j /\ j <= last(i)
    BY <1>1, <2>1, <2>2, <2>3 DEF first, last
  <2>7. Slice(c[i], s, first(i) - 1) /\ Len(c[i]) = last(i) - first(i) + 1 /\ first(i) \in Nat \ {0} /\ last(i) \in Nat
    BY <1>4, <1>5, <2>5
  <2> HIDE DEF i
  <2>8. j - first(i) + 1 \in 1 .. Len(c[i]) /\ first(i) - 1 + (j - first(i) + 1) = j
    BY <2>1, <2>6, <2>7
  <2>9. c[i][j - first(i) + 1] = s[j]
    BY <2>7, <2>8 DEF Slice
  <2>10. DOMAIN c[i] = 1 .. Len(c[i])
    BY <1>5, <2>5, LenProperties
  <2> QED
    BY <1>6, <2>5, <2>8, <2>9, <2>10 DEF Elements
<1>9. ASSUME size = 1 PROVE top = n /\ \A i \in DOMAIN s : c[i] = <<s[i]>>
  <2>1. top = n
    BY <1>1, <1>2a, <1>9
  <2>2. ASSUME NEW i \in DOMAIN s PROVE c[i] = <<s[i]>>
    <3>1. i \in 1 .. top /\ i \in Nat /\ i <= n
      BY <1>1, <2>1
    <3>2. first(i) = i /\ last(i) = i
      BY <1>1, <1>9, <3>1 DEF first, last
    <3>2a. Slice(c[i], s, first(i) - 1) /\ Len(c[i]) = last(i) - first(i) + 1 /\ c[i] \in Seq(X)
      BY <1>5, <3>1
    <3>2b. last(i) - first(i) + 1 = 1
      BY <3>1, <3>2
    <3>3. Slice(c[i], s, i - 1) /\ Len(c[i]) = 1 /\ c[i] \in Seq(X)
      BY <3>2, <3>2a, <3>2b
    <3>4. c[i][1] = s[i]
      BY <3>1, <3>3 DEF Slice
    <3>5. c[i] = [k \in 1 .. 1 |-> c[i][k]]
      BY <3>3, LenProperties
    <3>6. \A k \in 1 .. 1 : k = 1
      OBVIOUS
    <3>7. <<s[i]>> = [k \in 1 .. 1 |-> s[i]]
      OBVIOUS
    <3>8. [k \in 1 .. 1 |-> c[i][k]] = [k \in 1 .. 1 |-> s[i]]
      BY <3>4, <3>6
    <3> QED
      BY <3>5, <3>7, <3>8
  <2> QED
    BY <2>1, <2>2
<1> QED
  BY <1>6, <1>7, <1>8, <1>9 DEF c, n

\* Only a factor of raw data is warmed up for longer than its lookback.
LEMMA CalendarLookbacks ==
  ASSUME NEW f \in DOMAIN Factors
  PROVE  /\ CalendarLookback(f) \in Nat
         /\ Factors[f].kind # "raw" => CalendarLookback(f) = Factors[f].lookback
<1>1. /\ Factors[f].lookback \in Nat /\ Factors[f].rawLookback \in Nat
      /\ Factors[f].kind # "raw" => Factors[f].rawLookback = 0
  BY FactorAssumption
<1> QED
  BY <1>1 DEF CalendarLookback, Greater

\* The lookback of a group is the longest of its factors'.
LEMMA GroupLookbackIs ==
  ASSUME NEW fs \in Seq(DOMAIN Factors), fs # <<>>
  PROVE  /\ GroupLookback(fs) \in Nat
         /\ \E f \in Elements(fs) : GroupLookback(fs) = CalendarLookback(f)
         /\ \A f \in Elements(fs) : CalendarLookback(f) <= GroupLookback(fs)
<1> DEFINE T == {CalendarLookback(f) : f \in Elements(fs)}
           n == GroupLookback(fs)
<1>1. Len(fs) \in Nat /\ DOMAIN fs = 1 .. Len(fs) /\ Elements(fs) \subseteq DOMAIN Factors /\ Len(fs) >= 1
  BY SequenceElements
<1>2. T \subseteq Nat
  BY <1>1, CalendarLookbacks
<1>3. T # {}
  <2>1. 1 \in DOMAIN fs
    BY <1>1
  <2> QED
    BY <2>1 DEF Elements
<1>4. IsFiniteSet(T)
  <2> DEFINE D == DOMAIN fs
  <2>1. IsFiniteSet(D)
    BY <1>1, FS_Interval
  <2>2. [i \in D |-> CalendarLookback(fs[i])] \in Surjection(D, T)
    BY DEF Surjection, Elements
  <2> HIDE DEF D, T
  <2> QED
    BY <2>1, <2>2, FS_Surjection
<1>5. n = CHOOSE k \in T : \A m \in T : m <= k
  BY DEF GroupLookback
<1> HIDE DEF T, n
<1>6. \E k \in T : \A m \in T : m <= k
  BY <1>2, <1>3, <1>4, GreatestNatural
<1>7. n \in T /\ \A m \in T : m <= n
  BY <1>5, <1>6
<1> QED
  BY <1>2, <1>7 DEF T, n

\* The least and the latest of some open dates.
LEMMA LeastIs ==
  ASSUME NEW targets, targets \subseteq OpenDates, targets # {}
  PROVE  /\ Least(targets) \in targets /\ \A d \in targets : Least(targets) <= d
         /\ Latest(targets) \in targets /\ \A d \in targets : d <= Latest(targets)
<1>1. targets \subseteq Nat /\ IsFiniteSet(targets)
  BY CalendarAssumption, FS_Subset
<1>2. \E d \in targets : \A e \in targets : d <= e
  BY <1>1, LeastNatural
<1>3. \E d \in targets : \A e \in targets : e <= d
  BY <1>1, GreatestNatural
<1> QED
  BY <1>2, <1>3 DEF Least, Latest

\* The dates a group goes through, in their order; a streaming one goes through the dates
\* from one place of the calendar to another.
LEMMA StageDatesAre ==
  ASSUME NEW group, group.factors \in Seq(DOMAIN Factors), group.factors # <<>>,
         NEW targets, targets \subseteq OpenDates, targets # {}
  PROVE  LET S == StageDates(group, targets)
             L == GroupLookback(group.factors)
         IN  /\ S \subseteq OpenDates /\ S \subseteq Nat /\ IsFiniteSet(S) /\ targets \subseteq S
             /\ group.stage = "stream" =>
                  \E b \in 1 .. Count :
                    /\ Greater(1, Place(Least(targets)) - L) \in 1 .. b
                    /\ Ascending(S) = SubSeq(Days, Greater(1, Place(Least(targets)) - L), b)
<1> DEFINE L == GroupLookback(group.factors)
           from == Least(targets)
           to == Latest(targets)
           S == StageDates(group, targets)
           a == Greater(1, Place(from) - L)
           b == Place(to)
<1>1. L \in Nat
  BY GroupLookbackIs
<1>2. from \in targets /\ to \in targets /\ from \in OpenDates /\ to \in OpenDates
      /\ \A d \in targets : from <= d /\ d <= to
  BY LeastIs
<1>3. OpenDates \subseteq Nat /\ IsFiniteSet(OpenDates)
  BY CalendarAssumption
<1>4. CASE group.stage = "stream"
  <2>1. S = Between(WarmupStart(from, L), to)
    BY <1>4 DEF StageDates
  <2> HIDE DEF L, from, to, S
  <2>2. a \in 1 .. Place(from) /\ Place(from) \in 1 .. Count /\ WarmupStart(from, L) = Days[a]
    BY <1>1, <1>2, WarmupPlace
  <2>3. b \in 1 .. Count /\ Days[b] = to /\ Days[Place(from)] = from /\ Count \in Nat
    BY <1>2, DaysAre
  <2>4. Place(from) <= b
    BY <1>2, <2>2, <2>3, DaysAre
  <2> HIDE DEF a, b
  <2>5. a \in 1 .. b /\ a \in 1 .. Count
    BY <2>2, <2>3, <2>4
  <2>6. S = Between(Days[a], Days[b])
    BY <2>1, <2>2, <2>3
  <2>7. Ascending(S) = SubSeq(Days, a, b)
    BY <2>3, <2>5, <2>6, BetweenPlaces
  <2>8. WarmupStart(from, L) <= from /\ WarmupStart(from, L) \in OpenDates
    <3>1. from <= from
      BY <1>2, <1>3
    <3> QED
      BY <1>1, <1>2, <3>1, WarmupOrder
  <2>9. targets \subseteq S
    <3> SUFFICES ASSUME NEW d \in targets PROVE d \in S
      OBVIOUS
    <3>1. d \in OpenDates /\ from <= d /\ d <= to
      BY <1>2
    <3>2. WarmupStart(from, L) <= d
      BY <1>2, <1>3, <2>8, <3>1
    <3> QED
      BY <2>1, <3>1, <3>2 DEF Between
  <2>10. S \subseteq OpenDates
    BY <2>1 DEF Between
  <2>11. IsFiniteSet(S)
    BY <1>3, <2>10, FS_Subset
  <2> QED
    BY <1>3, <2>3, <2>5, <2>7, <2>9, <2>10, <2>11 DEF S, L, from, a
<1>5. CASE group.stage # "stream"
  <2>1. S = targets
    BY <1>5 DEF StageDates
  <2>2. IsFiniteSet(targets)
    BY <1>3, FS_Subset
  <2> QED
    BY <1>3, <1>5, <2>1, <2>2
<1> QED
  BY <1>4, <1>5

\* A date batch: open dates in their order.
Ordered(q) ==
  /\ q \in Seq(OpenDates) /\ q # <<>> /\ q[1] \in Elements(q) /\ q[Len(q)] \in Elements(q)
  /\ \A d \in Elements(q) : q[1] <= d /\ d <= q[Len(q)]

\* Date batches are ordered and cover the targets; a streaming group has one per date.
LEMMA DateBatchesAre ==
  ASSUME NEW group, group.factors \in Seq(DOMAIN Factors), group.factors # <<>>,
         NEW targets, targets \subseteq OpenDates, targets # {}, NEW size \in Nat \ {0}
  PROVE  LET D == Ascending(StageDates(group, targets))
             B == DateBatches(group, targets, size)
         IN  /\ B \in Seq(Seq(OpenDates)) /\ B # <<>>
             /\ \A i \in DOMAIN B : Ordered(B[i])
             /\ \A d \in targets : \E i \in DOMAIN B : d \in Elements(B[i])
             /\ D \in Seq(OpenDates)
             /\ group.stage = "stream" => Len(B) = Len(D) /\ \A i \in DOMAIN B : B[i] = <<D[i]>>
<1> DEFINE S == StageDates(group, targets)
           D == Ascending(S)
           many == IF group.stage \in {"daily", "raw"} THEN size ELSE 1
           B == DateBatches(group, targets, size)
<1>1. S \subseteq OpenDates /\ S \subseteq Nat /\ IsFiniteSet(S) /\ targets \subseteq S
  BY StageDatesAre
<1> HIDE DEF S
<1>2. /\ D \in Seq(S) /\ DOMAIN D = 1 .. Cardinality(S) /\ Len(D) = Cardinality(S) /\ Cardinality(S) \in Nat
      /\ \A i, j \in 1 .. Cardinality(S) : i < j => D[i] < D[j]
      /\ \A n \in S : \E i \in 1 .. Cardinality(S) : D[i] = n
  BY <1>1, AscendingIs
<1> HIDE DEF D
<1>3. \A i \in DOMAIN D : D[i] \in S /\ D[i] \in OpenDates /\ D[i] \in Nat
  BY <1>1, <1>2, ElementOfSeq
<1>4. D \in Seq(OpenDates)
  <2>1. D \in [1 .. Len(D) -> OpenDates]
    <3>1. D = [i \in 1 .. Len(D) |-> D[i]]
      BY <1>2, LenProperties
    <3> QED
      BY <1>2, <1>3, <3>1
  <2> QED
    BY <1>2, <2>1, SeqDef
<1>5. \A i, j \in DOMAIN D : i <= j => D[i] <= D[j]
  <2> SUFFICES ASSUME NEW i \in DOMAIN D, NEW j \in DOMAIN D, i <= j PROVE D[i] <= D[j]
    OBVIOUS
  <2>1. i < j \/ i = j
    BY <1>2
  <2>2. D[i] \in Nat /\ D[j] \in Nat
    BY <1>3
  <2> QED
    BY <1>2, <2>1, <2>2
<1>6. B = Chunks(D, many) /\ many \in Nat \ {0}
  BY DEF DateBatches, D, S
<1> HIDE DEF B, many
<1>7. /\ B \in Seq(Seq(OpenDates))
      /\ \A i \in DOMAIN B : \E k \in Nat : Slice(B[i], D, k)
      /\ \A j \in DOMAIN D : \E i \in DOMAIN B : D[j] \in Elements(B[i])
      /\ many = 1 => Len(B) = Len(D) /\ \A i \in DOMAIN D : B[i] = <<D[i]>>
  BY <1>4, <1>6, ChunksAre
<1>8. ASSUME NEW i \in DOMAIN B PROVE Ordered(B[i])
  <2> DEFINE q == B[i]
  <2>1. q \in Seq(OpenDates)
    BY <1>7, ElementOfSeq
  <2>2. PICK k \in Nat : Slice(q, D, k)
    BY <1>7
  <2> HIDE DEF q
  <2>3. /\ Len(q) \in Nat /\ DOMAIN q = 1 .. Len(q) /\ q # <<>> /\ (\A m \in DOMAIN q : q[m] \in Elements(q))
        /\ Len(q) >= 1
    BY <2>1, <2>2, SequenceElements DEF Slice
  <2>4. \A m \in DOMAIN q : q[1] <= q[m] /\ q[m] <= q[Len(q)]
    <3> SUFFICES ASSUME NEW m \in DOMAIN q PROVE q[1] <= q[m] /\ q[m] <= q[Len(q)]
      OBVIOUS
    <3>1. q[1] = D[k + 1] /\ q[m] = D[k + m] /\ q[Len(q)] = D[k + Len(q)]
      BY <2>2, <2>3 DEF Slice
    <3>2. k + 1 \in DOMAIN D /\ k + m \in DOMAIN D /\ k + Len(q) \in DOMAIN D
      BY <1>2, <2>2, <2>3 DEF Slice
    <3>3. k + 1 <= k + m /\ k + m <= k + Len(q)
      BY <2>3
    <3> QED
      BY <1>5, <3>1, <3>2, <3>3
  <2>5. q[1] \in Elements(q) /\ q[Len(q)] \in Elements(q)
    BY <2>3
  <2>6. \A d \in Elements(q) : q[1] <= d /\ d <= q[Len(q)]
    BY <2>4 DEF Elements
  <2> QED
    BY <2>1, <2>3, <2>5, <2>6 DEF q, Ordered
<1>9. ASSUME NEW d \in targets PROVE \E i \in DOMAIN B : d \in Elements(B[i])
  <2>1. PICK j \in DOMAIN D : D[j] = d
    BY <1>1, <1>2
  <2> QED
    BY <1>7, <2>1
<1>10. B # <<>>
  <2>1. DOMAIN B # {}
    BY <1>9
  <2> QED
    BY <1>7, <2>1, SequenceElements, EmptySeq
<1>11. group.stage = "stream" => Len(B) = Len(D) /\ \A i \in DOMAIN B : B[i] = <<D[i]>>
  <2>1. DOMAIN B = 1 .. Len(B)
    BY <1>7, LenProperties
  <2>2. group.stage = "stream" => many = 1
    BY DEF many
  <2> QED
    BY <1>2, <1>7, <2>1, <2>2
<1> QED
  BY <1>4, <1>7, <1>8, <1>9, <1>10, <1>11 DEF B, D, S

\* The greater of two numbers.
LEMMA GreaterIs ==
  ASSUME NEW m \in Int, NEW n \in Int
  PROVE  (Greater(m, n) = m \/ Greater(m, n) = n) /\ Greater(m, n) >= m /\ Greater(m, n) >= n
BY DEF Greater

\* A window of L days before the kth of the days from a is all of the first k days or the
\* last L + 1 of them: the group begins at the calendar's start or L days before its first target.
LEMMA WindowNumbers ==
  ASSUME NEW a \in Nat, NEW k \in Nat, NEW L \in Nat, NEW p \in Nat, NEW h \in Int, a >= 1, k >= 1,
         a = 1 \/ a = p - L, a >= p - L, p <= a + k - 1,
         h = 1 \/ h = a + k - 1 - L, h >= 1, h >= a + k - 1 - L
  PROVE  /\ h \in Nat /\ h >= 1 /\ h <= a + k - 1 /\ h >= a
         /\ (k > L + 1 => h = a + (k - (L + 1))) /\ (~(k > L + 1) => h = a)
OBVIOUS

\* The days from one place to another, and the first of them.
DaysFrom(D, a, b) == D = SubSeq(Days, a, b)
FirstOf(t, D, k) == t = SubSeq(D, 1, k)
Dates(D, group, targets) == D = Ascending(StageDates(group, targets))

\* The places of a streaming group: it goes from a, L before p, to b, and has come to its kth date.
StreamPlaces(a, b, k, L, p) ==
  /\ a \in Nat /\ b \in Nat /\ k \in Nat /\ L \in Nat /\ p \in Nat
  /\ a >= 1 /\ k >= 1 /\ b <= Count /\ k <= b - a + 1
  /\ (a = 1 \/ a = p - L) /\ a >= p - L /\ p <= a + k - 1

\* What a streaming factor keeps of the dates it has seen.
Recent(t, L) == SubSeq(t, IF Len(t) > L + 1 THEN Len(t) - (L + 1) + 1 ELSE 1, Len(t))

\* The last of the days from one place to another.
LEMMA LastDays ==
  ASSUME NEW a, NEW b, NEW k, NEW L, NEW p, StreamPlaces(a, b, k, L, p),
         NEW D, NEW t, DaysFrom(D, a, b), FirstOf(t, D, k)
  PROVE  Recent(t, L) = Ascending(Between(WarmupStart(D[k], L), D[k]))
<1>0. /\ a \in Nat /\ b \in Nat /\ k \in Nat /\ L \in Nat /\ p \in Nat
      /\ a >= 1 /\ k >= 1 /\ b <= Count /\ k <= b - a + 1
      /\ (a = 1 \/ a = p - L) /\ a >= p - L /\ p <= a + k - 1
  BY DEF StreamPlaces
<1> USE <1>0
<1>1. PICK c \in Nat : c = a + k - 1
  OBVIOUS
<1>2. PICK h \in Int : h = Greater(1, c - L)
  <2>1. Greater(1, c - L) \in Int
    BY DEF Greater
  <2> QED
    BY <2>1
<1>3. (h = 1 \/ h = c - L) /\ h >= 1 /\ h >= c - L
  <2>1. c - L \in Int
    OBVIOUS
  <2> QED
    BY <1>2, <2>1, GreaterIs
<1>4. /\ h \in Nat /\ h >= 1 /\ h <= c /\ h >= a
      /\ (k > L + 1 => h = a + (k - (L + 1))) /\ (~(k > L + 1) => h = a)
  BY <1>1, <1>3, WindowNumbers
<1>5. PICK e \in Nat \ {0} : e = IF k > L + 1 THEN k - (L + 1) + 1 ELSE 1
  <2>1. k > L + 1 => k - (L + 1) + 1 \in Nat \ {0}
    OBVIOUS
  <2>2. (IF k > L + 1 THEN k - (L + 1) + 1 ELSE 1) \in Nat \ {0}
    BY <2>1
  <2> QED
    BY <2>2
<1>6. e <= k /\ e - 1 = h - a /\ k - e + 1 = c - h + 1
  BY <1>1, <1>4, <1>5
<1>7. Count \in Nat /\ Days \in Seq(OpenDates) /\ Len(Days) = Count
  BY DaysAre
<1>8. /\ D \in Seq(OpenDates) /\ Len(D) = b - a + 1
      /\ \A m \in 1 .. b - a + 1 : D[m] = Days[a + m - 1]
  <2>1. a \in Nat \ {0} /\ a <= b + 1 /\ b <= Len(Days)
    BY <1>7
  <2> QED
    BY <1>7, <2>1, SubSequence DEF DaysFrom
<1>9. c \in 1 .. Count /\ h \in 1 .. Count /\ h <= c
  BY <1>1, <1>4, <1>7
<1>10. D[k] = Days[c]
  <2>1. k \in 1 .. b - a + 1
    OBVIOUS
  <2> QED
    BY <1>1, <1>8, <2>1
<1>11. WarmupStart(D[k], L) = Days[h]
  <2>1. Days[c] \in OpenDates /\ Place(Days[c]) = c
    BY <1>9, DaysAre
  <2> QED
    BY <1>2, <1>10, <2>1, WarmupPlace
<1> DEFINE w == SubSeq(Days, h, c)
<1>12. /\ Ascending(Between(WarmupStart(D[k], L), D[k])) = w
       /\ Len(w) = c - h + 1 /\ w \in Seq(OpenDates)
       /\ \A m \in 1 .. c - h + 1 : w[m] = Days[h + m - 1]
  BY <1>9, <1>10, <1>11, BetweenPlaces
<1>13. t \in Seq(OpenDates) /\ Len(t) = k /\ \A m \in 1 .. k : t[m] = D[m]
  <2>1. t \in Seq(OpenDates) /\ Len(t) = k - 1 + 1 /\ \A m \in 1 .. k - 1 + 1 : t[m] = D[1 + m - 1]
    <3>1. 1 \in Nat \ {0} /\ 1 <= k + 1 /\ k <= Len(D)
      BY <1>8
    <3> QED
      BY <1>8, <3>1, SubSequence DEF FirstOf
  <2>2. k - 1 + 1 = k /\ \A m \in 1 .. k : 1 + m - 1 = m
    OBVIOUS
  <2> QED
    BY <2>1, <2>2
<1> DEFINE u == SubSeq(t, e, k)
<1>14. u \in Seq(OpenDates) /\ Len(u) = k - e + 1 /\ \A m \in 1 .. k - e + 1 : u[m] = t[e + m - 1]
  <2>1. ASSUME NEW i \in Nat \ {0}, NEW j \in Nat, i <= j + 1, j <= Len(t)
        PROVE  /\ SubSeq(t, i, j) \in Seq(OpenDates) /\ Len(SubSeq(t, i, j)) = j - i + 1
               /\ \A m \in 1 .. j - i + 1 : SubSeq(t, i, j)[m] = t[i + m - 1]
    BY <1>13, <2>1, SubSequence
  <2>2. e <= k + 1 /\ k <= Len(t)
    BY <1>6, <1>13
  <2> QED
    BY <2>1, <2>2
<1> HIDE DEF u, w
<1>15. \A m \in 1 .. c - h + 1 : u[m] = w[m]
  <2> SUFFICES ASSUME NEW m \in 1 .. c - h + 1 PROVE u[m] = w[m]
    OBVIOUS
  <2>1. m \in 1 .. k - e + 1 /\ e + m - 1 \in 1 .. k /\ e + m - 1 \in 1 .. b - a + 1 /\ a + (e + m - 1) - 1 = h + m - 1
    BY <1>4, <1>6
  <2>2. u[m] = D[e + m - 1]
    BY <1>13, <1>14, <2>1
  <2>3. D[e + m - 1] = Days[h + m - 1]
    BY <1>8, <2>1
  <2> QED
    BY <1>12, <2>2, <2>3
<1>16. u = w
  <2>1. u \in Seq(OpenDates) /\ w \in Seq(OpenDates) /\ Len(u) = c - h + 1 /\ Len(w) = c - h + 1
    BY <1>6, <1>12, <1>14
  <2>2. u = [m \in 1 .. c - h + 1 |-> u[m]] /\ w = [m \in 1 .. c - h + 1 |-> w[m]]
    BY <2>1, LenProperties
  <2> QED
    BY <1>15, <2>2
<1> QED
  BY <1>5, <1>12, <1>13, <1>16 DEF u, Recent

\* The last dates of those a streaming group went through are a factor's own window.
LEMMA SeenIsHistory ==
  ASSUME NEW group, group.factors \in Seq(DOMAIN Factors), group.factors # <<>>, group.stage = "stream",
         NEW targets, targets \subseteq OpenDates, targets # {},
         NEW D, Dates(D, group, targets), NEW k \in 1 .. Len(D), D[k] \in targets,
         NEW L \in Nat, L = GroupLookback(group.factors), NEW t, FirstOf(t, D, k)
  PROVE  Recent(t, L) = Ascending(Between(WarmupStart(D[k], L), D[k]))
<1>1. PICK from \in targets : from = Least(targets) /\ from <= D[k]
  BY LeastIs
<1>2. PICK p \in 1 .. Count : p = Place(from) /\ Days[p] = from
  BY <1>1, DaysAre
<1>3. PICK b \in 1 .. Count : /\ Greater(1, p - L) \in 1 .. b
                              /\ DaysFrom(D, Greater(1, p - L), b)
  BY <1>1, <1>2, StageDatesAre DEF DaysFrom, Dates
<1>4. Count \in Nat /\ Days \in Seq(OpenDates) /\ Len(Days) = Count
  BY DaysAre
<1>4a. p \in Nat /\ b \in Nat /\ b <= Count
  BY <1>4
<1>5. PICK a \in 1 .. b : a = Greater(1, p - L)
  BY <1>3
<1>6. a \in Nat /\ a >= 1 /\ a <= b
  BY <1>4a
<1>7. (a = 1 \/ a = p - L) /\ a >= p - L
  <2>1. p - L \in Int
    BY <1>4a
  <2> QED
    BY <1>5, <2>1, GreaterIs
<1>11. DaysFrom(D, a, b)
  BY <1>3, <1>5
<1>8. /\ Len(D) = b - a + 1
      /\ \A m \in 1 .. b - a + 1 : D[m] = Days[a + m - 1]
  <2>1. a \in Nat \ {0} /\ a <= b + 1 /\ b <= Len(Days)
    BY <1>4, <1>4a, <1>6
  <2> QED
    BY <1>4, <1>4a, <1>11, <2>1, SubSequence DEF DaysFrom
<1>9. k \in Nat /\ k >= 1 /\ k <= b - a + 1
  BY <1>4a, <1>6, <1>8
<1>10. p <= a + k - 1
  <2>1. a + k - 1 \in 1 .. Count
    BY <1>4, <1>4a, <1>6, <1>9
  <2>2. k \in 1 .. b - a + 1
    BY <1>8
  <2>3. Days[p] <= Days[a + k - 1]
    BY <1>1, <1>2, <1>8, <2>2
  <2> QED
    BY <2>1, <2>3, DaysAre
<1> QED
  <2>1. StreamPlaces(a, b, k, L, p)
    BY <1>4a, <1>6, <1>7, <1>9, <1>10 DEF StreamPlaces
  <2> QED
    BY <1>11, <2>1, LastDays

-----------------------------------------------------------------------------
(* Groups and batches share no provider. *)

\* Groups share no streaming provider, and one lookback is that of a whole streaming group.
Streaming(f, g) == Factors[f].kind = "stream" /\ Factors[g].kind = "stream"
Apart(list) ==
  /\ \A i \in DOMAIN list : \A f, g \in Elements(list[i].factors) :
       Streaming(f, g) => CalendarLookback(f) = CalendarLookback(g)
  /\ \A i, j \in DOMAIN list : i # j =>
       \A f \in Elements(list[i].factors), g \in Elements(list[j].factors) :
         Streaming(f, g) => Factors[f].provider # Factors[g].provider

\* The groups of a kind differ in the key, and a group has one.
LEMMA GroupsOfKeys ==
  ASSUME NEW fs \in Seq(DOMAIN Factors), NEW kind, NEW key, \A f \in DOMAIN Factors : key[f] \in Nat
  PROVE  /\ \A i \in DOMAIN GroupsOf(fs, kind, key) : GroupsOf(fs, kind, key)[i].stage = kind
         /\ \A i, j \in DOMAIN GroupsOf(fs, kind, key) :
              \A f \in Elements(GroupsOf(fs, kind, key)[i].factors), g \in Elements(GroupsOf(fs, kind, key)[j].factors) :
                key[f] = key[g] <=> i = j
<1> DEFINE members == {i \in DOMAIN fs : Factors[fs[i]].kind = kind}
           values == {key[fs[i]] : i \in members}
           keys == Ascending(values)
           places(k) == {i \in members : key[fs[i]] = keys[k]}
           list == GroupsOf(fs, kind, key)
<1>1. Len(fs) \in Nat /\ DOMAIN fs = 1 .. Len(fs) /\ (\A i \in DOMAIN fs : fs[i] \in DOMAIN Factors) /\ fs \in Seq(Elements(fs))
  BY SequenceElements, ElementOfSeq
<1>2. values \subseteq Nat /\ IsFiniteSet(values)
  <2>1. IsFiniteSet(members)
    <3>1. IsFiniteSet(DOMAIN fs)
      BY <1>1, FS_Interval
    <3> QED
      BY <3>1, FS_Subset
  <2>2. [i \in members |-> key[fs[i]]] \in Surjection(members, values)
    BY DEF Surjection
  <2>3. IsFiniteSet(values)
    <3> HIDE DEF members, values
    <3> QED
      BY <2>1, <2>2, FS_Surjection
  <2> QED
    BY <1>1, <2>3
<1>3. /\ Cardinality(values) \in Nat /\ DOMAIN keys = 1 .. Cardinality(values)
      /\ \A k \in DOMAIN keys : keys[k] \in values
      /\ \A i, j \in DOMAIN keys : i < j => keys[i] < keys[j]
  <2> HIDE DEF values
  <2> QED
    BY <1>2, AscendingIs
<1>4. list = [k \in DOMAIN keys |-> [stage |-> kind, factors |-> Picked(fs, places(k))]]
  BY DEF GroupsOf
<1>5. ASSUME NEW k \in DOMAIN keys, NEW f \in Elements(Picked(fs, places(k))) PROVE key[f] = keys[k]
  <2> DEFINE at == places(k)
             t == Picked(fs, at)
  <2>1. at \subseteq DOMAIN fs
    OBVIOUS
  <2> HIDE DEF at
  <2>2. Elements(t) = {fs[j] : j \in at}
    BY <1>1, <2>1, PickedIs
  <2>3. PICK j \in at : f = fs[j]
    BY <1>5, <2>2 DEF at
  <2> QED
    BY <2>3 DEF at
<1>5a. \A k \in DOMAIN keys : keys[k] \in Nat /\ k \in Nat
  <2> HIDE DEF keys, values
  <2> SUFFICES ASSUME NEW k \in DOMAIN keys PROVE keys[k] \in Nat /\ k \in Nat
    OBVIOUS
  <2>1. keys[k] \in values
    BY <1>3
  <2>2. k \in 1 .. Cardinality(values) /\ Cardinality(values) \in Nat
    BY <1>3
  <2>3. values \subseteq Nat
    BY <1>2
  <2>4. keys[k] \in Nat
    BY <2>1, <2>3
  <2>5. k \in Nat
    BY <2>2
  <2> QED
    BY <2>4, <2>5
<1> HIDE DEF keys, values
<1>6. \A i, j \in DOMAIN keys : keys[i] = keys[j] => i = j
  <2> SUFFICES ASSUME NEW i \in DOMAIN keys, NEW j \in DOMAIN keys, i # j PROVE keys[i] # keys[j]
    OBVIOUS
  <2>1. i \in Nat /\ j \in Nat /\ keys[i] \in Nat /\ keys[j] \in Nat
    BY <1>5a
  <2>2. i < j \/ j < i
    BY <2>1
  <2>3. keys[i] < keys[j] \/ keys[j] < keys[i]
    BY <1>3, <2>2
  <2> QED
    BY <2>1, <2>3
<1>7. DOMAIN list = DOMAIN keys /\ \A k \in DOMAIN keys : list[k].stage = kind /\ list[k].factors = Picked(fs, places(k))
  BY <1>4
<1> HIDE DEF list
<1>8. ASSUME NEW i \in DOMAIN list, NEW j \in DOMAIN list,
             NEW f \in Elements(list[i].factors), NEW g \in Elements(list[j].factors)
      PROVE  key[f] = key[g] <=> i = j
  <2>1. key[f] = keys[i] /\ key[g] = keys[j]
    BY <1>5, <1>7
  <2> QED
    BY <1>6, <1>7, <2>1
<1> QED
  BY <1>7, <1>8 DEF list

\* Groups before the streaming ones do not matter.
LEMMA ApartJoined ==
  ASSUME NEW fs, NEW s \in Seq(GroupsFrom(fs)), NEW t \in Seq(GroupsFrom(fs)),
         \A i \in DOMAIN s : s[i].stage # "stream", Apart(t)
  PROVE  Apart(s \o t)
<1> DEFINE u == s \o t
           n == Len(s)
<1>1. /\ u \in Seq(GroupsFrom(fs)) /\ Len(u) = n + Len(t)
      /\ \A i \in 1 .. n + Len(t) : u[i] = IF i <= n THEN s[i] ELSE t[i - n]
  BY ConcatProperties
<1>2. n \in Nat /\ DOMAIN s = 1 .. n /\ Len(t) \in Nat /\ DOMAIN t = 1 .. Len(t)
  BY LenProperties
<1> HIDE DEF u
<1>3. DOMAIN u = 1 .. n + Len(t)
  <2>1. DOMAIN u = 1 .. Len(u)
    BY <1>1, LenProperties
  <2> QED
    BY <1>1, <2>1
<1> HIDE DEF n
<1>4. ASSUME NEW i \in DOMAIN u, NEW f \in Elements(u[i].factors), Factors[f].kind = "stream"
      PROVE  i - n \in DOMAIN t /\ u[i] = t[i - n] /\ i \in Nat
  <2>1. u[i] \in GroupsFrom(fs)
    BY <1>1, ElementOfSeq
  <2>2. u[i].stage = "stream"
    BY <1>4, <2>1 DEF GroupsFrom
  <2>3. i \in 1 .. n + Len(t) /\ i \in Nat
    BY <1>2, <1>3
  <2>4. ~(i <= n)
    <3> SUFFICES ASSUME i <= n PROVE FALSE
      OBVIOUS
    <3>1. u[i] = s[i] /\ i \in DOMAIN s
      BY <1>1, <1>2, <2>3
    <3> QED
      BY <2>2, <3>1
  <2> QED
    BY <1>1, <1>2, <2>3, <2>4
<1>5. ASSUME NEW i \in DOMAIN u, NEW f \in Elements(u[i].factors), NEW g \in Elements(u[i].factors), Streaming(f, g)
      PROVE  CalendarLookback(f) = CalendarLookback(g)
  <2>1. i - n \in DOMAIN t /\ u[i] = t[i - n]
    BY <1>4, <1>5 DEF Streaming
  <2> QED
    BY <1>5, <2>1 DEF Apart
<1>6. ASSUME NEW i \in DOMAIN u, NEW j \in DOMAIN u, i # j,
             NEW f \in Elements(u[i].factors), NEW g \in Elements(u[j].factors), Streaming(f, g)
      PROVE  Factors[f].provider # Factors[g].provider
  <2>1. i - n \in DOMAIN t /\ u[i] = t[i - n] /\ i \in Nat
    BY <1>4, <1>6 DEF Streaming
  <2>2. j - n \in DOMAIN t /\ u[j] = t[j - n] /\ j \in Nat
    BY <1>4, <1>6 DEF Streaming
  <2>3. i - n # j - n
    BY <1>2, <1>6, <2>1, <2>2
  <2> QED
    BY <1>6, <2>1, <2>2, <2>3 DEF Apart
<1> QED
  BY <1>5, <1>6 DEF Apart, u

\* Groups stay apart when the first is done.
LEMMA ApartTail ==
  ASSUME NEW X, NEW list \in Seq(X), list # <<>>, Apart(list)
  PROVE  Apart(Tail(list)) /\ DOMAIN Tail(list) = 1 .. Len(list) - 1
         /\ \A i \in DOMAIN Tail(list) : Tail(list)[i] = list[i + 1] /\ i + 1 \in DOMAIN list /\ i + 1 > 1
<1> DEFINE t == Tail(list)
<1>1. t \in Seq(X) /\ Len(t) = Len(list) - 1 /\ Len(list) \in Nat /\ DOMAIN list = 1 .. Len(list)
      /\ \A i \in 1 .. Len(t) : t[i] = list[i + 1]
  BY HeadTailProperties, LenProperties
<1> HIDE DEF t
<1>2. DOMAIN t = 1 .. Len(list) - 1
  BY <1>1, LenProperties
<1>3. \A i \in DOMAIN t : t[i] = list[i + 1] /\ i + 1 \in DOMAIN list /\ i + 1 > 1 /\ i \in Nat
  BY <1>1, <1>2
<1>4. \A i, j \in DOMAIN t : i # j => i + 1 # j + 1
  BY <1>3
<1>5. Apart(t)
  BY <1>3, <1>4 DEF Apart
<1> QED
  BY <1>2, <1>3, <1>5 DEF t

\* Execution groups never split the streaming factors of a provider.
LEMMA ExecutionGroupsApart ==
  ASSUME NEW fs \in Seq(DOMAIN Factors)
  PROVE  Apart(ExecutionGroups(fs))
<1> DEFINE declared == [f \in DOMAIN Factors |-> Factors[f].lookback]
           together == [f \in DOMAIN Factors |-> 0]
           calendar == [f \in DOMAIN Factors |-> CalendarLookback(f)]
           a == GroupsOf(fs, "daily", together)
           b == GroupsOf(fs, "raw", declared)
           c == GroupsOf(fs, "minute", declared)
           d == GroupsOf(fs, "stream", calendar)
           G == GroupsFrom(fs)
<1>1. \A f \in DOMAIN Factors : together[f] \in Nat /\ declared[f] \in Nat /\ calendar[f] \in Nat
  BY FactorAssumption, CalendarLookbacks
<1>1a. \A f \in DOMAIN Factors : calendar[f] = CalendarLookback(f)
  OBVIOUS
<1> HIDE DEF together, declared, calendar
<1>2. /\ a \in Seq(G) /\ \A i \in DOMAIN a : a[i].stage # "stream"
      /\ b \in Seq(G) /\ \A i \in DOMAIN b : b[i].stage # "stream"
      /\ c \in Seq(G) /\ \A i \in DOMAIN c : c[i].stage # "stream"
  <2>1. a \in Seq(G) /\ \A i \in DOMAIN a : a[i].stage = "daily"
    BY <1>1, GroupsOfIs, GroupsOfKeys DEF Kinds
  <2>2. b \in Seq(G) /\ \A i \in DOMAIN b : b[i].stage = "raw"
    BY <1>1, GroupsOfIs, GroupsOfKeys DEF Kinds
  <2>3. c \in Seq(G) /\ \A i \in DOMAIN c : c[i].stage = "minute"
    BY <1>1, GroupsOfIs, GroupsOfKeys DEF Kinds
  <2> QED
    BY <2>1, <2>2, <2>3
<1>3. d \in Seq(G)
  BY <1>1, GroupsOfIs DEF Kinds
<1>4. \A i, j \in DOMAIN d : \A f \in Elements(d[i].factors), g \in Elements(d[j].factors) :
        calendar[f] = calendar[g] <=> i = j
  BY <1>1, GroupsOfKeys
<1>5. \A i \in DOMAIN d : Elements(d[i].factors) \subseteq DOMAIN Factors
  <2> SUFFICES ASSUME NEW i \in DOMAIN d PROVE Elements(d[i].factors) \subseteq DOMAIN Factors
    OBVIOUS
  <2>1. d[i] \in G
    BY <1>3, ElementOfSeq
  <2>2. d[i].factors \in Seq(Elements(fs))
    BY <2>1 DEF GroupsFrom
  <2> QED
    BY <2>2, SequenceElements
<1> HIDE DEF a, b, c, d, G
<1>6. Apart(d)
  <2>1. ASSUME NEW i \in DOMAIN d, NEW j \in DOMAIN d, i # j,
               NEW f \in Elements(d[i].factors), NEW g \in Elements(d[j].factors), Streaming(f, g)
        PROVE  Factors[f].provider # Factors[g].provider
    <3> SUFFICES ASSUME Factors[f].provider = Factors[g].provider PROVE FALSE
      OBVIOUS
    <3>1. f \in DOMAIN Factors /\ g \in DOMAIN Factors
      BY <1>5
    <3>2. Factors[f].lookback = Factors[g].lookback
      BY <2>1, <3>1, StreamAssumption DEF Streaming
    <3>3. calendar[f] = calendar[g]
      BY <1>1a, <2>1, <3>1, <3>2, CalendarLookbacks DEF Streaming
    <3> QED
      BY <1>4, <2>1, <3>3
  <2>2. ASSUME NEW i \in DOMAIN d, NEW f \in Elements(d[i].factors), NEW g \in Elements(d[i].factors)
        PROVE  CalendarLookback(f) = CalendarLookback(g)
    BY <1>1a, <1>4, <1>5
  <2> QED
    BY <2>1, <2>2 DEF Apart
<1>7. ASSUME NEW s \in Seq(G), NEW t \in Seq(G), \A i \in DOMAIN s : s[i].stage # "stream", Apart(t)
      PROVE  s \o t \in Seq(G) /\ Apart(s \o t)
  BY <1>7, ConcatProperties, ApartJoined DEF G
<1>8. c \o d \in Seq(G) /\ Apart(c \o d)
  BY <1>2, <1>3, <1>6, <1>7
<1>9. b \o (c \o d) \in Seq(G) /\ Apart(b \o (c \o d))
  BY <1>2, <1>7, <1>8
<1>10. Apart(a \o (b \o (c \o d)))
  BY <1>2, <1>7, <1>9
<1>11. ((a \o b) \o c) \o d = a \o (b \o (c \o d))
  <2>1. a \in Seq(G) /\ b \in Seq(G) /\ c \in Seq(G) /\ d \in Seq(G) /\ a \o b \in Seq(G) /\ c \o d \in Seq(G)
    BY <1>2, <1>3, <1>8, ConcatProperties
  <2>2. \A s, t, u \in Seq(G) : (s \o t) \o u = s \o (t \o u)
    BY ConcatAssociative
  <2>3. (a \o b) \o (c \o d) = a \o (b \o (c \o d))
    <3>1. \A u \in Seq(G) : (a \o b) \o u = a \o (b \o u)
      BY <2>1, <2>2, Zenon
    <3> QED
      BY <2>1, <3>1, Zenon
  <2>4. ((a \o b) \o c) \o d = (a \o b) \o (c \o d)
    BY <2>1, <2>2, Zenon
  <2> QED
    BY <2>3, <2>4, Zenon
<1>12. ExecutionGroups(fs) = ((a \o b) \o c) \o d
  BY DEF ExecutionGroups, a, b, c, d, together, declared, calendar
<1> QED
  BY <1>10, <1>11, <1>12

ProviderOf(f) == Factors[f].provider

\* The providers of a group: each of them once.
LEMMA ProvidersAre ==
  ASSUME NEW fs \in Seq(DOMAIN Factors)
  PROVE  /\ Providers(fs) \in Seq({ProviderOf(f) : f \in DOMAIN Factors})
         /\ \A i, j \in DOMAIN Providers(fs) : i # j => Providers(fs)[i] # Providers(fs)[j]
         /\ \A f \in Elements(fs) : \E i \in DOMAIN Providers(fs) : Providers(fs)[i] = ProviderOf(f)
<1> DEFINE firsts == {i \in DOMAIN fs : \A j \in 1 .. i - 1 : Factors[fs[j]].provider # Factors[fs[i]].provider}
           A == Ascending(firsts)
           places == Picked(fs, firsts)
           ps == Providers(fs)
           X == {ProviderOf(f) : f \in DOMAIN Factors}
<1>1. Len(fs) \in Nat /\ DOMAIN fs = 1 .. Len(fs) /\ (\A i \in DOMAIN fs : fs[i] \in DOMAIN Factors)
  BY SequenceElements, ElementOfSeq
<1>2. firsts \subseteq DOMAIN fs /\ firsts \subseteq Nat
      /\ \A i \in firsts : \A j \in 1 .. i - 1 : Factors[fs[j]].provider # Factors[fs[i]].provider
  BY <1>1
<1>2a. \A i \in DOMAIN fs : (\A j \in 1 .. i - 1 : Factors[fs[j]].provider # Factors[fs[i]].provider) => i \in firsts
  OBVIOUS
<1>3. ps = [i \in DOMAIN places |-> Factors[places[i]].provider]
  BY DEF Providers
<1> HIDE DEF firsts, ps
<1>4. /\ IsFiniteSet(firsts) /\ places \in Seq(DOMAIN Factors) /\ Len(places) = Cardinality(firsts)
      /\ DOMAIN places = 1 .. Cardinality(firsts)
      /\ \A k \in DOMAIN places : A[k] \in firsts /\ places[k] = fs[A[k]]
      /\ \A i \in firsts : \E k \in DOMAIN places : A[k] = i
  BY <1>2, PickedPlaces
<1>5. Cardinality(firsts) \in Nat /\ \A i, j \in 1 .. Cardinality(firsts) : i < j => A[i] < A[j]
  BY <1>2, <1>4, AscendingIs
<1> HIDE DEF places, A
<1>6. DOMAIN ps = DOMAIN places /\ \A k \in DOMAIN ps : ps[k] = Factors[fs[A[k]]].provider /\ A[k] \in firsts
  BY <1>3, <1>4
<1>7. ps \in Seq(X)
  <2>1. \A k \in DOMAIN places : Factors[places[k]].provider \in X
    <3>1. \A k \in DOMAIN places : places[k] \in DOMAIN Factors
      BY <1>4, ElementOfSeq, LenProperties
    <3> QED
      BY <3>1 DEF ProviderOf
  <2> HIDE DEF X
  <2>2. ps \in [1 .. Cardinality(firsts) -> X]
    BY <1>3, <1>4, <2>1
  <2> QED
    BY <1>5, <2>2, SeqDef
<1>8. ASSUME NEW i \in DOMAIN ps, NEW j \in DOMAIN ps, i < j PROVE ps[i] # ps[j]
  <2>1. A[i] \in firsts /\ A[j] \in firsts /\ A[i] < A[j]
    BY <1>4, <1>5, <1>6, <1>8
  <2>2. A[i] \in 1 .. A[j] - 1
    BY <1>1, <1>2, <2>1
  <2> QED
    BY <1>2, <1>6, <2>1, <2>2
<1>9. \A i, j \in DOMAIN ps : i # j => ps[i] # ps[j]
  <2> SUFFICES ASSUME NEW i \in DOMAIN ps, NEW j \in DOMAIN ps, i # j PROVE ps[i] # ps[j]
    OBVIOUS
  <2>1. i \in Nat /\ j \in Nat
    BY <1>4, <1>5, <1>6
  <2>2. i < j \/ j < i
    BY <2>1
  <2> QED
    BY <1>8, <2>2
<1>10. ASSUME NEW f \in Elements(fs) PROVE \E k \in DOMAIN ps : ps[k] = ProviderOf(f)
  <2> DEFINE T == {i \in DOMAIN fs : Factors[fs[i]].provider = ProviderOf(f)}
  <2>1. T \subseteq Nat /\ T # {}
    BY <1>1 DEF Elements, ProviderOf
  <2>2. PICK i \in T : \A m \in T : i <= m
    BY <2>1, LeastNatural
  <2>3. \A j \in 1 .. i - 1 : Factors[fs[j]].provider # Factors[fs[i]].provider
    <3> SUFFICES ASSUME NEW j \in 1 .. i - 1, Factors[fs[j]].provider = Factors[fs[i]].provider PROVE FALSE
      OBVIOUS
    <3>1. i \in Nat /\ i <= Len(fs) /\ j \in Nat
      BY <1>1, <2>1
    <3>2. j \in T /\ j < i
      BY <1>1, <3>1
    <3> QED
      BY <2>2, <3>1, <3>2
  <2>4. i \in firsts
    BY <1>2a, <2>3
  <2>5. PICK k \in DOMAIN places : A[k] = i
    BY <1>4, <2>4
  <2> QED
    BY <1>6, <2>5
<1> QED
  BY <1>7, <1>9, <1>10 DEF ps, X

\* Accumulated batches of the providers in P: all their factors, and no provider twice.
Gathered(acc, fs, P) ==
  /\ \A b \in DOMAIN acc.full : \A f \in Elements(acc.full[b]) : ProviderOf(f) \in P
  /\ \A f \in Elements(acc.current) : ProviderOf(f) \in P
  /\ \A b, c \in DOMAIN acc.full : b # c =>
       \A f \in Elements(acc.full[b]), g \in Elements(acc.full[c]) : ProviderOf(f) # ProviderOf(g)
  /\ \A b \in DOMAIN acc.full :
       \A f \in Elements(acc.full[b]), g \in Elements(acc.current) : ProviderOf(f) # ProviderOf(g)
  /\ \A f \in Elements(fs) : ProviderOf(f) \in P =>
       f \in Elements(acc.current) \/ \E b \in DOMAIN acc.full : f \in Elements(acc.full[b])

\* The factors of one provider, among those given.
LEMMA OfProviderIs ==
  ASSUME NEW fs \in Seq(DOMAIN Factors), NEW p
  PROVE  /\ OfProvider(fs, p) \in Seq(Elements(fs))
         /\ Elements(OfProvider(fs, p)) = {f \in Elements(fs) : ProviderOf(f) = p}
<1> DEFINE at == {i \in DOMAIN fs : Factors[fs[i]].provider = p}
<1>1. fs \in Seq(Elements(fs)) /\ at \subseteq DOMAIN fs
  BY SequenceElements
<1>2. OfProvider(fs, p) = Picked(fs, at)
  BY DEF OfProvider
<1>3. {fs[i] : i \in at} = {f \in Elements(fs) : ProviderOf(f) = p}
  BY DEF Elements, ProviderOf
<1> HIDE DEF at
<1> QED
  BY <1>1, <1>2, <1>3, PickedIs

\* The batches with one more at the end.
LEMMA AppendedAre ==
  ASSUME NEW B, NEW s \in Seq(B), NEW x \in B
  PROVE  /\ Len(Append(s, x)) = Len(s) + 1 /\ Len(s) \in Nat
         /\ DOMAIN Append(s, x) = DOMAIN s \cup {Len(s) + 1}
         /\ Append(s, x)[Len(s) + 1] = x /\ Len(s) + 1 \notin DOMAIN s
         /\ \A b \in DOMAIN s : Append(s, x)[b] = s[b]
<1>1. /\ Append(s, x) \in Seq(B) /\ Len(Append(s, x)) = Len(s) + 1
      /\ \A i \in 1 .. Len(s) : Append(s, x)[i] = s[i]
      /\ Append(s, x)[Len(s) + 1] = x
  BY AppendProperties
<1>2. Len(s) \in Nat /\ DOMAIN s = 1 .. Len(s) /\ DOMAIN Append(s, x) = 1 .. Len(Append(s, x))
  BY <1>1, LenProperties
<1>3. 1 .. Len(s) + 1 = (1 .. Len(s)) \cup {Len(s) + 1} /\ Len(s) + 1 \notin 1 .. Len(s)
  BY <1>2
<1> QED
  BY <1>1, <1>2, <1>3

\* A step of the fold over the providers takes all the factors of the next provider.
LEMMA TakenGathers ==
  ASSUME NEW fs \in Seq(DOMAIN Factors), NEW size, NEW v \in Accumulators(fs), NEW P, NEW p, p \notin P,
         Gathered(v, fs, P)
  PROVE  Gathered(Taken(fs, size, v, p), fs, P \cup {p})
<1> DEFINE more == OfProvider(fs, p)
           w == Taken(fs, size, v, p)
           B == Seq(Elements(fs))
<1>1. more \in B /\ Elements(more) = {f \in Elements(fs) : ProviderOf(f) = p}
  BY OfProviderIs
<1>2. v.full \in Seq(B) /\ v.current \in B
  BY DEF Accumulators
<1>3. Elements(v.current \o more) = Elements(v.current) \cup Elements(more)
  BY <1>1, <1>2, Joined
<1>4. \/ w.full = Append(v.full, v.current) /\ w.current = more
      \/ w.full = v.full /\ w.current = v.current \o more
  BY DEF Taken
<1> SUFFICES Gathered(w, fs, P \cup {p})
  OBVIOUS
<1> HIDE DEF more, w, B
<1>5. CASE w.full = Append(v.full, v.current) /\ w.current = more
  <2> DEFINE n == Len(v.full) + 1
  <2>1. /\ DOMAIN w.full = DOMAIN v.full \cup {n} /\ w.full[n] = v.current /\ n \notin DOMAIN v.full
        /\ \A b \in DOMAIN v.full : w.full[b] = v.full[b]
    BY <1>2, <1>5, AppendedAre
  <2> HIDE DEF n
  <2>2. \A b \in DOMAIN w.full : \A f \in Elements(w.full[b]) : ProviderOf(f) \in P
    BY <2>1 DEF Gathered
  <2>3. \A b, c \in DOMAIN w.full : b # c =>
          \A f \in Elements(w.full[b]), g \in Elements(w.full[c]) : ProviderOf(f) # ProviderOf(g)
    BY <2>1 DEF Gathered
  <2>4. \A f \in Elements(fs) : ProviderOf(f) \in P => \E b \in DOMAIN w.full : f \in Elements(w.full[b])
    BY <2>1 DEF Gathered
  <2> QED
    BY <1>1, <1>5, <2>2, <2>3, <2>4 DEF Gathered
<1>6. CASE w.full = v.full /\ w.current = v.current \o more
  <2>1. \A g \in Elements(w.current) : g \in Elements(v.current) \/ ProviderOf(g) = p
    BY <1>1, <1>3, <1>6
  <2>2. \A f \in Elements(fs) : ProviderOf(f) = p => f \in Elements(w.current)
    BY <1>1, <1>3, <1>6
  <2>3. \A f \in Elements(v.current) : f \in Elements(w.current)
    BY <1>3, <1>6
  <2> QED
    BY <1>6, <2>1, <2>2, <2>3 DEF Gathered
<1> QED
  BY <1>4, <1>5, <1>6

\* Every factor is in one of the batches, and a provider in one only.
Separate(batches, fs) ==
  /\ \A f \in Elements(fs) : \E b \in DOMAIN batches : f \in Elements(batches[b])
  /\ \A b, c \in DOMAIN batches : b # c =>
       \A f \in Elements(batches[b]), g \in Elements(batches[c]) : ProviderOf(f) # ProviderOf(g)

\* Provider batches hold every factor once, and no provider twice.
LEMMA ProviderBatchesSeparate ==
  ASSUME NEW fs \in Seq(DOMAIN Factors), NEW size
  PROVE  Separate(ProviderBatches(fs, size), fs)
<1> DEFINE X == {ProviderOf(f) : f \in DOMAIN Factors}
           ps == Providers(fs)
           n == Len(ps)
<1>1. /\ ps \in Seq(X)
      /\ \A i, j \in DOMAIN ps : i # j => ps[i] # ps[j]
      /\ \A f \in Elements(fs) : \E i \in DOMAIN ps : ps[i] = ProviderOf(f)
  BY ProvidersAre
<1>1a. ps \in Seq(X) /\ ps = Providers(fs)
  BY <1>1
<1> HIDE DEF ps, X
<1>2. n \in Nat /\ DOMAIN ps = 1 .. n
  BY <1>1a, LenProperties
<1>3. PICK acc : /\ acc[0] = NoBatch
                 /\ \A k \in 0 .. n : acc[k] \in Accumulators(fs)
                 /\ \A k \in 1 .. n : acc[k] = Taken(fs, size, acc[k - 1], ps[k])
                 /\ ProviderBatches(fs, size) = Batched(acc[n])
    BY <1>1a, BatchSteps
<1> HIDE DEF n
<1> DEFINE Done(k) == {ps[i] : i \in 1 .. k}
           I == {k \in Nat : k <= n => Gathered(acc[k], fs, Done(k))}
<1>4. 0 \in I
  <2>1. Done(0) = {}
    OBVIOUS
  <2>2. Elements(<<>>) = {} /\ DOMAIN <<>> = {}
    BY DEF Elements
  <2> QED
    BY <1>3, <2>1, <2>2 DEF Gathered, NoBatch
<1>5. ASSUME NEW k \in Nat, k \in I PROVE k + 1 \in I
  <2> HIDE DEF Done
  <2> SUFFICES ASSUME k + 1 <= n PROVE Gathered(acc[k + 1], fs, Done(k + 1))
    OBVIOUS
  <2>1. Gathered(acc[k], fs, Done(k)) /\ k \in 0 .. n /\ k + 1 \in 1 .. n /\ (k + 1) - 1 = k
    BY <1>2, <1>5
  <2>2. acc[k] \in Accumulators(fs) /\ acc[k + 1] = Taken(fs, size, acc[k], ps[k + 1])
    BY <1>3, <2>1
  <2>3. ps[k + 1] \notin Done(k)
    <3> SUFFICES ASSUME NEW i \in 1 .. k PROVE ps[i] # ps[k + 1]
      BY DEF Done
    <3>1. i \in DOMAIN ps /\ k + 1 \in DOMAIN ps /\ i # k + 1
      BY <1>2, <2>1
    <3> QED
      BY <1>1, <3>1
  <2>4. Done(k + 1) = Done(k) \cup {ps[k + 1]}
    <3>1. \A i : i \in 1 .. k + 1 <=> i \in 1 .. k \/ i = k + 1
      OBVIOUS
    <3> QED
      BY <3>1 DEF Done
  <2>5. Gathered(Taken(fs, size, acc[k], ps[k + 1]), fs, Done(k) \cup {ps[k + 1]})
    BY <2>1, <2>2, <2>3, TakenGathers
  <2> QED
    BY <2>2, <2>4, <2>5
<1> HIDE DEF I
<1>6. Nat \subseteq I
  BY <1>4, <1>5, NaturalInduction
<1>7. Gathered(acc[n], fs, Done(n)) /\ acc[n] \in Accumulators(fs)
  <2>1. n \in I /\ n \in 0 .. n /\ n <= n
    BY <1>2, <1>6
  <2>2. Gathered(acc[n], fs, Done(n))
    <3> HIDE DEF Done
    <3> QED
      BY <2>1 DEF I
  <2> QED
    BY <1>3, <2>1, <2>2
<1>8. \A f \in Elements(fs) : ProviderOf(f) \in Done(n)
  BY <1>1, <1>2
<1> HIDE DEF Done
<1> DEFINE v == acc[n]
           all == ProviderBatches(fs, size)
           B == Seq(Elements(fs))
<1>9. v.full \in Seq(B) /\ v.current \in B
  BY <1>7 DEF Accumulators
<1>10. all = IF v.current = <<>> THEN v.full ELSE Append(v.full, v.current)
  BY <1>3 DEF Batched
<1> HIDE DEF v, all, B
<1>11. Gathered(v, fs, Done(n))
  BY <1>7 DEF v
<1>12. CASE v.current = <<>>
  <2>1. all = v.full /\ Elements(v.current) = {}
    BY <1>10, <1>12 DEF Elements
  <2> QED
    BY <1>8, <1>11, <2>1 DEF Gathered, Separate, all
<1>13. CASE v.current # <<>>
  <2> DEFINE m == Len(v.full) + 1
  <2>1. /\ DOMAIN all = DOMAIN v.full \cup {m} /\ all[m] = v.current /\ m \notin DOMAIN v.full
        /\ \A b \in DOMAIN v.full : all[b] = v.full[b]
    BY <1>9, <1>10, <1>13, AppendedAre
  <2> HIDE DEF m
  <2>2. \A b, c \in DOMAIN all : b # c =>
          \A f \in Elements(all[b]), g \in Elements(all[c]) : ProviderOf(f) # ProviderOf(g)
    BY <1>11, <2>1 DEF Gathered
  <2>3. \A f \in Elements(fs) : \E b \in DOMAIN all : f \in Elements(all[b])
    BY <1>8, <1>11, <2>1 DEF Gathered
  <2> QED
    BY <2>2, <2>3 DEF Separate, all
<1> QED
  BY <1>12, <1>13

-----------------------------------------------------------------------------
(* What a value is computed from. *)

\* The context of a date batch.
ContextFor(context, group, q, targets) ==
  /\ context.start \in OpenDates /\ context.end \in OpenDates /\ context.start <= context.end
  /\ context.targets = Elements(q) \cap targets
  /\ \A d \in context.targets : d \in OpenDates /\ context.start <= d /\ d <= context.end
  /\ context.load = Between(WarmupStart(context.start, IF group.stage = "stream" THEN 0
                                                       ELSE GroupLookback(group.factors)), context.end)

\* The context of a date batch: its targets and its window.
LEMMA ContextIs ==
  ASSUME NEW group, NEW q, Ordered(q), NEW targets
  PROVE  ContextFor(BatchContext(group, q, targets), group, q, targets)
<1> DEFINE context == BatchContext(group, q, targets)
           warmup == IF group.stage = "stream" THEN 0 ELSE GroupLookback(group.factors)
<1>1. /\ context.start = q[1] /\ context.end = q[Len(q)] /\ context.targets = Elements(q) \cap targets
      /\ context.load = Between(WarmupStart(q[1], warmup), q[Len(q)])
  BY DEF BatchContext, ContextOf
<1> HIDE DEF context, warmup
<1>2. Elements(q) \subseteq OpenDates /\ q[1] \in Elements(q) /\ q[Len(q)] \in Elements(q)
      /\ \A d \in Elements(q) : q[1] <= d /\ d <= q[Len(q)]
  BY SequenceElements DEF Ordered
<1>3. /\ context.start \in OpenDates /\ context.end \in OpenDates /\ context.start <= context.end
      /\ \A d \in context.targets : d \in OpenDates /\ context.start <= d /\ d <= context.end
  BY <1>1, <1>2
<1> QED
  BY <1>1, <1>3 DEF ContextFor, context, warmup

\* What a batch loads, and what each of its factors asks for, reaches over the window of
\* every target date.
LEMMA WindowsLoaded ==
  ASSUME NEW group, group.factors \in Seq(DOMAIN Factors), NEW f \in Elements(group.factors),
         Factors[f].kind = group.stage,
         NEW q, NEW targets, NEW context, ContextFor(context, group, q, targets), NEW d \in context.targets
  PROVE  Daily(f, d) \subseteq FactorContext(f, context).load /\ Daily(f, d) \subseteq context.load
<1>1. f \in DOMAIN Factors /\ group.factors # <<>>
  <2>1. Elements(<<>>) = {}
    BY DEF Elements
  <2> QED
    BY <2>1, SequenceElements
<1> DEFINE n == CalendarLookback(f)
           m == GroupLookback(group.factors)
           a == context.start
           b == context.end
<1>2. n \in Nat /\ m \in Nat /\ n <= m
  BY <1>1, CalendarLookbacks, GroupLookbackIs
<1>3. FactorContext(f, context).load = Between(WarmupStart(a, IF Factors[f].kind = "stream" THEN 0 ELSE n), b)
  BY DEF FactorContext, ContextFor
<1>4. /\ context.load = Between(WarmupStart(a, IF Factors[f].kind = "stream" THEN 0 ELSE m), b)
      /\ a \in OpenDates /\ b \in OpenDates /\ d \in OpenDates /\ a <= d /\ d <= b
  BY DEF ContextFor
<1> HIDE DEF n, m, a, b
<1>5. CASE Factors[f].kind = "stream"
  <2>1. WarmupStart(a, 0) = a
    BY DEF WarmupStart
  <2>2. Daily(f, d) = {d} /\ d \in Between(a, b)
    BY <1>4, <1>5 DEF Daily, Between
  <2> QED
    BY <1>3, <1>4, <1>5, <2>1, <2>2
<1>6. CASE Factors[f].kind # "stream"
  <2>1. Daily(f, d) = Between(WarmupStart(d, n), d)
    BY <1>6 DEF Daily, History, n
  <2>2. WarmupStart(a, n) <= WarmupStart(d, n) /\ WarmupStart(a, m) <= WarmupStart(d, n)
        /\ WarmupStart(a, n) \in OpenDates /\ WarmupStart(a, m) \in OpenDates /\ WarmupStart(d, n) \in OpenDates
    BY <1>2, <1>4, WarmupOrder
  <2>3. OpenDates \subseteq Nat
    BY CalendarAssumption
  <2>4. ASSUME NEW x \in Between(WarmupStart(d, n), d)
        PROVE  x \in Between(WarmupStart(a, n), b) /\ x \in Between(WarmupStart(a, m), b)
    <3>1. x \in OpenDates /\ WarmupStart(d, n) <= x /\ x <= d
      BY DEF Between
    <3>2. WarmupStart(a, n) <= x /\ WarmupStart(a, m) <= x /\ x <= b
      <4> DEFINE u == WarmupStart(a, n)
                 v == WarmupStart(a, m)
                 w == WarmupStart(d, n)
      <4>1. u \in Nat /\ v \in Nat /\ w \in Nat /\ x \in Nat /\ d \in Nat /\ b \in Nat
        BY <1>4, <2>2, <2>3, <3>1
      <4>2. u <= w /\ v <= w /\ w <= x /\ x <= d /\ d <= b
        BY <1>4, <2>2, <3>1
      <4> SUFFICES u <= x /\ v <= x /\ x <= b
        OBVIOUS
      <4> HIDE DEF u, v, w
      <4> QED
        BY <4>1, <4>2
    <3> QED
      BY <3>1, <3>2 DEF Between
  <2> QED
    BY <1>3, <1>4, <1>6, <2>1, <2>4
<1> QED
  BY <1>5, <1>6

\* A streaming provider computes on the one date of its batch.
LEMMA StreamDate ==
  ASSUME NEW fs \in Seq(DOMAIN Factors), NEW p, NEW group, group.stage = "stream", NEW d \in OpenDates, NEW targets,
         NEW context, context = BatchContext(group, <<d>>, targets),
         ProviderFactors(fs, p) # {}, \A f \in ProviderFactors(fs, p) : Factors[f].kind = "stream"
  PROVE  ProviderDates(fs, p, context) = {d}
<1>1. context.start = d /\ context.end = d /\ context.targets = {d} \cap targets
  <2>1. <<d>>[1] = d /\ Len(<<d>>) = 1 /\ Elements(<<d>>) = {d}
    BY DEF Elements
  <2> QED
    BY <2>1 DEF BatchContext, ContextOf
<1>2. Between(WarmupStart(d, 0), d) = {d}
  <2>1. WarmupStart(d, 0) = d /\ OpenDates \subseteq Nat
    BY CalendarAssumption DEF WarmupStart
  <2>2. \A x \in OpenDates : d <= x /\ x <= d => x = d
    BY <2>1
  <2> QED
    BY <2>1, <2>2 DEF Between
<1>3. ASSUME NEW f \in ProviderFactors(fs, p)
      PROVE  FactorContext(f, context).load = {d} /\ \A r \in Requirements(f, context) : r.dates \subseteq {d}
  <2>1. FactorContext(f, context).load = {d}
    <3>1. context = [start |-> context.start, end |-> context.end, loadStart |-> context.loadStart,
                     load |-> context.load, targets |-> context.targets]
      BY DEF BatchContext, ContextOf
    <3>2. FactorContext(f, context).load = Between(WarmupStart(context.start, 0), context.end)
      BY <3>1 DEF FactorContext
    <3> QED
      BY <1>1, <1>2, <3>2
  <2>2. \A r \in Requirements(f, context) : r.dates = FactorContext(f, context).load \/ r.dates = context.targets
    BY DEF Requirements
  <2> QED
    BY <1>1, <2>1, <2>2
<1>4. \A r \in RequirementsOf(ProviderFactors(fs, p), context) : r.dates \subseteq {d}
  BY <1>3 DEF RequirementsOf
<1> DEFINE A == UNION {FactorContext(f, context).load : f \in ProviderFactors(fs, p)}
           C == DatesOf({r \in RequirementsOf(ProviderFactors(fs, p), context) : r.data \in PanelData})
<1>5. A = {d}
  BY <1>3
<1>6. C \subseteq {d}
  BY <1>4 DEF DatesOf
<1>7. ProviderDates(fs, p, context) = A \cup context.targets \cup C
  BY DEF ProviderDates
<1> HIDE DEF A, C
<1> QED
  BY <1>1, <1>5, <1>6, <1>7

\* A value is that of the factor computed alone when all that it reads is there.
LEMMA ValueIsAlone ==
  ASSUME NEW f, NEW d, NEW view, NEW seen,
         \A w \in PanelWants(f) : /\ w.cols \subseteq view.panels[w.data].cols
                                  /\ Lasting(f, w, d) \subseteq view.panels[w.data].dates,
         Asks(f, "minute") => Daily(f, d) \subseteq view.minute,
         Factors[f].kind = "raw" => History(f, d) \subseteq view.raw,
         Asks(f, Statement) => Daily(f, d) \subseteq view.universe,
         seen = IF Factors[f].kind = "stream" THEN Ascending(History(f, d)) ELSE <<>>
  PROVE  ValueOf(f, d, view, seen) = Alone(f, d)
<1> DEFINE Read(w) == <<w.data, w.cols \cap view.panels[w.data].cols,
                        view.panels[w.data].dates \cap Lasting(f, w, d)>>
           Whole(w) == <<w.data, w.cols, Lasting(f, w, d)>>
<1>1. \A w \in PanelWants(f) : Read(w) = Whole(w)
  <2> SUFFICES ASSUME NEW w \in PanelWants(f) PROVE Read(w) = Whole(w)
    OBVIOUS
  <2>1. w.cols \cap view.panels[w.data].cols = w.cols
        /\ view.panels[w.data].dates \cap Lasting(f, w, d) = Lasting(f, w, d)
    OBVIOUS
  <2> QED
    BY <2>1
<1> HIDE DEF Read, Whole
<1>2. {Read(w) : w \in PanelWants(f)} = {Whole(w) : w \in PanelWants(f)}
  BY <1>1
<1>3. (IF Asks(f, "minute") THEN view.minute \cap Daily(f, d) ELSE {})
        = (IF Asks(f, "minute") THEN Daily(f, d) ELSE {})
  OBVIOUS
<1>4. (IF Factors[f].kind = "raw" THEN view.raw \cap History(f, d) ELSE {})
        = (IF Factors[f].kind = "raw" THEN History(f, d) ELSE {})
  OBVIOUS
<1>5. (IF Asks(f, Statement) THEN view.universe \cap Daily(f, d) ELSE {})
        = (IF Asks(f, Statement) THEN Daily(f, d) ELSE {})
  OBVIOUS
<1> QED
  BY <1>2, <1>3, <1>4, <1>5 DEF ValueOf, Alone, Read, Whole

\* The minutes and the universe of a pool reach over the dates of its context.
Reaches(loaded, requests, context) ==
  /\ "minute" \in DataOf(requests) => context.load \subseteq loaded.minute
  /\ Statement \in DataOf(requests) => context.load \subseteq loaded.universe

\* What is loaded at once reaches over the window.
LEMMA LoadedReaches ==
  ASSUME NEW requests, NEW context, NEW deferred
  PROVE  /\ Reaches(LoadInputs(requests, context, deferred), requests, context)
         /\ "minute" \in DataOf(requests) => LoadInputs(requests, context, deferred).minute = context.load
         /\ Statement \in DataOf(requests) => LoadInputs(requests, context, deferred).universe = context.load
<1>1. /\ "minute" \in DataOf(requests) => LoadInputs(requests, context, deferred).minute = context.load
      /\ Statement \in DataOf(requests) => LoadInputs(requests, context, deferred).universe = context.load
  BY DEF LoadInputs
<1> QED
  BY <1>1 DEF Reaches

\* So does what is loaded once for many batches.
LEMMA SharedReaches ==
  ASSUME NEW whole, NEW batches, NEW requests, Within(requests, whole), NEW context, NEW shared,
         shared = LoadReused(whole, batches, context)
  PROVE  Reaches(LoadFromBatchInputs(shared, requests, context), requests, context)
<1> DEFINE view == ViewForRequests(shared, requests, context.load)
           missing == DataOf(Uncached(shared, requests))
           mine == {r \in requests : r.data \in missing}
           own == LoadInputs(mine, context, FALSE)
           all == LoadFromBatchInputs(shared, requests, context)
           reused == Reused(whole, batches)
<1>1. shared = LoadInputs(reused, context, TRUE)
  BY ReusedTogether
<1>2. /\ all.minute = IF own.minute = {} THEN view.minute ELSE own.minute
      /\ all.universe = view.universe
  BY DEF LoadFromBatchInputs
<1>3. ASSUME "minute" \in DataOf(requests) PROVE context.load \subseteq all.minute
  <2>1. PICK r \in requests : r.data = "minute"
    BY <1>3 DEF DataOf
  <2>2. "minute" \notin DataOf(reused)
    BY DEF DataOf, Reused
  <2>3. "minute" \notin DOMAIN shared.panels /\ "minute" \notin DOMAIN shared.rows
    <3> HIDE DEF reused
    <3> QED
      BY <1>1, <2>2, LoadedTables DEF TablesFor
  <2>4. r \in Uncached(shared, requests)
    BY <2>1, <2>3, DataAssumption DEF Uncached, Has
  <2>5. "minute" \in DataOf(mine)
    BY <2>1, <2>4 DEF DataOf
  <2>6. own.minute = context.load
    <3> HIDE DEF mine
    <3> QED
      BY <2>5, LoadedReaches
  <2> HIDE DEF own, all, view
  <2> QED
    BY <1>2, <2>6
<1>4. ASSUME Statement \in DataOf(requests) PROVE context.load \subseteq all.universe
  <2>1. Statement \in DataOf(whole)
    BY <1>4, WithinTables
  <2>2. Statement \in DataOf(reused)
    BY <2>1, DataAssumption DEF DataOf, Reused
  <2>3. shared.universe = context.load
    <3> HIDE DEF reused
    <3> QED
      BY <1>1, <2>2, LoadedReaches
  <2>4. view.universe = shared.universe \cap context.load
    BY <1>4 DEF ViewForRequests
  <2> HIDE DEF view, all
  <2> QED
    BY <1>2, <2>3, <2>4
<1> QED
  BY <1>3, <1>4 DEF Reaches

\* A view reaches as far as what was loaded.
LEMMA ViewReached ==
  ASSUME NEW loaded, NEW requests, NEW context, Reaches(loaded, requests, context),
         NEW some, Within(some, requests), NEW dates
  PROVE  LET view == ViewForRequests(loaded, some, dates)
         IN  /\ "minute" \in DataOf(some) => context.load \subseteq view.minute
             /\ view.raw = loaded.raw
             /\ Statement \in DataOf(some) => context.load \cap dates \subseteq view.universe
<1> DEFINE view == ViewForRequests(loaded, some, dates)
<1>1. /\ view.minute = loaded.minute /\ view.raw = loaded.raw
      /\ Statement \in DataOf(some) => view.universe = loaded.universe \cap dates
  BY DEF ViewForRequests
<1>2. \A data : data \in DataOf(some) => data \in DataOf(requests)
  BY WithinTables
<1> HIDE DEF view
<1>3. "minute" \in DataOf(some) => context.load \subseteq view.minute
  BY <1>1, <1>2 DEF Reaches
<1>4. Statement \in DataOf(some) => context.load \cap dates \subseteq view.universe
  BY <1>1, <1>2 DEF Reaches
<1> QED
  BY <1>1, <1>3, <1>4 DEF view

-----------------------------------------------------------------------------
(* The values of a run. *)

\* The dates of the current group and their batches, and how many of those are done.
GroupDates == Ascending(StageDates(Head(groups), Targets))
GroupBatches == DateBatches(Head(groups), Targets, run.dateBatch)
Passed == Len(GroupBatches) - Len(queue)

GroupsOk ==
  /\ stage # "done" => Targets # {}
  /\ stage = "done" => groups = <<>>
  /\ Apart(groups)

\* Where the run is in its group and in its batch.
InBatch == {"sources", "load", "view", "compute", "write", "finish"}
QueueOk ==
  /\ queue \in Seq(Seq(OpenDates)) /\ queue # <<>> /\ Len(queue) <= Len(GroupBatches)
  /\ \A i \in DOMAIN queue : queue[i] = GroupBatches[Passed + i]
PlaceOk ==
  /\ stage \in Dividing => QueueOk /\ split = ProviderBatches(Head(groups).factors, run.factorBatch)
  /\ stage \in InBatch => Context = BatchContext(Head(groups), Head(queue), Targets)
  /\ stage = "finish" => turn = Len(split)

\* What was loaded for a batch reaches over its dates.
ViewReaches(p) ==
  /\ "minute" \in DataOf(Provider(p).requests) => Context.load \subseteq views[p].minute
  /\ views[p].raw = RawDates
  /\ Statement \in DataOf(Provider(p).requests) => Context.load \cap Provider(p).dates \subseteq views[p].universe
ReachOk ==
  /\ stage = "view" => Reaches(pool, Batch.requests, Context) /\ pool.raw = RawDates
  /\ stage = "compute" => DOMAIN views = DOMAIN Batch.providers /\ \A p \in DOMAIN views : ViewReaches(p)

\* A streaming provider has seen the dates of its group that are done, and no other ones.
Reached(b) == stage \in InBatch /\ (b < turn \/ (b = turn /\ stage \in {"compute", "write", "finish"}))
SeenByBatch(b) == SubSeq(GroupDates, 1, IF Reached(b) THEN Passed + 1 ELSE Passed)
StreamsOk == \A b \in DOMAIN split : \A f \in Elements(split[b]) : Seen(ProviderOf(f)) = SeenByBatch(b)
Fresh(group) == \A f \in Elements(group.factors) : Seen(ProviderOf(f)) = <<>>
SeenOk ==
  /\ stage \in Dividing /\ Head(groups).stage = "stream" => StreamsOk
  /\ stage # "failed" =>
       \A i \in DOMAIN groups : i > 1 \/ stage = "group" \/ groups[i].stage # "stream" => Fresh(groups[i])

\* The group being computed.
LEMMA HeadGroup ==
  ASSUME run \in Runs, groups \in Seq(GroupsFrom(run.factors)), groups # <<>>
  PROVE  /\ Head(groups).factors \in Seq(DOMAIN Factors) /\ Head(groups).factors # <<>>
         /\ Head(groups) = groups[1] /\ 1 \in DOMAIN groups
         /\ Elements(Head(groups).factors) \subseteq Elements(run.factors)
         /\ \A f \in Elements(Head(groups).factors) : Factors[f].kind = Head(groups).stage
<1>1. Head(groups).factors \in Seq(DOMAIN Factors) /\ Head(groups).factors # <<>>
  BY RunFactors, HeadIs
<1>2. Head(groups) = groups[1] /\ 1 \in DOMAIN groups /\ Head(groups) \in GroupsFrom(run.factors)
  BY HeadTailProperties, SequenceElements
<1>3. Head(groups).factors \in Seq(Elements(run.factors))
      /\ \A f \in Elements(Head(groups).factors) : Factors[f].kind = Head(groups).stage
  BY <1>2 DEF GroupsFrom
<1>4. Elements(Head(groups).factors) \subseteq Elements(run.factors)
  BY <1>3, SequenceElements
<1> QED
  BY <1>1, <1>2, <1>3, <1>4

\* Targets are days of the calendar.
LEMMA TargetsAreOpen ==
  ASSUME run \in Runs
  PROVE  Targets \subseteq OpenDates /\ run.dateBatch \in Nat \ {0}
BY RunAssumption DEF Targets, Between

\* The batches of the current group.
BatchesOf(batches, dates, group) ==
  /\ batches \in Seq(Seq(OpenDates)) /\ batches # <<>> /\ Len(batches) \in Nat /\ Len(batches) >= 1
  /\ DOMAIN batches = 1 .. Len(batches)
  /\ \A i \in DOMAIN batches : Ordered(batches[i])
  /\ \A d \in Targets : \E i \in DOMAIN batches : d \in Elements(batches[i])
  /\ dates \in Seq(OpenDates)
  /\ group.stage = "stream" => Len(batches) = Len(dates) /\ \A i \in DOMAIN batches : batches[i] = <<dates[i]>>

\* The date batches of the group being computed.
LEMMA GroupBatchesAre ==
  ASSUME run \in Runs, groups \in Seq(GroupsFrom(run.factors)), groups # <<>>, Targets # {}
  PROVE  BatchesOf(GroupBatches, GroupDates, Head(groups))
<1> DEFINE group == Head(groups)
           targets == Targets
           size == run.dateBatch
           D == Ascending(StageDates(group, targets))
           B == DateBatches(group, targets, size)
<1>1. group.factors \in Seq(DOMAIN Factors) /\ group.factors # <<>>
  BY HeadGroup
<1>2. targets \subseteq OpenDates /\ targets # {} /\ size \in Nat \ {0}
  BY TargetsAreOpen
<1> HIDE DEF group, targets, size
<1>3. /\ B \in Seq(Seq(OpenDates)) /\ B # <<>>
      /\ \A i \in DOMAIN B : Ordered(B[i])
      /\ \A d \in targets : \E i \in DOMAIN B : d \in Elements(B[i])
      /\ D \in Seq(OpenDates)
      /\ group.stage = "stream" => Len(B) = Len(D) /\ \A i \in DOMAIN B : B[i] = <<D[i]>>
  BY <1>1, <1>2, DateBatchesAre
<1> HIDE DEF B, D
<1>4. Len(B) \in Nat /\ Len(B) >= 1 /\ DOMAIN B = 1 .. Len(B)
  BY <1>3, SequenceElements
<1> QED
  BY <1>3, <1>4 DEF BatchesOf, GroupBatches, GroupDates, B, D, group, targets, size

\* The first batch of the queue.
LEMMA QueueIs ==
  ASSUME run \in Runs, groups \in Seq(GroupsFrom(run.factors)), groups # <<>>, Targets # {}, QueueOk
  PROVE  /\ Passed \in Nat /\ Passed + 1 \in DOMAIN GroupBatches /\ Head(queue) = queue[1]
         /\ Len(queue) \in Nat /\ Len(queue) >= 1 /\ DOMAIN queue = 1 .. Len(queue)
         /\ queue[1] = GroupBatches[Passed + 1]
         /\ \A i \in DOMAIN queue : Passed + i \in DOMAIN GroupBatches /\ Ordered(queue[i])
<1> DEFINE B == GroupBatches
           n == Len(B)
           m == Len(queue)
<1>1. n \in Nat /\ DOMAIN B = 1 .. n /\ \A i \in DOMAIN B : Ordered(B[i])
  BY GroupBatchesAre DEF BatchesOf
<1>2. m \in Nat /\ m >= 1 /\ DOMAIN queue = 1 .. m /\ Head(queue) = queue[1]
  BY SequenceElements, HeadTailProperties DEF QueueOk
<1>3. Passed = n - m /\ m <= n /\ \A i \in DOMAIN queue : queue[i] = B[Passed + i]
  BY DEF QueueOk, Passed
<1> HIDE DEF n, m, B
<1>4. Passed \in Nat /\ \A i \in 1 .. m : Passed + i \in 1 .. n
  BY <1>1, <1>2, <1>3
<1>5. 1 \in 1 .. m
  BY <1>2
<1>6. \A i \in DOMAIN queue : Passed + i \in DOMAIN B /\ Ordered(queue[i])
  BY <1>1, <1>2, <1>3, <1>4
<1> QED
  BY <1>1, <1>2, <1>3, <1>4, <1>5, <1>6 DEF m, B

\* The provider batch whose turn it is.
LEMMA TurnIs ==
  ASSUME run \in Runs, groups \in Seq(GroupsFrom(run.factors)), groups # <<>>, SplitOk, WorkOk
  PROVE  /\ turn \in DOMAIN split /\ split[turn] \in Seq(DOMAIN Factors)
         /\ Elements(split[turn]) \subseteq Elements(Head(groups).factors)
         /\ Batch.factors = Elements(split[turn])
         /\ DOMAIN Batch.providers = Elements(Providers(split[turn]))
         /\ \A p \in DOMAIN Batch.providers : Provider(p) = ProviderWork(split[turn], p, Context)
         /\ \A f \in Elements(split[turn]) : ProviderOf(f) \in DOMAIN Batch.providers
<1> DEFINE fs == split[turn]
           whole == Head(groups).factors
<1>1. turn \in DOMAIN split /\ Batch = BatchWork(fs, Context)
  BY DEF WorkOk, Batch
<1>2. fs \in Seq(Elements(whole)) /\ whole \in Seq(DOMAIN Factors)
  BY <1>1, ElementOfSeq, LenProperties, HeadGroup DEF SplitOk
<1> HIDE DEF fs, whole
<1>3. Elements(fs) \subseteq Elements(whole) /\ Elements(whole) \subseteq DOMAIN Factors
  BY <1>2, SequenceElements
<1>4. fs \in Seq(DOMAIN Factors)
  <2>1. Len(fs) \in Nat /\ DOMAIN fs = 1 .. Len(fs) /\ \A i \in DOMAIN fs : fs[i] \in DOMAIN Factors
    BY <1>2, <1>3, SequenceElements
  <2>2. fs = [i \in 1 .. Len(fs) |-> fs[i]]
    BY <1>2, LenProperties
  <2>3. fs \in [1 .. Len(fs) -> DOMAIN Factors]
    BY <2>1, <2>2
  <2> QED
    BY <2>1, <2>3, SeqDef
<1>5. /\ Batch.factors = Elements(fs)
      /\ Batch.providers = [q \in Elements(Providers(fs)) |-> ProviderWork(fs, q, Context)]
  BY <1>1 DEF BatchWork
<1>6. \A p \in DOMAIN Batch.providers : Provider(p) = ProviderWork(fs, p, Context)
  BY <1>5 DEF Provider
<1>7. ASSUME NEW f \in Elements(fs) PROVE ProviderOf(f) \in DOMAIN Batch.providers
  <2>1. \E i \in DOMAIN Providers(fs) : Providers(fs)[i] = ProviderOf(f)
    BY <1>4, ProvidersAre
  <2> QED
    BY <1>5, <2>1 DEF Elements
<1> QED
  BY <1>1, <1>3, <1>4, <1>5, <1>6, <1>7 DEF fs, whole

\* A streaming provider that has seen the dates of its group up to a target has kept the
\* history of each of its factors.
LEMMA StreamHistory ==
  ASSUME run \in Runs, groups \in Seq(GroupsFrom(run.factors)), groups # <<>>, Targets # {}, QueueOk,
         Apart(groups), Head(groups).stage = "stream",
         NEW f \in Elements(Head(groups).factors), Seen(ProviderOf(f)) = SubSeq(GroupDates, 1, Passed + 1),
         NEW d \in Elements(Head(queue)) \cap Targets
  PROVE  SeenBy(ProviderOf(f), f) = Ascending(History(f, d))
<1> DEFINE group == Head(groups)
           targets == Targets
           D == GroupDates
           k == Passed + 1
           t == Seen(ProviderOf(f))
           L == CalendarLookback(f)
<1>1. /\ group.factors \in Seq(DOMAIN Factors) /\ group.factors # <<>> /\ Factors[f].kind = "stream"
      /\ group = groups[1] /\ 1 \in DOMAIN groups
      /\ \A g \in Elements(group.factors) : Factors[g].kind = "stream"
  BY HeadGroup
<1>2. f \in DOMAIN Factors
  BY <1>1, SequenceElements
<1>3. L \in Nat /\ L = Factors[f].lookback
  BY <1>1, <1>2, CalendarLookbacks
<1>4. L = GroupLookback(group.factors)
  <2>1. PICK g \in Elements(group.factors) : GroupLookback(group.factors) = CalendarLookback(g)
    BY <1>1, GroupLookbackIs
  <2>2. CalendarLookback(f) = CalendarLookback(g)
    BY <1>1, <2>1 DEF Apart, Streaming
  <2> QED
    BY <2>1, <2>2
<1>5. k \in 1 .. Len(D) /\ d = D[k]
  <2>1. /\ DOMAIN GroupBatches = 1 .. Len(GroupBatches) /\ Len(GroupBatches) = Len(D)
        /\ \A i \in DOMAIN GroupBatches : GroupBatches[i] = <<D[i]>>
    BY GroupBatchesAre DEF BatchesOf
  <2>2. k \in DOMAIN GroupBatches /\ Head(queue) = GroupBatches[k]
    BY QueueIs
  <2>3. Head(queue) = <<D[k]>>
    BY <2>1, <2>2
  <2> HIDE DEF k, D
  <2>4. Elements(<<D[k]>>) = {D[k]}
    BY DEF Elements
  <2> QED
    BY <2>1, <2>2, <2>3, <2>4
<1>6. targets \subseteq OpenDates /\ targets # {} /\ d \in targets
  BY TargetsAreOpen
<1>7. Dates(D, group, targets) /\ FirstOf(t, D, k)
  BY DEF Dates, FirstOf, GroupDates
<1>8. SeenBy(ProviderOf(f), f) = Recent(t, L)
  BY <1>3 DEF SeenBy, Recent
<1>9. History(f, d) = Between(WarmupStart(d, L), d)
  BY DEF History
<1> HIDE DEF group, targets, D, k, t, L
<1>10. Recent(t, L) = Ascending(Between(WarmupStart(D[k], L), D[k]))
  BY <1>1, <1>3, <1>4, <1>5, <1>6, <1>7, SeenIsHistory DEF group
<1> QED
  BY <1>5, <1>8, <1>9, <1>10

\* What a factor wants is asked for.
LEMMA AskedFor ==
  ASSUME NEW fs, NEW f \in fs, NEW context, context.targets # {}, NEW w \in Factors[f].wants
  PROVE  \E r \in RequirementsOf(fs, context) :
           /\ r.data = w.data /\ r.cols = w.cols
           /\ r.dates = IF w.dates = "window" THEN FactorContext(f, context).load ELSE context.targets
<1> DEFINE r == [data |-> w.data, cols |-> w.cols, panelOnly |-> w.panelOnly, quarters |-> w.quarters,
                 dates |-> IF w.dates = "window" THEN FactorContext(f, context).load ELSE context.targets]
<1>1. r \in Requirements(f, context)
  BY DEF Requirements
<1>2. r \in RequirementsOf(fs, context)
  BY <1>1 DEF RequirementsOf
<1> QED
  BY <1>2

\* Everything computed in a batch is as if computed alone.
LEMMA ComputedAlone ==
  ASSUME PlanInv, GroupsOk, PlaceOk, ReachOk, SeenOk, stage = "compute",
         \A p \in DOMAIN Batch.providers : Unserved(p) = {},
         NEW f \in Batch.factors, NEW d \in Context.targets
  PROVE  /\ ValueOf(f, d, views[ProviderOf(f)], SeenBy(ProviderOf(f), f)) = Alone(f, d)
         /\ f \in Elements(run.factors) /\ d \in Targets
<1> DEFINE group == Head(groups)
           fs == split[turn]
           p == ProviderOf(f)
           asked == Provider(p).requests
<1>1. /\ run \in Runs /\ groups \in Seq(GroupsFrom(run.factors)) /\ groups # <<>> /\ Targets # {}
      /\ SplitOk /\ WorkOk /\ QueueOk /\ Apart(groups) /\ ViewsAsDeclared
      /\ Context = BatchContext(group, Head(queue), Targets)
  BY DEF PlanInv, GroupsOk, PlaceOk, Dividing, InBatch
<1>2. /\ group.factors \in Seq(DOMAIN Factors) /\ group = groups[1] /\ 1 \in DOMAIN groups
      /\ Elements(group.factors) \subseteq Elements(run.factors)
      /\ \A g \in Elements(group.factors) : Factors[g].kind = group.stage
  BY <1>1, HeadGroup
<1>3. /\ turn \in DOMAIN split /\ fs \in Seq(DOMAIN Factors) /\ Elements(fs) \subseteq Elements(group.factors)
      /\ Batch.factors = Elements(fs)
      /\ \A q \in DOMAIN Batch.providers : Provider(q) = ProviderWork(fs, q, Context)
      /\ \A g \in Elements(fs) : ProviderOf(g) \in DOMAIN Batch.providers
  BY <1>1, TurnIs
<1>5. f \in Elements(fs) /\ f \in Elements(group.factors) /\ f \in Elements(run.factors) /\ Factors[f].kind = group.stage
  BY <1>2, <1>3
<1>6. p \in DOMAIN Batch.providers /\ f \in ProviderFactors(fs, p)
  BY <1>3, <1>5 DEF ProviderFactors, ProviderOf
<1>7. Provider(p) = ProviderWork(fs, p, Context) /\ asked = RequirementsOf(ProviderFactors(fs, p), Context)
      /\ Provider(p).dates = ProviderDates(fs, p, Context)
  BY <1>3, <1>6 DEF ProviderWork
<1>8. /\ p \in DOMAIN views /\ ViewReaches(p) /\ Unserved(p) = {}
  BY <1>6 DEF ReachOk
<1>9. Ordered(Head(queue))
  <2>1. 1 \in DOMAIN queue /\ Head(queue) = queue[1] /\ \A i \in DOMAIN queue : Ordered(queue[i])
    BY <1>1, QueueIs
  <2> QED
    BY <2>1
<1>10. ContextFor(Context, group, Head(queue), Targets)
  BY <1>1, <1>9, ContextIs
<1> HIDE DEF group, fs, p, asked
<1>11. Daily(f, d) \subseteq FactorContext(f, Context).load /\ Daily(f, d) \subseteq Context.load
  BY <1>2, <1>5, <1>10, WindowsLoaded
<1>12. Context.targets # {} /\ d \in Targets /\ d \in Elements(Head(queue))
  BY <1>10 DEF ContextFor
<1>13. ASSUME NEW w \in Factors[f].wants
       PROVE  \E r \in asked : /\ r.data = w.data /\ r.cols = w.cols
                               /\ r.dates = IF w.dates = "window" THEN FactorContext(f, Context).load
                                            ELSE Context.targets
  BY <1>6, <1>7, <1>12, AskedFor
<1>14. ASSUME NEW w \in PanelWants(f)
       PROVE  /\ w.cols \subseteq views[p].panels[w.data].cols
              /\ Lasting(f, w, d) \subseteq views[p].panels[w.data].dates
  <2>1. w \in Factors[f].wants /\ w.data \in PanelData
    BY DEF PanelWants
  <2>2. PICK r \in asked : /\ r.data = w.data /\ r.cols = w.cols
                           /\ r.dates = IF w.dates = "window" THEN FactorContext(f, Context).load
                                        ELSE Context.targets
    BY <1>13, <2>1
  <2>3. w.data \in DOMAIN views[p].panels
    BY <1>8, <2>1, <2>2 DEF Unserved, asked
  <2>4. w.data \in DataOf(asked) \cap PanelData
    BY <2>1, <2>2 DEF DataOf
  <2>5. views[p].panels[w.data] = TableOf(For(asked, w.data))
    BY <1>1, <1>8, <2>3, <2>4 DEF ViewsAsDeclared, DeclaredPanel, HiddenPanel, asked
  <2>6. r \in For(asked, w.data)
    BY <2>2 DEF For
  <2>7. r.cols \subseteq views[p].panels[w.data].cols /\ r.dates \subseteq views[p].panels[w.data].dates
    BY <2>5, <2>6 DEF TableOf, DatesOf, ColumnsOf
  <2>8. Lasting(f, w, d) \subseteq r.dates
    BY <1>11, <2>2 DEF Lasting
  <2> QED
    BY <2>2, <2>7, <2>8
<1>15. \A data : Asks(f, data) => data \in DataOf(asked)
  BY <1>13 DEF Asks, DataOf
<1>16. Asks(f, "minute") => Daily(f, d) \subseteq views[p].minute
  BY <1>8, <1>11, <1>15 DEF ViewReaches, asked
<1>17. Factors[f].kind = "raw" => History(f, d) \subseteq views[p].raw
  <2> SUFFICES ASSUME Factors[f].kind = "raw" PROVE History(f, d) \subseteq views[p].raw
    OBVIOUS
  <2>1. views[p].raw = RawDates /\ f \in Batch.factors
    BY <1>8 DEF ViewReaches
  <2>2. RawDates = Context.load
    BY <2>1 DEF RawDates
  <2>3. Daily(f, d) = History(f, d)
    BY DEF Daily
  <2> QED
    BY <1>11, <2>1, <2>2, <2>3
<1>18. Asks(f, Statement) => Daily(f, d) \subseteq views[p].universe
  <2>1. FactorContext(f, Context).load \subseteq Provider(p).dates
    BY <1>6, <1>7 DEF ProviderDates
  <2> QED
    BY <1>8, <1>11, <1>15, <2>1 DEF ViewReaches, asked
<1>19. SeenBy(p, f) = IF Factors[f].kind = "stream" THEN Ascending(History(f, d)) ELSE <<>>
  <2>1. CASE Factors[f].kind = "stream"
    <3>1. StreamsOk /\ Head(groups).stage = "stream"
      BY <1>5, <2>1 DEF SeenOk, Dividing, group
    <3>2. Reached(turn)
      BY DEF Reached, InBatch
    <3>3. Seen(ProviderOf(f)) = SubSeq(GroupDates, 1, Passed + 1)
      BY <1>3, <1>5, <3>1, <3>2 DEF StreamsOk, SeenByBatch, fs
    <3>4. SeenBy(ProviderOf(f), f) = Ascending(History(f, d))
      BY <1>1, <1>5, <1>12, <3>1, <3>3, StreamHistory DEF group
    <3> QED
      BY <2>1, <3>4 DEF p
  <2>2. CASE Factors[f].kind # "stream"
    <3>1. Fresh(groups[1])
      BY <1>2, <1>5, <2>2 DEF SeenOk
    <3>2. Seen(p) = <<>>
      BY <1>2, <1>5, <3>1 DEF Fresh, p
    <3>3. f \in DOMAIN Factors
      BY <1>2, <1>5, SequenceElements
    <3>4. Factors[f].lookback \in Nat
      BY <3>3, FactorAssumption
    <3>5. Len(<<>>) = 0 /\ ~(0 > Factors[f].lookback + 1) /\ SubSeq(<<>>, 1, 0) = <<>>
      BY <3>4
    <3>6. SeenBy(p, f) = <<>>
      BY <3>2, <3>5 DEF SeenBy
    <3> QED
      BY <2>2, <3>6
  <2> QED
    BY <2>1, <2>2
<1>20. ValueOf(f, d, views[p], SeenBy(p, f)) = Alone(f, d)
  <2> DEFINE view == views[p]
             seen == SeenBy(p, f)
  <2>1. \A w \in PanelWants(f) : /\ w.cols \subseteq view.panels[w.data].cols
                                 /\ Lasting(f, w, d) \subseteq view.panels[w.data].dates
    BY <1>14
  <2>2. /\ Asks(f, "minute") => Daily(f, d) \subseteq view.minute
        /\ Factors[f].kind = "raw" => History(f, d) \subseteq view.raw
        /\ Asks(f, Statement) => Daily(f, d) \subseteq view.universe
        /\ seen = IF Factors[f].kind = "stream" THEN Ascending(History(f, d)) ELSE <<>>
    BY <1>16, <1>17, <1>18, <1>19
  <2> SUFFICES ValueOf(f, d, view, seen) = Alone(f, d)
    OBVIOUS
  <2> HIDE DEF view, seen
  <2> QED
    BY <2>1, <2>2, ValueIsAlone
<1> QED
  BY <1>5, <1>12, <1>20 DEF p

\* Values are those of factors computed alone.
Made(values) ==
  /\ DOMAIN values \subseteq Elements(run.factors) \X Targets
  /\ \A key \in DOMAIN values : values[key] = Alone(key[1], key[2])
ValuesOk ==
  /\ Made(results) /\ Made(buffer) /\ Made(written)
  /\ stage # "write" => DOMAIN results = {}
  /\ stage \in {"group", "begin", "done"} => DOMAIN buffer = {}

\* A value not yet held will be computed: in a later group, for a later date batch, or by a
\* provider batch whose turn is still to come.
LaterGroup(f) == \E i \in DOMAIN groups : (i > 1 \/ stage = "group") /\ f \in Elements(groups[i].factors)
LaterDate(f, d) ==
  /\ stage \in Dividing /\ f \in Elements(Head(groups).factors)
  /\ \E i \in DOMAIN queue : (i > 1 \/ stage = "begin") /\ d \in Elements(queue[i])
LaterTurn(f, d) ==
  /\ stage \in InBatch /\ d \in Elements(Head(queue))
  /\ \E b \in DOMAIN split : /\ f \in Elements(split[b])
                             /\ b > turn \/ (b = turn /\ stage \notin {"write", "finish"})
Held(f, d) == <<f, d>> \in DOMAIN results \cup DOMAIN buffer \cup DOMAIN written
Accounted(f, d) == LaterGroup(f) \/ LaterDate(f, d) \/ LaterTurn(f, d) \/ Held(f, d)
AccountOk == stage # "failed" => \A f \in Elements(run.factors), d \in Targets : Accounted(f, d)

ValueInv == GroupsOk /\ PlaceOk /\ ReachOk /\ SeenOk /\ ValuesOk /\ AccountOk

\* What only depends on the group.
LEMMA GroupFrame ==
  ASSUME UNCHANGED <<run, groups>>
  PROVE  Targets' = Targets /\ GroupDates' = GroupDates /\ GroupBatches' = GroupBatches
<1>1. Targets' = Targets
  BY DEF Targets
<1> QED
  BY <1>1 DEF GroupDates, GroupBatches

\* The place in the group is kept while the queue is.
LEMMA QueueFrame ==
  ASSUME UNCHANGED <<run, groups, queue>>
  PROVE  Passed' = Passed /\ QueueOk' = QueueOk
<1>1. GroupBatches' = GroupBatches
  BY GroupFrame
<1>2. Passed' = Passed
  BY <1>1 DEF Passed
<1> QED
  BY <1>1, <1>2 DEF QueueOk

\* Values stay as they should be while they are kept.
LEMMA MadeFrame ==
  ASSUME UNCHANGED run
  PROVE  /\ Targets' = Targets
         /\ results' = results => Made(results)' = Made(results)
         /\ buffer' = buffer => Made(buffer)' = Made(buffer)
         /\ written' = written => Made(written)' = Made(written)
<1>1. Targets' = Targets
  BY DEF Targets
<1> QED
  BY <1>1 DEF Made

\* Steps of the files and of the cache.
LEMMA SourcesKeepValues ==
  ASSUME ValueInv,
         UNCHANGED <<run, groups, queue, split, work, turn, stage, pool, views, states, results, buffer, written>>
  PROVE  ValueInv'
<1>1. Targets' = Targets /\ GroupDates' = GroupDates /\ GroupBatches' = GroupBatches
      /\ Passed' = Passed /\ QueueOk' = QueueOk
  BY GroupFrame, QueueFrame
<1>2. Batch' = Batch /\ Context' = Context
  BY DEF Batch, Context
<1>3. RawDates' = RawDates /\ \A p : Provider(p)' = Provider(p)
  BY <1>2 DEF RawDates, Provider
<1>4. \A p : Seen(p)' = Seen(p)
  BY DEF Seen
<1>5. GroupsOk'
  BY <1>1 DEF ValueInv, GroupsOk
<1>6. PlaceOk'
  BY <1>1, <1>2 DEF ValueInv, PlaceOk
<1>7. ReachOk'
  <2>1. \A p : ViewReaches(p)' = ViewReaches(p)
    BY <1>2, <1>3 DEF ViewReaches
  <2> QED
    BY <1>2, <1>3, <2>1 DEF ValueInv, ReachOk
<1>8. SeenOk'
  <2>1. \A b : SeenByBatch(b)' = SeenByBatch(b)
    BY <1>1 DEF SeenByBatch, Reached
  <2>2. StreamsOk' = StreamsOk
    BY <1>4, <2>1 DEF StreamsOk
  <2>3. \A group : Fresh(group)' = Fresh(group)
    BY <1>4 DEF Fresh
  <2> QED
    BY <2>2, <2>3 DEF ValueInv, SeenOk
<1>9. ValuesOk'
  BY MadeFrame DEF ValueInv, ValuesOk
<1>10. AccountOk'
  <2>1. \A f, d : Accounted(f, d)' = Accounted(f, d)
    BY DEF Accounted, LaterGroup, LaterDate, LaterTurn, Held
  <2> QED
    BY <1>1, <2>1 DEF ValueInv, AccountOk
<1> QED
  BY <1>5, <1>6, <1>7, <1>8, <1>9, <1>10 DEF ValueInv

\* The split of a group into provider batches.
LEMMA SplitIs ==
  ASSUME run \in Runs, groups \in Seq(GroupsFrom(run.factors)), groups # <<>>,
         NEW batches, batches = ProviderBatches(Head(groups).factors, run.factorBatch)
  PROVE  /\ DOMAIN batches = 1 .. Len(batches) /\ Len(batches) \in Nat
         /\ \A b \in DOMAIN batches : Elements(batches[b]) \subseteq Elements(Head(groups).factors)
         /\ Separate(batches, Head(groups).factors)
<1> DEFINE fs == Head(groups).factors
<1>1. fs \in Seq(DOMAIN Factors) /\ fs # <<>>
  BY HeadGroup
<1> HIDE DEF fs
<1>2. batches \in Seq(Seq(Elements(fs))) /\ Separate(batches, fs)
  BY <1>1, ProviderBatchesAre, ProviderBatchesSeparate DEF fs
<1>3. DOMAIN batches = 1 .. Len(batches) /\ Len(batches) \in Nat
      /\ \A b \in DOMAIN batches : batches[b] \in Seq(Elements(fs))
  <2> DEFINE X == Seq(Elements(fs))
  <2>1. batches \in Seq(X)
    BY <1>2
  <2> HIDE DEF X
  <2>2. DOMAIN batches = 1 .. Len(batches) /\ Len(batches) \in Nat /\ \A b \in DOMAIN batches : batches[b] \in X
    BY <2>1, ElementOfSeq, LenProperties
  <2> QED
    BY <2>2 DEF X
<1>4. ASSUME NEW b \in DOMAIN batches PROVE Elements(batches[b]) \subseteq Elements(fs)
  BY <1>3, SequenceElements
<1> QED
  BY <1>2, <1>3, <1>4 DEF fs

\* Each action keeps the value invariant: a new group.
LEMMA GroupKeepsValues == ASSUME PlanInv, ValueInv, BeginGroup PROVE ValueInv'
<1> DEFINE group == Head(groups)
           B == GroupBatches
<1>1. /\ stage = "group" /\ stage' = "begin" /\ queue' = B
      /\ split' = ProviderBatches(group.factors, run.factorBatch)
      /\ UNCHANGED <<run, groups, states, results, buffer, written>>
  BY DEF BeginGroup, batchVars, GroupBatches
<1>2. run \in Runs /\ groups \in Seq(GroupsFrom(run.factors)) /\ groups # <<>> /\ Targets # {}
  BY <1>1 DEF PlanInv, ValueInv, GroupsOk
<1>3. BatchesOf(B, GroupDates, group) /\ group = groups[1] /\ 1 \in DOMAIN groups
  BY <1>2, GroupBatchesAre, HeadGroup
<1>4. /\ B \in Seq(Seq(OpenDates)) /\ B # <<>> /\ Len(B) \in Nat /\ GroupDates \in Seq(OpenDates)
      /\ \A d \in Targets : \E i \in DOMAIN B : d \in Elements(B[i])
      /\ DOMAIN B = 1 .. Len(B)
  BY <1>3 DEF BatchesOf
<1>5. Targets' = Targets /\ GroupDates' = GroupDates /\ GroupBatches' = B
  BY <1>1, GroupFrame
<1>6. Passed' = 0
  <2>1. Passed' = Len(B) - Len(B)
    BY <1>1, <1>5 DEF Passed
  <2> QED
    BY <1>4, <2>1
<1>7. GroupsOk'
  BY <1>1, <1>5 DEF ValueInv, GroupsOk
<1>8. PlaceOk'
  <2>1. QueueOk'
    <3>1. \A i \in DOMAIN queue' : queue'[i] = B[0 + i]
      BY <1>1, <1>4
    <3> QED
      BY <1>1, <1>4, <1>5, <1>6, <3>1 DEF QueueOk
  <2> QED
    BY <1>1, <2>1 DEF PlaceOk, InBatch
<1>9. ReachOk'
  BY <1>1 DEF ReachOk
<1>10. SeenOk'
  <2>1. \A p : Seen(p)' = Seen(p)
    BY <1>1 DEF Seen
  <2>2. \A i \in DOMAIN groups : Fresh(groups[i])
    BY <1>1 DEF ValueInv, SeenOk
  <2>3. \A i \in DOMAIN groups : Fresh(groups[i])'
    BY <1>1, <2>1, <2>2 DEF Fresh
  <2>4. StreamsOk'
    <3>1. \A b \in DOMAIN split' : Elements(split'[b]) \subseteq Elements(group.factors)
      BY <1>1, <1>2, SplitIs
    <3>2. \A b : SeenByBatch(b)' = <<>>
      <4>1. \A b : ~Reached(b)'
        BY <1>1 DEF Reached, InBatch
      <4>2. SubSeq(GroupDates, 1, 0) = <<>>
        <5> DEFINE D == GroupDates
        <5> HIDE DEF D
        <5> SUFFICES SubSeq(D, 1, 0) = <<>>
          BY DEF D
        <5> QED
          OBVIOUS
      <4> QED
        BY <1>5, <1>6, <4>1, <4>2 DEF SeenByBatch
    <3>3. \A f \in Elements(group.factors) : Seen(ProviderOf(f))' = <<>>
      BY <1>3, <2>1, <2>2 DEF Fresh
    <3> QED
      BY <3>1, <3>2, <3>3 DEF StreamsOk
  <2> QED
    BY <1>1, <2>3, <2>4 DEF SeenOk
<1>11. ValuesOk'
  BY <1>1, MadeFrame DEF ValueInv, ValuesOk
<1>12. AccountOk'
  <2> SUFFICES ASSUME NEW f \in Elements(run.factors), NEW d \in Targets PROVE Accounted(f, d)'
    BY <1>1, <1>5 DEF AccountOk
  <2>1. LaterGroup(f) \/ Held(f, d)
    BY <1>1 DEF ValueInv, AccountOk, Accounted, LaterDate, LaterTurn, Dividing, InBatch
  <2>2. CASE Held(f, d)
    BY <1>1, <2>2 DEF Held, Accounted
  <2>3. CASE LaterGroup(f)
    <3>1. PICK i \in DOMAIN groups : f \in Elements(groups[i].factors)
      BY <2>3 DEF LaterGroup
    <3>2. CASE i > 1
      BY <1>1, <3>1, <3>2 DEF LaterGroup, Accounted
    <3>3. CASE ~(i > 1)
      <4>1. i = 1
        <5>1. i \in Nat /\ i >= 1
          BY <1>2, SequenceElements
        <5> QED
          BY <3>3, <5>1
      <4>2. f \in Elements(group.factors)
        BY <1>3, <3>1, <4>1
      <4>3. \E k \in DOMAIN queue' : d \in Elements(queue'[k])
        BY <1>1, <1>4
      <4>4. LaterDate(f, d)'
        BY <1>1, <4>2, <4>3 DEF LaterDate, Dividing
      <4> QED
        BY <4>4 DEF Accounted
    <3> QED
      BY <3>2, <3>3
  <2> QED
    BY <2>1, <2>2, <2>3
<1> QED
  BY <1>7, <1>8, <1>9, <1>10, <1>11, <1>12 DEF ValueInv

\* A new date batch.
LEMMA BatchKeepsValues == ASSUME PlanInv, ValueInv, BeginBatch PROVE ValueInv'
<1> DEFINE group == Head(groups)
<1>1. /\ stage = "begin" /\ stage' = "sources" /\ turn' = 1
      /\ work' = DateWork(group.factors, BatchContext(group, Head(queue), Targets))
      /\ UNCHANGED <<run, groups, queue, split, states, results, buffer, written>>
  BY DEF BeginBatch
<1>2. /\ run \in Runs /\ groups \in Seq(GroupsFrom(run.factors)) /\ groups # <<>> /\ Targets # {}
      /\ QueueOk /\ split = ProviderBatches(group.factors, run.factorBatch)
  BY <1>1 DEF PlanInv, ValueInv, GroupsOk, PlaceOk, Dividing
<1>3. Targets' = Targets /\ GroupDates' = GroupDates /\ Passed' = Passed /\ QueueOk'
  BY <1>1, <1>2, GroupFrame, QueueFrame
<1>4. DOMAIN split = 1 .. Len(split) /\ Len(split) \in Nat /\ Separate(split, group.factors)
  BY <1>2, SplitIs
<1>5. GroupsOk'
  BY <1>1, <1>3 DEF ValueInv, GroupsOk
<1>6. PlaceOk'
  <2>1. Context' = BatchContext(group, Head(queue), Targets)
    <3> DEFINE context == BatchContext(group, Head(queue), Targets)
    <3>1. work'.context = context
      <4> HIDE DEF context
      <4> QED
        BY <1>1 DEF DateWork, context
    <3> QED
      BY <3>1 DEF Context
  <2> QED
    BY <1>1, <1>2, <1>3, <2>1 DEF PlaceOk
<1>7. ReachOk'
  BY <1>1 DEF ReachOk
<1>8. SeenOk'
  <2>1. \A p : Seen(p)' = Seen(p)
    BY <1>1 DEF Seen
  <2>2. \A g : Fresh(g)' = Fresh(g)
    BY <2>1 DEF Fresh
  <2>3. \A b \in DOMAIN split : SeenByBatch(b)' = SeenByBatch(b)
    <3>1. \A b \in DOMAIN split : ~(b < 1)
      BY <1>4
    <3>2. \A b \in DOMAIN split : ~Reached(b) /\ ~Reached(b)'
      BY <1>1, <3>1 DEF Reached, InBatch
    <3> QED
      BY <1>3, <3>2 DEF SeenByBatch
  <2>4. StreamsOk => StreamsOk'
    BY <1>1, <2>1, <2>3 DEF StreamsOk
  <2> QED
    BY <1>1, <2>2, <2>4 DEF ValueInv, SeenOk, Dividing
<1>9. ValuesOk'
  BY <1>1, MadeFrame DEF ValueInv, ValuesOk
<1>10. AccountOk'
  <2> SUFFICES ASSUME NEW f \in Elements(run.factors), NEW d \in Targets PROVE Accounted(f, d)'
    BY <1>1, <1>3 DEF AccountOk
  <2>1. LaterGroup(f) \/ LaterDate(f, d) \/ Held(f, d)
    BY <1>1 DEF ValueInv, AccountOk, Accounted, LaterTurn, InBatch
  <2>2. CASE Held(f, d)
    BY <1>1, <2>2 DEF Held, Accounted
  <2>3. CASE LaterGroup(f)
    BY <1>1, <2>3 DEF LaterGroup, Accounted
  <2>4. CASE LaterDate(f, d)
    <3>1. PICK i \in DOMAIN queue : d \in Elements(queue[i]) /\ f \in Elements(group.factors)
      BY <2>4 DEF LaterDate
    <3>2. CASE i > 1
      BY <1>1, <3>1, <3>2 DEF LaterDate, Accounted, Dividing
    <3>3. CASE ~(i > 1)
      <4>1. i = 1 /\ Head(queue) = queue[1]
        <5>1. i \in Nat /\ i >= 1 /\ Head(queue) = queue[1]
          BY <1>2, QueueIs
        <5> QED
          BY <3>3, <5>1
      <4>2. PICK b \in DOMAIN split : f \in Elements(split[b])
        BY <1>4, <3>1 DEF Separate
      <4>3. b > 1 \/ b = 1
        BY <1>4
      <4>4. LaterTurn(f, d)'
        BY <1>1, <3>1, <4>1, <4>2, <4>3 DEF LaterTurn, InBatch
      <4> QED
        BY <4>4 DEF Accounted
    <3> QED
      BY <3>2, <3>3
  <2> QED
    BY <2>1, <2>2, <2>3, <2>4
<1> QED
  BY <1>5, <1>6, <1>7, <1>8, <1>9, <1>10 DEF ValueInv

\* Steps inside a provider batch, before its factors are computed.
LEMMA LoadKeepsRest ==
  ASSUME PlanInv, ValueInv, stage \in {"sources", "load", "view"}, stage' \in {"load", "view", "compute"},
         UNCHANGED <<run, groups, queue, split, work, turn, results, buffer, written>>
  PROVE  GroupsOk' /\ PlaceOk' /\ ValuesOk' /\ AccountOk'
<1>1. Targets' = Targets /\ QueueOk' = QueueOk /\ Context' = Context
  BY GroupFrame, QueueFrame DEF Context
<1>2. GroupsOk'
  BY <1>1 DEF ValueInv, GroupsOk
<1>3. PlaceOk'
  BY <1>1 DEF ValueInv, PlaceOk, Dividing, InBatch
<1>4. ValuesOk'
  BY MadeFrame DEF ValueInv, ValuesOk
<1>5. AccountOk'
  <2> SUFFICES ASSUME NEW f \in Elements(run.factors), NEW d \in Targets PROVE Accounted(f, d)'
    BY <1>1 DEF AccountOk
  <2>1. LaterGroup(f) => LaterGroup(f)'
    BY DEF LaterGroup
  <2>2. LaterDate(f, d) => LaterDate(f, d)'
    BY DEF LaterDate, Dividing
  <2>3. LaterTurn(f, d) => LaterTurn(f, d)'
    BY DEF LaterTurn, InBatch
  <2>4. Held(f, d) => Held(f, d)'
    BY DEF Held
  <2> QED
    BY <2>1, <2>2, <2>3, <2>4 DEF ValueInv, AccountOk, Accounted
<1> QED
  BY <1>2, <1>3, <1>4, <1>5

\* Before a batch is given its views, a streaming provider has seen nothing more.
LEMMA LoadKeepsSeen ==
  ASSUME ValueInv, stage \in {"sources", "load"}, stage' \in {"load", "view"},
         UNCHANGED <<run, groups, queue, split, turn, states>>
  PROVE  SeenOk'
<1>1. GroupDates' = GroupDates /\ Passed' = Passed
  BY GroupFrame, QueueFrame
<1>2. \A p : Seen(p)' = Seen(p)
  BY DEF Seen
<1>3. \A g : Fresh(g)' = Fresh(g)
  BY <1>2 DEF Fresh
<1>4. \A b : SeenByBatch(b)' = SeenByBatch(b)
  <2>1. \A b : Reached(b)' = Reached(b)
    BY DEF Reached, InBatch
  <2> QED
    BY <1>1, <2>1 DEF SeenByBatch
<1>5. StreamsOk' = StreamsOk
  BY <1>2, <1>4 DEF StreamsOk
<1> QED
  BY <1>3, <1>5 DEF ValueInv, SeenOk, Dividing

\* Loading what provider batches share.
LEMMA SharedKeepsValues == ASSUME PlanInv, ValueInv, LoadShared PROVE ValueInv'
<1>1. /\ stage = "sources" /\ stage' = "load"
      /\ UNCHANGED <<run, groups, queue, split, work, turn, states, results, buffer, written>>
  BY DEF LoadShared, planVars
<1>2. GroupsOk' /\ PlaceOk' /\ ValuesOk' /\ AccountOk' /\ SeenOk'
  BY <1>1, LoadKeepsRest, LoadKeepsSeen
<1>3. ReachOk'
  BY <1>1 DEF ReachOk
<1> QED
  BY <1>2, <1>3 DEF ValueInv

\* Loading what one of them needs.
LEMMA LoadKeepsValues == ASSUME PlanInv, ValueInv, LoadBatch PROVE ValueInv'
<1> DEFINE loaded == IF inputs = None THEN LoadInputs(Batch.requests, Context, FALSE)
                     ELSE LoadFromBatchInputs(inputs, Batch.requests, Context)
<1>1. /\ stage = "load" /\ stage' = "view"
      /\ pool' = [loaded EXCEPT !.raw = RawDates]
      /\ UNCHANGED <<run, groups, queue, split, work, turn, states, results, buffer, written>>
  BY DEF LoadBatch, planVars
<1>2. GroupsOk' /\ PlaceOk' /\ ValuesOk' /\ AccountOk' /\ SeenOk'
  BY <1>1, LoadKeepsRest, LoadKeepsSeen
<1>3. Batch' = Batch /\ Context' = Context /\ RawDates' = RawDates
  BY <1>1 DEF Batch, Context, RawDates
<1>4. Reaches(loaded, Batch.requests, Context)
  <2>1. CASE inputs = None
    BY <2>1, LoadedReaches
  <2>2. CASE inputs # None
    <3>1. SplitOk /\ WorkOk /\ InputsOk
      BY <1>1 DEF PlanInv, Dividing, Working
    <3>2. inputs = LoadReused(work.requests, split, Context) /\ Within(Batch.requests, work.requests)
      BY <2>2, <3>1, BatchWithin DEF InputsOk
    <3>3. Reaches(LoadFromBatchInputs(inputs, Batch.requests, Context), Batch.requests, Context)
      BY <3>2, SharedReaches
    <3> QED
      BY <2>2, <3>3
  <2> QED
    BY <2>1, <2>2
<1>5. pool'.minute = loaded.minute /\ pool'.universe = loaded.universe /\ pool'.raw = RawDates
  <2>1. loaded = [panels |-> loaded.panels, rows |-> loaded.rows, minute |-> loaded.minute,
                  raw |-> loaded.raw, universe |-> loaded.universe]
    BY DEF LoadInputs, LoadFromBatchInputs
  <2> HIDE DEF loaded
  <2> QED
    BY <1>1, <2>1
<1> HIDE DEF loaded
<1>6. ReachOk'
  <2>1. Reaches(pool', Batch.requests, Context)
    BY <1>4, <1>5 DEF Reaches
  <2> QED
    BY <1>1, <1>3, <1>5, <2>1 DEF ReachOk
<1> QED
  BY <1>2, <1>6 DEF ValueInv

\* The first k elements are the first k - 1 and the kth.
LEMMA NextElement ==
  ASSUME NEW X, NEW s \in Seq(X), NEW k \in 1 .. Len(s)
  PROVE  SubSeq(s, 1, k - 1) \o <<s[k]>> = SubSeq(s, 1, k)
<1> DEFINE a == SubSeq(s, 1, k - 1)
           b == SubSeq(s, 1, k)
           c == a \o <<s[k]>>
<1>1. Len(s) \in Nat /\ k \in Nat /\ k - 1 \in Nat /\ s[k] \in X
  BY LenProperties, ElementOfSeq
<1>2. /\ a \in Seq(X) /\ Len(a) = k - 1 /\ \A m \in 1 .. k - 1 : a[m] = s[m]
      /\ b \in Seq(X) /\ Len(b) = k /\ \A m \in 1 .. k : b[m] = s[m]
  <2>1. 1 \in Nat \ {0} /\ 1 <= (k - 1) + 1 /\ k - 1 <= Len(s) /\ 1 <= k + 1 /\ k <= Len(s)
    BY <1>1
  <2>2. /\ a \in Seq(X) /\ Len(a) = (k - 1) - 1 + 1 /\ \A m \in 1 .. (k - 1) - 1 + 1 : a[m] = s[1 + m - 1]
    BY <1>1, <2>1, SubSequence
  <2>3. /\ b \in Seq(X) /\ Len(b) = k - 1 + 1 /\ \A m \in 1 .. k - 1 + 1 : b[m] = s[1 + m - 1]
    BY <1>1, <2>1, SubSequence
  <2> HIDE DEF a, b
  <2> QED
    BY <1>1, <2>2, <2>3
<1>3. <<s[k]>> \in Seq(X) /\ Len(<<s[k]>>) = 1 /\ <<s[k]>>[1] = s[k]
  BY <1>1
<1> HIDE DEF a, b
<1>4. c \in Seq(X) /\ Len(c) = k /\ \A m \in 1 .. k : c[m] = IF m <= k - 1 THEN a[m] ELSE s[k]
  <2>1. /\ c \in Seq(X) /\ Len(c) = Len(a) + 1
        /\ \A m \in 1 .. Len(a) + 1 : c[m] = IF m <= Len(a) THEN a[m] ELSE <<s[k]>>[m - Len(a)]
    BY <1>2, <1>3, ConcatProperties
  <2> HIDE DEF c
  <2>2. Len(a) + 1 = k /\ Len(a) = k - 1
    BY <1>1, <1>2
  <2>3. ASSUME NEW m \in 1 .. k
        PROVE  c[m] = IF m <= k - 1 THEN a[m] ELSE s[k]
    <3>1. c[m] = IF m <= k - 1 THEN a[m] ELSE <<s[k]>>[m - (k - 1)]
      BY <2>1, <2>2
    <3>2. CASE m <= k - 1
      BY <3>1, <3>2
    <3>3. CASE ~(m <= k - 1)
      <4>1. m - (k - 1) = 1
        BY <1>1, <3>3
      <4> QED
        BY <1>3, <3>1, <3>3, <4>1
    <3> QED
      BY <3>2, <3>3
  <2> QED
    BY <2>1, <2>2, <2>3
<1> HIDE DEF c
<1>5. \A m \in 1 .. k : c[m] = b[m]
  BY <1>1, <1>2, <1>4
<1>6. c = b
  BY <1>2, <1>4, <1>5, SeqEqual
<1> QED
  BY <1>6 DEF c, a, b

\* A single date in order.
LEMMA SingleAscending ==
  ASSUME NEW d \in Nat
  PROVE  Ascending({d}) = <<d>>
<1>1. IsFiniteSet({d}) /\ {d} \subseteq Nat
  BY FS_Singleton
<1>2. <<d>> \in [1 .. 1 -> {d}]
  OBVIOUS
<1>3. \A i, j \in 1 .. 1 : i < j => <<d>>[i] < <<d>>[j]
  OBVIOUS
<1>4. \A x \in {d} : \E i \in 1 .. 1 : <<d>>[i] = x
  OBVIOUS
<1> DEFINE s == <<d>>
           S == {d}
           one == 1
<1>5. one \in Nat /\ s \in [1 .. one -> S] /\ (\A i, j \in 1 .. one : i < j => s[i] < s[j])
      /\ (\A x \in S : \E i \in 1 .. one : s[i] = x) /\ S \subseteq Nat /\ IsFiniteSet(S)
  BY <1>1, <1>2, <1>3, <1>4
<1> SUFFICES Ascending(S) = s
  OBVIOUS
<1> HIDE DEF s, S, one
<1> QED
  BY <1>5, AscendingUnique

\* What the streaming providers of the batch have seen with its views.
LEMMA SeenNext ==
  ASSUME MakeViews
  PROVE  LET S == {q \in DOMAIN Batch.providers : Provider(q).streams}
         IN  \A p : Seen(p)' = IF p \in S THEN Seen(p) \o Ascending(Provider(p).dates) ELSE Seen(p)
<1> DEFINE S == {q \in DOMAIN Batch.providers : Provider(q).streams}
           more == [p \in S |-> Seen(p) \o Ascending(Provider(p).dates)]
<1>1. states' = Overlaid(states, more)
  BY DEF MakeViews
<1>2. DOMAIN more = S /\ \A p \in S : more[p] = Seen(p) \o Ascending(Provider(p).dates)
  OBVIOUS
<1> HIDE DEF S, more
<1>3. OverlaidOf(states', states, more)
  BY <1>1, OverlaidIs
<1>4. ASSUME NEW p PROVE Seen(p)' = IF p \in S THEN Seen(p) \o Ascending(Provider(p).dates) ELSE Seen(p)
  <2>1. CASE p \in S
    <3>1. p \in DOMAIN states' /\ states'[p] = more[p]
      BY <1>2, <1>3, <2>1 DEF OverlaidOf
    <3>2. Seen(p)' = states'[p]
      BY <3>1 DEF Seen
    <3> QED
      BY <1>2, <2>1, <3>1, <3>2
  <2>2. CASE p \notin S
    <3>1. (p \in DOMAIN states' <=> p \in DOMAIN states) /\ (p \in DOMAIN states => states'[p] = states[p])
      BY <1>2, <1>3, <2>2 DEF OverlaidOf
    <3>2. Seen(p)' = Seen(p)
      BY <3>1 DEF Seen
    <3> QED
      BY <2>2, <3>2
  <2> QED
    BY <2>1, <2>2
<1> QED
  BY <1>4 DEF S

\* A provider that sees more has a streaming factor in the batch.
LEMMA StreamingProvider ==
  ASSUME run \in Runs, groups \in Seq(GroupsFrom(run.factors)), groups # <<>>, SplitOk, WorkOk,
         NEW p \in DOMAIN Batch.providers, Provider(p).streams
  PROVE  \E g \in Elements(split[turn]) : Factors[g].kind = "stream" /\ ProviderOf(g) = p
<1>1. Provider(p) = ProviderWork(split[turn], p, Context)
  BY TurnIs
<1>2. \E g \in ProviderFactors(split[turn], p) : Factors[g].kind = "stream"
  BY <1>1 DEF ProviderWork
<1> QED
  BY <1>2 DEF ProviderFactors, ProviderOf

\* In the batch of a streaming group its providers see one more date.
LEMMA StreamsGoOn ==
  ASSUME PlanInv, ValueInv, MakeViews, Head(groups).stage = "stream"
  PROVE  StreamsOk'
<1> DEFINE S == {q \in DOMAIN Batch.providers : Provider(q).streams}
           D == GroupDates
           k == Passed + 1
           group == Head(groups)
<1>1. /\ stage = "view" /\ stage' = "compute" /\ UNCHANGED <<run, groups, queue, split, work, turn>>
  BY DEF MakeViews, planVars
<1>2. /\ run \in Runs /\ groups \in Seq(GroupsFrom(run.factors)) /\ groups # <<>> /\ Targets # {}
      /\ SplitOk /\ WorkOk /\ QueueOk /\ Context = BatchContext(group, Head(queue), Targets)
      /\ split = ProviderBatches(group.factors, run.factorBatch) /\ StreamsOk
  BY <1>1 DEF PlanInv, ValueInv, GroupsOk, PlaceOk, SeenOk, Dividing, InBatch
<1>3. /\ GroupDates' = D /\ Passed' = Passed
  BY <1>1, GroupFrame, QueueFrame
<1>4. \A p : Seen(p)' = IF p \in S THEN Seen(p) \o Ascending(Provider(p).dates) ELSE Seen(p)
  BY SeenNext
<1>5. /\ DOMAIN split = 1 .. Len(split) /\ Len(split) \in Nat /\ turn \in DOMAIN split
      /\ Separate(split, group.factors)
  BY <1>2, SplitIs, TurnIs
<1>6. k \in 1 .. Len(D) /\ Passed = k - 1 /\ Head(queue) = <<D[k]>> /\ D[k] \in OpenDates /\ D \in Seq(OpenDates)
  <2>1. /\ DOMAIN GroupBatches = 1 .. Len(GroupBatches) /\ Len(GroupBatches) = Len(D) /\ D \in Seq(OpenDates)
        /\ \A i \in DOMAIN GroupBatches : GroupBatches[i] = <<D[i]>>
    BY <1>2, GroupBatchesAre DEF BatchesOf
  <2>2. k \in DOMAIN GroupBatches /\ Head(queue) = GroupBatches[k] /\ Passed \in Nat
    BY <1>2, QueueIs
  <2>3. D[k] \in OpenDates
    BY <2>1, <2>2, ElementOfSeq
  <2> QED
    BY <2>1, <2>2, <2>3
<1> SUFFICES ASSUME NEW b \in DOMAIN split, NEW f \in Elements(split[b])
             PROVE  Seen(ProviderOf(f))' = SeenByBatch(b)'
  BY <1>1 DEF StreamsOk
<1>7. Seen(ProviderOf(f)) = SeenByBatch(b)
  BY <1>2 DEF StreamsOk
<1>8. CASE b = turn
  <2> DEFINE p == ProviderOf(f)
             fs == split[turn]
  <2>1. /\ p \in DOMAIN Batch.providers /\ Provider(p) = ProviderWork(fs, p, Context) /\ fs \in Seq(DOMAIN Factors)
        /\ Elements(fs) \subseteq Elements(group.factors)
    BY <1>2, <1>8, TurnIs
  <2>2. \A g \in ProviderFactors(fs, p) : Factors[g].kind = "stream"
    BY <1>2, <2>1, HeadGroup DEF ProviderFactors
  <2>3. f \in ProviderFactors(fs, p)
    BY <1>8 DEF ProviderFactors, ProviderOf
  <2>4. p \in S
    BY <2>1, <2>2, <2>3 DEF ProviderWork
  <2>5. Provider(p).dates = {D[k]}
    <3>1. Provider(p).dates = ProviderDates(fs, p, Context) /\ Context = BatchContext(group, <<D[k]>>, Targets)
      <4>1. Provider(p).dates = ProviderDates(fs, p, Context)
        BY <2>1 DEF ProviderWork
      <4>2. Context = BatchContext(group, <<D[k]>>, Targets)
        BY <1>2, <1>6
      <4> QED
        BY <4>1, <4>2
    <3> DEFINE context == Context
               targets == Targets
               d == D[k]
    <3>2. context = BatchContext(group, <<d>>, targets) /\ d \in OpenDates /\ ProviderFactors(fs, p) # {}
          /\ group.stage = "stream"
      BY <1>6, <2>3, <3>1
    <3> HIDE DEF context, targets, d, fs, p, group
    <3>3. ProviderDates(fs, p, context) = {d}
      BY <2>1, <2>2, <3>2, StreamDate
    <3> QED
      BY <3>1, <3>3 DEF context, d
  <2>6. Seen(p) = SubSeq(D, 1, k - 1)
    <3>1. ~Reached(b) /\ Seen(p) = SeenByBatch(b)
      BY <1>1, <1>5, <1>7, <1>8 DEF Reached
    <3>2. SeenByBatch(b) = SubSeq(D, 1, Passed)
      BY <3>1 DEF SeenByBatch
    <3> QED
      BY <1>6, <3>1, <3>2
  <2>7. SeenByBatch(b)' = SubSeq(D, 1, k)
    BY <1>1, <1>3, <1>8 DEF SeenByBatch, Reached, InBatch
  <2>8. Ascending({D[k]}) = <<D[k]>>
    <3>1. D[k] \in Nat
      BY <1>6, CalendarAssumption
    <3> HIDE DEF D, k
    <3> QED
      BY <3>1, SingleAscending
  <2> HIDE DEF S, D, k, p
  <2>9. SubSeq(D, 1, k - 1) \o <<D[k]>> = SubSeq(D, 1, k)
    BY <1>6, NextElement
  <2>10. Seen(p)' = Seen(p) \o <<D[k]>>
    BY <1>4, <2>4, <2>5, <2>8
  <2> QED
    BY <2>6, <2>7, <2>9, <2>10 DEF p
<1>9. CASE b # turn
  <2>1. ProviderOf(f) \notin S
    <3> SUFFICES ASSUME ProviderOf(f) \in S PROVE FALSE
      OBVIOUS
    <3>1. PICK g \in Elements(split[turn]) : ProviderOf(g) = ProviderOf(f)
      BY <1>2, StreamingProvider
    <3> QED
      BY <1>5, <1>9, <3>1 DEF Separate
  <2>2. SeenByBatch(b)' = SeenByBatch(b)
    <3>1. Reached(b)' = Reached(b)
      BY <1>1, <1>9 DEF Reached, InBatch
    <3> QED
      BY <1>3, <3>1 DEF SeenByBatch
  <2> HIDE DEF S
  <2> QED
    BY <1>4, <1>7, <2>1, <2>2
<1> QED
  BY <1>8, <1>9

\* No other provider sees anything.
LEMMA FreshStays ==
  ASSUME PlanInv, ValueInv, MakeViews, NEW i \in DOMAIN groups, i > 1 \/ groups[i].stage # "stream"
  PROVE  Fresh(groups[i])'
<1> DEFINE S == {q \in DOMAIN Batch.providers : Provider(q).streams}
<1>1. stage = "view" /\ UNCHANGED groups
  BY DEF MakeViews, planVars
<1>2. /\ run \in Runs /\ groups \in Seq(GroupsFrom(run.factors)) /\ groups # <<>> /\ Apart(groups)
      /\ SplitOk /\ WorkOk /\ Fresh(groups[i])
  BY <1>1 DEF PlanInv, ValueInv, GroupsOk, SeenOk, Dividing
<1>3. \A p : Seen(p)' = IF p \in S THEN Seen(p) \o Ascending(Provider(p).dates) ELSE Seen(p)
  BY SeenNext
<1>4. ASSUME NEW f \in Elements(groups[i].factors), ProviderOf(f) \in S PROVE FALSE
  <2>1. PICK g \in Elements(split[turn]) : Factors[g].kind = "stream" /\ ProviderOf(g) = ProviderOf(f)
    BY <1>2, <1>4, StreamingProvider
  <2>2. /\ g \in Elements(groups[1].factors) /\ 1 \in DOMAIN groups
        /\ Factors[g].kind = groups[1].stage
    BY <1>2, <2>1, TurnIs, HeadGroup
  <2>3. groups[i].factors \in Seq(Elements(run.factors)) /\ run.factors \in Seq(DOMAIN Factors)
    BY <1>2, ElementOfSeq, LenProperties, RunFactors DEF GroupsFrom
  <2>4. f \in DOMAIN Factors /\ g \in DOMAIN Factors
    <3>1. Elements(groups[i].factors) \subseteq Elements(run.factors) /\ Elements(run.factors) \subseteq DOMAIN Factors
      BY <2>3, SequenceElements
    <3>2. split[turn] \in Seq(DOMAIN Factors)
      BY <1>2, TurnIs
    <3>3. Elements(split[turn]) \subseteq DOMAIN Factors
      <4> DEFINE fs == split[turn]
      <4>1. fs \in Seq(DOMAIN Factors)
        BY <3>2
      <4> SUFFICES Elements(fs) \subseteq DOMAIN Factors
        OBVIOUS
      <4> HIDE DEF fs
      <4> QED
        BY <4>1, SequenceElements
    <3> QED
      BY <1>4, <2>1, <3>1, <3>3
  <2>5. Factors[f].kind = "stream"
    BY <2>1, <2>4, StreamAssumption DEF ProviderOf
  <2>6. i = 1
    <3> SUFFICES ASSUME i # 1 PROVE FALSE
      OBVIOUS
    <3>1. Factors[f].provider # Factors[g].provider
      BY <1>2, <1>4, <2>1, <2>2, <2>5 DEF Apart, Streaming
    <3> QED
      BY <2>1, <3>1 DEF ProviderOf
  <2> QED
    BY <2>1, <2>2, <2>6
<1> HIDE DEF S
<1>5. \A f \in Elements(groups[i].factors) : Seen(ProviderOf(f))' = <<>>
  BY <1>2, <1>3, <1>4 DEF Fresh
<1> QED
  BY <1>1, <1>5 DEF Fresh

\* Making the views, when streaming states take in the date.
LEMMA ViewsKeepValues == ASSUME PlanInv, ValueInv, MakeViews PROVE ValueInv'
<1>1. /\ stage = "view" /\ stage' = "compute"
      /\ views' = [p \in DOMAIN Batch.providers |-> ViewForRequests(pool, Provider(p).requests, Provider(p).dates)]
      /\ UNCHANGED <<run, groups, queue, split, work, turn, pool, results, buffer, written>>
  BY DEF MakeViews, planVars
<1>2. GroupsOk' /\ PlaceOk' /\ ValuesOk' /\ AccountOk'
  BY <1>1, LoadKeepsRest
<1>3. Batch' = Batch /\ Context' = Context /\ RawDates' = RawDates
  BY <1>1 DEF Batch, Context, RawDates
<1>4. ReachOk'
  <2>1. SplitOk /\ WorkOk /\ Reaches(pool, Batch.requests, Context) /\ pool.raw = RawDates
    BY <1>1 DEF PlanInv, ValueInv, ReachOk, Dividing
  <2>2. ASSUME NEW p \in DOMAIN Batch.providers PROVE ViewReaches(p)'
    <3> DEFINE some == Provider(p).requests
               dates == Provider(p).dates
               requests == Batch.requests
               context == Context
    <3>1. Within(some, requests)
      BY <2>1, BatchWithin
    <3>2. Reaches(pool, requests, context)
      BY <2>1
    <3>3. views'[p] = ViewForRequests(pool, some, dates)
      BY <1>1
    <3>4. Provider(p)' = Provider(p)
      BY <1>3 DEF Provider
    <3> HIDE DEF some, dates, requests, context
    <3>5. /\ "minute" \in DataOf(some) => context.load \subseteq views'[p].minute
          /\ views'[p].raw = pool.raw
          /\ Statement \in DataOf(some) => context.load \cap dates \subseteq views'[p].universe
      BY <3>1, <3>2, <3>3, ViewReached
    <3> QED
      BY <1>3, <2>1, <3>4, <3>5 DEF ViewReaches, some, dates, context
  <2>3. DOMAIN views' = DOMAIN Batch.providers
    BY <1>1
  <2> QED
    BY <1>1, <1>3, <2>2, <2>3 DEF ReachOk
<1>5. SeenOk'
  <2>1. Head(groups).stage = "stream" => StreamsOk'
    BY StreamsGoOn
  <2>2. \A i \in DOMAIN groups : i > 1 \/ groups[i].stage # "stream" => Fresh(groups[i])'
    BY FreshStays
  <2> QED
    BY <1>1, <2>1, <2>2 DEF SeenOk
<1> QED
  BY <1>2, <1>4, <1>5 DEF ValueInv

\* Computing a provider batch.
LEMMA ComputeKeepsValues == ASSUME PlanInv, ValueInv, Compute PROVE ValueInv'
<1> DEFINE keys == Batch.factors \X Context.targets
<1>1. /\ stage = "compute" /\ stage' = "write"
      /\ \A p \in DOMAIN Batch.providers : Unserved(p) = {}
      /\ results' = [key \in keys |-> ValueOf(key[1], key[2], views[Factors[key[1]].provider],
                                              SeenBy(Factors[key[1]].provider, key[1]))]
      /\ UNCHANGED <<run, groups, queue, split, work, turn, states, buffer, written, pool, views>>
  BY DEF Compute, planVars
<1>2. /\ run \in Runs /\ groups \in Seq(GroupsFrom(run.factors)) /\ groups # <<>> /\ Targets # {}
      /\ SplitOk /\ WorkOk /\ QueueOk
      /\ Context = BatchContext(Head(groups), Head(queue), Targets)
  BY <1>1 DEF PlanInv, ValueInv, GroupsOk, PlaceOk, Dividing, InBatch
<1>3. Targets' = Targets /\ GroupDates' = GroupDates /\ Passed' = Passed /\ QueueOk' = QueueOk
      /\ Context' = Context
  BY <1>1, GroupFrame, QueueFrame DEF Context
<1>4. Batch.factors = Elements(split[turn]) /\ Context.targets = Elements(Head(queue)) \cap Targets
  <2>1. 1 \in DOMAIN queue /\ Head(queue) = queue[1] /\ \A i \in DOMAIN queue : Ordered(queue[i])
    BY <1>2, QueueIs
  <2>2. Ordered(Head(queue))
    BY <2>1
  <2>3. ContextFor(Context, Head(groups), Head(queue), Targets)
    BY <1>2, <2>2, ContextIs
  <2> QED
    BY <1>2, <2>3, TurnIs DEF ContextFor
<1>5. GroupsOk'
  BY <1>1, <1>3 DEF ValueInv, GroupsOk
<1>6. PlaceOk'
  BY <1>1, <1>3 DEF ValueInv, PlaceOk, Dividing, InBatch
<1>7. ReachOk'
  BY <1>1 DEF ReachOk
<1>8. SeenOk'
  <2>1. \A p : Seen(p)' = Seen(p)
    BY <1>1 DEF Seen
  <2>2. \A g : Fresh(g)' = Fresh(g)
    BY <2>1 DEF Fresh
  <2>3. \A b : SeenByBatch(b)' = SeenByBatch(b)
    <3>1. \A b : Reached(b)' = Reached(b)
      BY <1>1 DEF Reached, InBatch
    <3> QED
      BY <1>3, <3>1 DEF SeenByBatch
  <2>4. StreamsOk' = StreamsOk
    BY <1>1, <2>1, <2>3 DEF StreamsOk
  <2> QED
    BY <1>1, <2>2, <2>4 DEF ValueInv, SeenOk, Dividing
<1>9. ValuesOk'
  <2>1. ASSUME NEW f \in Batch.factors, NEW d \in Context.targets
        PROVE  /\ results'[<<f, d>>] = Alone(f, d)
               /\ f \in Elements(run.factors) /\ d \in Targets
    <3>1. /\ ValueOf(f, d, views[ProviderOf(f)], SeenBy(ProviderOf(f), f)) = Alone(f, d)
          /\ f \in Elements(run.factors) /\ d \in Targets
      BY <1>1, ComputedAlone DEF ValueInv
    <3>2. <<f, d>> \in keys /\ <<f, d>>[1] = f /\ <<f, d>>[2] = d
      OBVIOUS
    <3>3. results'[<<f, d>>] = ValueOf(f, d, views[ProviderOf(f)], SeenBy(ProviderOf(f), f))
      <4> HIDE DEF keys
      <4> QED
        BY <1>1, <3>2 DEF ProviderOf
    <3> QED
      BY <3>1, <3>3
  <2>2. DOMAIN results' = keys
    BY <1>1
  <2>3. Made(results)'
    <3>1. ASSUME NEW key \in keys
          PROVE  key \in Elements(run.factors) \X Targets /\ results'[key] = Alone(key[1], key[2])
      <4>1. PICK f \in Batch.factors, d \in Context.targets : key = <<f, d>>
        OBVIOUS
      <4>2. key[1] = f /\ key[2] = d
        BY <4>1
      <4> QED
        BY <2>1, <4>1, <4>2
    <3>2. \A f, d : Alone(f, d)' = Alone(f, d)
      OBVIOUS
    <3> HIDE DEF keys
    <3> QED
      BY <1>1, <1>3, <2>2, <3>1 DEF Made
  <2> QED
    BY <1>1, <2>3, MadeFrame DEF ValueInv, ValuesOk
<1>10. AccountOk'
  <2> SUFFICES ASSUME NEW f \in Elements(run.factors), NEW d \in Targets PROVE Accounted(f, d)'
    BY <1>1, <1>3 DEF AccountOk
  <2>1. LaterGroup(f) \/ LaterDate(f, d) \/ LaterTurn(f, d) \/ Held(f, d)
    BY <1>1 DEF ValueInv, AccountOk, Accounted
  <2>2. CASE LaterGroup(f)
    BY <1>1, <2>2 DEF LaterGroup, Accounted
  <2>3. CASE LaterDate(f, d)
    BY <1>1, <2>3 DEF LaterDate, Accounted, Dividing
  <2>4. CASE Held(f, d)
    <3>1. DOMAIN results = {}
      BY <1>1 DEF ValueInv, ValuesOk
    <3> QED
      BY <1>1, <2>4, <3>1 DEF Held, Accounted
  <2>5. CASE LaterTurn(f, d)
    <3>1. PICK b \in DOMAIN split : f \in Elements(split[b]) /\ (b > turn \/ b = turn)
      BY <2>5 DEF LaterTurn
    <3>2. d \in Elements(Head(queue))
      BY <2>5 DEF LaterTurn
    <3>3. CASE b > turn
      BY <1>1, <3>1, <3>2, <3>3 DEF LaterTurn, Accounted, InBatch
    <3>4. CASE b = turn
      <4>1. <<f, d>> \in keys
        BY <1>4, <3>1, <3>2, <3>4
      <4>2. DOMAIN results' = keys
        BY <1>1
      <4> QED
        BY <4>1, <4>2 DEF Held, Accounted
    <3> QED
      BY <3>1, <3>3, <3>4
  <2> QED
    BY <2>1, <2>2, <2>3, <2>4, <2>5
<1> QED
  BY <1>5, <1>6, <1>7, <1>8, <1>9, <1>10 DEF ValueInv

\* Failing to.
LEMMA FailKeepsValues == ASSUME PlanInv, ValueInv, Fail PROVE ValueInv'
<1>1. /\ stage = "compute" /\ stage' = "failed" /\ UNCHANGED <<run, groups, results, buffer, written>>
  BY DEF Fail, planVars, batchVars
<1>2. GroupsOk'
  BY <1>1, GroupFrame DEF ValueInv, GroupsOk
<1>3. ValuesOk'
  BY <1>1, MadeFrame DEF ValueInv, ValuesOk
<1> QED
  BY <1>1, <1>2, <1>3 DEF ValueInv, PlaceOk, ReachOk, SeenOk, AccountOk, Dividing, InBatch

\* Values made apart and put together are as they should be.
LEMMA MadeOverlaid ==
  ASSUME NEW s, NEW t, Made(s), Made(t)
  PROVE  Made(Overlaid(s, t)) /\ DOMAIN Overlaid(s, t) = DOMAIN s \cup DOMAIN t
<1> DEFINE u == Overlaid(s, t)
<1>1. OverlaidOf(u, s, t)
  BY OverlaidIs
<1> SUFFICES Made(u) /\ DOMAIN u = DOMAIN s \cup DOMAIN t
  OBVIOUS
<1> HIDE DEF u
<1> QED
  BY <1>1 DEF OverlaidOf, Made

\* The values of a batch are written or kept: none is lost.
LEMMA WrittenHeld ==
  ASSUME ValueInv, WriteResults \/ KeepResults \/ WriteFullBuffer
  PROVE  /\ Made(results)' /\ Made(buffer)' /\ Made(written)' /\ DOMAIN results' = {}
         /\ \A f, d : Held(f, d) => Held(f, d)'
<1>1. /\ results' = NoValues /\ UNCHANGED run
      /\ \/ written' = Overlaid(written, results) /\ buffer' = buffer
         \/ buffer' = Overlaid(buffer, results) /\ written' = written
         \/ written' = Overlaid(written, Overlaid(buffer, results)) /\ buffer' = NoValues
  BY DEF WriteResults, KeepResults, WriteFullBuffer, Cleared
<1>2. Made(results) /\ Made(buffer) /\ Made(written)
  BY DEF ValueInv, ValuesOk
<1>3. DOMAIN NoValues = {}
  BY DEF NoValues
<1>4. Made(NoValues)
  BY <1>3 DEF Made
<1>5. /\ Made(Overlaid(written, results)) /\ DOMAIN Overlaid(written, results) = DOMAIN written \cup DOMAIN results
      /\ Made(Overlaid(buffer, results)) /\ DOMAIN Overlaid(buffer, results) = DOMAIN buffer \cup DOMAIN results
  BY <1>2, MadeOverlaid
<1>6. /\ Made(Overlaid(written, Overlaid(buffer, results)))
      /\ DOMAIN Overlaid(written, Overlaid(buffer, results)) = DOMAIN written \cup DOMAIN buffer \cup DOMAIN results
  <2> DEFINE both == Overlaid(buffer, results)
  <2>1. Made(both) /\ DOMAIN both = DOMAIN buffer \cup DOMAIN results
    BY <1>5
  <2> HIDE DEF both
  <2>2. Made(Overlaid(written, both)) /\ DOMAIN Overlaid(written, both) = DOMAIN written \cup DOMAIN both
    BY <1>2, <2>1, MadeOverlaid
  <2> QED
    BY <2>1, <2>2 DEF both
<1>7. Made(buffer') /\ Made(written') /\ Made(results')
  BY <1>1, <1>2, <1>4, <1>5, <1>6
<1>8. Targets' = Targets
  BY <1>1 DEF Targets
<1>9. Made(buffer)' /\ Made(written)' /\ Made(results)'
  BY <1>1, <1>7, <1>8 DEF Made
<1>10. DOMAIN results \cup DOMAIN buffer \cup DOMAIN written \subseteq DOMAIN buffer' \cup DOMAIN written'
  BY <1>1, <1>5, <1>6
<1> QED
  BY <1>1, <1>3, <1>9, <1>10 DEF Held

\* Keeping or writing the values.
LEMMA WriteKeepsValues ==
  ASSUME PlanInv, ValueInv, WriteResults \/ KeepResults \/ WriteFullBuffer
  PROVE  ValueInv'
<1>1. /\ stage = "write" /\ NextProviders
      /\ UNCHANGED <<run, groups, queue, split, work, states>>
  BY DEF WriteResults, KeepResults, WriteFullBuffer, Cleared
<1>2. /\ run \in Runs /\ groups \in Seq(GroupsFrom(run.factors)) /\ groups # <<>> /\ SplitOk /\ WorkOk
      /\ split = ProviderBatches(Head(groups).factors, run.factorBatch)
  BY <1>1 DEF PlanInv, ValueInv, PlaceOk, Dividing
<1>3. DOMAIN split = 1 .. Len(split) /\ Len(split) \in Nat /\ turn \in DOMAIN split
  BY <1>2, SplitIs, TurnIs
<1>4. \/ stage' = "load" /\ turn' = turn + 1
      \/ stage' = "finish" /\ turn' = turn /\ turn = Len(split)
  BY <1>1, <1>3 DEF NextProviders
<1>5. Targets' = Targets /\ GroupDates' = GroupDates /\ Passed' = Passed /\ QueueOk' = QueueOk
      /\ Context' = Context
  BY <1>1, GroupFrame, QueueFrame DEF Context
<1>6. GroupsOk'
  BY <1>1, <1>4, <1>5 DEF ValueInv, GroupsOk
<1>7. PlaceOk'
  BY <1>1, <1>4, <1>5 DEF ValueInv, PlaceOk, Dividing, InBatch
<1>8. ReachOk'
  BY <1>4 DEF ReachOk
<1>9. SeenOk'
  <2>1. \A p : Seen(p)' = Seen(p)
    BY <1>1 DEF Seen
  <2>2. \A g : Fresh(g)' = Fresh(g)
    BY <2>1 DEF Fresh
  <2>3. \A b \in DOMAIN split : SeenByBatch(b)' = SeenByBatch(b)
    <3>1. \A b \in DOMAIN split : b < turn + 1 <=> b < turn \/ b = turn
      BY <1>3
    <3>2. \A b \in DOMAIN split : ~(b = turn + 1 /\ stage' \in {"compute", "write", "finish"}) \/ stage' = "finish"
      BY <1>4
    <3>3. \A b \in DOMAIN split : Reached(b)' <=> Reached(b)
      BY <1>1, <1>4, <3>1, <3>2 DEF Reached, InBatch
    <3> QED
      BY <1>5, <3>3 DEF SeenByBatch
  <2>4. StreamsOk => StreamsOk'
    BY <1>1, <2>1, <2>3 DEF StreamsOk
  <2> QED
    BY <1>1, <1>4, <2>2, <2>4 DEF ValueInv, SeenOk, Dividing
<1>10. ValuesOk'
  BY <1>4, WrittenHeld DEF ValuesOk
<1>11. AccountOk'
  <2> SUFFICES ASSUME NEW f \in Elements(run.factors), NEW d \in Targets PROVE Accounted(f, d)'
    BY <1>1, <1>5 DEF AccountOk
  <2>1. LaterGroup(f) \/ LaterDate(f, d) \/ LaterTurn(f, d) \/ Held(f, d)
    BY <1>1 DEF ValueInv, AccountOk, Accounted
  <2>2. CASE LaterGroup(f)
    BY <1>1, <2>2 DEF LaterGroup, Accounted
  <2>3. CASE LaterDate(f, d)
    BY <1>1, <1>4, <2>3 DEF LaterDate, Accounted, Dividing
  <2>4. CASE Held(f, d)
    BY <2>4, WrittenHeld DEF Accounted
  <2>5. CASE LaterTurn(f, d)
    <3>1. PICK b \in DOMAIN split : f \in Elements(split[b]) /\ b > turn
      BY <1>1, <2>5 DEF LaterTurn
    <3>2. d \in Elements(Head(queue))
      BY <2>5 DEF LaterTurn
    <3>3. stage' = "load" /\ (b > turn' \/ b = turn')
      BY <1>3, <1>4, <3>1
    <3>4. LaterTurn(f, d)'
      BY <1>1, <3>1, <3>2, <3>3 DEF LaterTurn, InBatch
    <3> QED
      BY <3>4 DEF Accounted
  <2> QED
    BY <2>1, <2>2, <2>3, <2>4, <2>5
<1> QED
  BY <1>6, <1>7, <1>8, <1>9, <1>10, <1>11 DEF ValueInv

\* The end of a date batch: what was kept is written.
LEMMA FinishHeld ==
  ASSUME ValueInv, FinishBatch
  PROVE  /\ ValuesOk' /\ \A f, d : Held(f, d) => Held(f, d)'
<1>1. /\ stage = "finish" /\ stage' \in {"begin", "group", "done"}
      /\ written' = Overlaid(written, buffer) /\ buffer' = NoValues /\ UNCHANGED <<run, results>>
  BY DEF FinishBatch, NextDates
<1>2. Made(results) /\ Made(buffer) /\ Made(written) /\ DOMAIN results = {}
  BY <1>1 DEF ValueInv, ValuesOk
<1>3. DOMAIN NoValues = {}
  BY DEF NoValues
<1>4. Made(NoValues)
  BY <1>3 DEF Made
<1>5. Made(Overlaid(written, buffer)) /\ DOMAIN Overlaid(written, buffer) = DOMAIN written \cup DOMAIN buffer
  BY <1>2, MadeOverlaid
<1>6. Made(written') /\ Made(buffer') /\ Made(results')
  BY <1>1, <1>2, <1>4, <1>5
<1>7. Targets' = Targets
  BY <1>1 DEF Targets
<1>8. Made(written)' /\ Made(buffer)' /\ Made(results)'
  BY <1>1, <1>6, <1>7 DEF Made
<1>9. ValuesOk'
  BY <1>1, <1>2, <1>3, <1>8 DEF ValuesOk
<1>10. \A f, d : Held(f, d) => Held(f, d)'
  BY <1>1, <1>2, <1>5 DEF Held
<1> QED
  BY <1>9, <1>10

\* The rest of a sequence.
LEMMA TailIs ==
  ASSUME NEW X, NEW s \in Seq(X), s # <<>>
  PROVE  /\ Tail(s) \in Seq(X) /\ DOMAIN Tail(s) = 1 .. Len(s) - 1 /\ Len(Tail(s)) = Len(s) - 1
         /\ Len(s) \in Nat /\ Len(s) >= 1 /\ DOMAIN s = 1 .. Len(s)
         /\ \A i \in DOMAIN Tail(s) : Tail(s)[i] = s[i + 1] /\ i + 1 \in DOMAIN s /\ i + 1 > 1
         /\ \A i \in DOMAIN s : i > 1 => i - 1 \in DOMAIN Tail(s) /\ Tail(s)[i - 1] = s[i]
         /\ (Len(s) > 1 <=> Tail(s) # <<>>)
<1>1. /\ Tail(s) \in Seq(X) /\ Len(Tail(s)) = Len(s) - 1
      /\ \A i \in 1 .. Len(Tail(s)) : Tail(s)[i] = s[i + 1]
  BY HeadTailProperties
<1>2. Len(s) \in Nat /\ Len(s) >= 1 /\ DOMAIN s = 1 .. Len(s)
  BY SequenceElements
<1> DEFINE t == Tail(s)
           n == Len(s)
<1>3. DOMAIN t = 1 .. n - 1 /\ Len(t) = n - 1 /\ t \in Seq(X) /\ (t # <<>> <=> Len(t) >= 1)
  BY <1>1, SequenceElements
<1>4. \A i \in DOMAIN t : t[i] = s[i + 1] /\ i + 1 \in DOMAIN s /\ i + 1 > 1
  <2> HIDE DEF t, n
  <2>1. \A i \in 1 .. n - 1 : t[i] = s[i + 1]
    BY <1>1, <1>3 DEF t, n
  <2> QED
    BY <1>2, <1>3, <2>1 DEF n
<1>5. \A i \in DOMAIN s : i > 1 => i - 1 \in DOMAIN t /\ t[i - 1] = s[i]
  <2> SUFFICES ASSUME NEW i \in DOMAIN s, i > 1 PROVE i - 1 \in DOMAIN t /\ t[i - 1] = s[i]
    OBVIOUS
  <2>1. i - 1 \in DOMAIN t /\ (i - 1) + 1 = i
    BY <1>2, <1>3
  <2> HIDE DEF t
  <2> QED
    BY <1>4, <2>1
<1> HIDE DEF t, n
<1>6. n > 1 <=> t # <<>>
  BY <1>2, <1>3 DEF n
<1> QED
  BY <1>2, <1>3, <1>4, <1>5, <1>6 DEF t, n

\* The next date batch of the group.
LEMMA NextDatesKeepValues ==
  ASSUME PlanInv, ValueInv, FinishBatch, Len(queue) > 1
  PROVE  ValueInv'
<1> DEFINE rest == Tail(queue)
<1>1. /\ stage = "finish" /\ stage' = "begin" /\ queue' = rest
      /\ UNCHANGED <<run, groups, split, turn, states>>
  BY DEF FinishBatch, NextDates
<1>2. /\ run \in Runs /\ groups \in Seq(GroupsFrom(run.factors)) /\ groups # <<>> /\ Targets # {}
      /\ QueueOk /\ split = ProviderBatches(Head(groups).factors, run.factorBatch) /\ turn = Len(split)
  BY <1>1 DEF PlanInv, ValueInv, GroupsOk, PlaceOk, Dividing
<1>3. Targets' = Targets /\ GroupDates' = GroupDates /\ GroupBatches' = GroupBatches
  BY <1>1, GroupFrame
<1>4. DOMAIN split = 1 .. Len(split) /\ Len(split) \in Nat
  BY <1>2, SplitIs
<1>5. /\ rest \in Seq(Seq(OpenDates)) /\ rest # <<>> /\ Len(rest) = Len(queue) - 1 /\ Len(queue) \in Nat
      /\ DOMAIN rest = 1 .. Len(queue) - 1
      /\ \A i \in DOMAIN rest : rest[i] = queue[i + 1] /\ i + 1 \in DOMAIN queue /\ i + 1 > 1
      /\ \A i \in DOMAIN queue : i > 1 => i - 1 \in DOMAIN rest /\ rest[i - 1] = queue[i]
  <2> DEFINE X == Seq(OpenDates)
             q == queue
  <2>1. q \in Seq(X) /\ q # <<>> /\ Len(q) > 1
    BY <1>2 DEF QueueOk
  <2> HIDE DEF X
  <2>2. /\ Tail(q) \in Seq(X) /\ DOMAIN Tail(q) = 1 .. Len(q) - 1 /\ Len(Tail(q)) = Len(q) - 1
        /\ Len(q) \in Nat
        /\ \A i \in DOMAIN Tail(q) : Tail(q)[i] = q[i + 1] /\ i + 1 \in DOMAIN q /\ i + 1 > 1
        /\ \A i \in DOMAIN q : i > 1 => i - 1 \in DOMAIN Tail(q) /\ Tail(q)[i - 1] = q[i]
        /\ (Len(q) > 1 <=> Tail(q) # <<>>)
    BY <2>1, TailIs
  <2> QED
    BY <2>1, <2>2 DEF X
<1> HIDE DEF rest
<1>6. Passed' = Passed + 1 /\ Passed \in Nat
  <2> DEFINE n == Len(GroupBatches)
  <2>1. n \in Nat /\ Passed = n - Len(queue) /\ Passed' = n - Len(rest) /\ Passed \in Nat
    BY <1>1, <1>2, <1>3, GroupBatchesAre, QueueIs DEF BatchesOf, Passed
  <2> HIDE DEF n
  <2> QED
    BY <1>5, <2>1
<1>7. GroupsOk'
  BY <1>1, <1>2, <1>3 DEF ValueInv, GroupsOk
<1>8. PlaceOk'
  <2>1. ASSUME NEW i \in DOMAIN rest PROVE rest[i] = GroupBatches[Passed' + i]
    <3>1. rest[i] = GroupBatches[Passed + (i + 1)] /\ i \in Nat
      <4>1. rest[i] = queue[i + 1] /\ i + 1 \in DOMAIN queue
        BY <1>5
      <4>2. \A j \in DOMAIN queue : queue[j] = GroupBatches[Passed + j]
        BY <1>2 DEF QueueOk
      <4>3. i \in Nat
        BY <1>5
      <4> QED
        BY <4>1, <4>2, <4>3
    <3>2. Passed + (i + 1) = Passed' + i
      BY <1>6, <3>1
    <3> QED
      BY <3>1, <3>2
  <2>2. Len(rest) <= Len(GroupBatches)
    <3> DEFINE n == Len(GroupBatches)
    <3>1. n \in Nat /\ Len(queue) <= n
      BY <1>2, GroupBatchesAre DEF BatchesOf, QueueOk
    <3> HIDE DEF n
    <3>2. Len(rest) <= n
      BY <1>5, <3>1
    <3> QED
      BY <3>2 DEF n
  <2>3. QueueOk'
    BY <1>1, <1>3, <1>5, <2>1, <2>2 DEF QueueOk
  <2> QED
    BY <1>1, <1>2, <2>3 DEF PlaceOk, InBatch
<1>9. ReachOk'
  BY <1>1 DEF ReachOk
<1>10. SeenOk'
  <2>1. \A p : Seen(p)' = Seen(p)
    BY <1>1 DEF Seen
  <2>2. \A g : Fresh(g)' = Fresh(g)
    BY <2>1 DEF Fresh
  <2>3. \A b \in DOMAIN split : SeenByBatch(b)' = SeenByBatch(b)
    <3>1. \A b \in DOMAIN split : b < turn \/ b = turn
      BY <1>2, <1>4
    <3>2. \A b \in DOMAIN split : Reached(b) /\ ~Reached(b)'
      BY <1>1, <3>1 DEF Reached, InBatch
    <3> QED
      BY <1>3, <1>6, <3>2 DEF SeenByBatch
  <2>4. StreamsOk => StreamsOk'
    BY <1>1, <2>1, <2>3 DEF StreamsOk
  <2> QED
    BY <1>1, <2>2, <2>4 DEF ValueInv, SeenOk, Dividing
<1>11. AccountOk'
  <2> SUFFICES ASSUME NEW f \in Elements(run.factors), NEW d \in Targets PROVE Accounted(f, d)'
    BY <1>1, <1>3 DEF AccountOk
  <2>1. LaterGroup(f) \/ LaterDate(f, d) \/ LaterTurn(f, d) \/ Held(f, d)
    BY <1>1 DEF ValueInv, AccountOk, Accounted
  <2>2. CASE LaterGroup(f)
    BY <1>1, <2>2 DEF LaterGroup, Accounted
  <2>3. CASE LaterDate(f, d)
    <3>1. PICK i \in DOMAIN queue : i > 1 /\ d \in Elements(queue[i])
      BY <1>1, <2>3 DEF LaterDate
    <3>2. f \in Elements(Head(groups).factors)
      BY <2>3 DEF LaterDate
    <3>3. i - 1 \in DOMAIN rest /\ d \in Elements(rest[i - 1])
      BY <1>5, <3>1
    <3>4. LaterDate(f, d)'
      BY <1>1, <3>2, <3>3 DEF LaterDate, Dividing
    <3> QED
      BY <3>4 DEF Accounted
  <2>4. CASE Held(f, d)
    BY <2>4, FinishHeld DEF Accounted
  <2>5. ~LaterTurn(f, d)
    BY <1>1, <1>2, <1>4 DEF LaterTurn
  <2> QED
    BY <2>1, <2>2, <2>3, <2>4, <2>5
<1> QED
  BY <1>7, <1>8, <1>9, <1>10, <1>11, FinishHeld DEF ValueInv

\* The next group, or the end of the run.
LEMMA NextGroupKeepsValues ==
  ASSUME PlanInv, ValueInv, FinishBatch, ~(Len(queue) > 1)
  PROVE  ValueInv'
<1> DEFINE rest == Tail(groups)
<1>1. /\ stage = "finish" /\ groups' = rest /\ stage' = IF Len(groups) > 1 THEN "group" ELSE "done"
      /\ UNCHANGED <<run, states>>
  BY DEF FinishBatch, NextDates
<1>2. /\ run \in Runs /\ groups \in Seq(GroupsFrom(run.factors)) /\ groups # <<>> /\ Targets # {} /\ Apart(groups)
      /\ QueueOk /\ split = ProviderBatches(Head(groups).factors, run.factorBatch) /\ turn = Len(split)
  BY <1>1 DEF PlanInv, ValueInv, GroupsOk, PlaceOk, Dividing
<1>3. Targets' = Targets
  BY <1>1 DEF Targets
<1>4. DOMAIN split = 1 .. Len(split) /\ Len(split) \in Nat
  BY <1>2, SplitIs
<1>5. /\ DOMAIN rest = 1 .. Len(groups) - 1 /\ (Len(groups) > 1 <=> rest # <<>>)
      /\ Len(groups) \in Nat /\ DOMAIN groups = 1 .. Len(groups)
      /\ \A i \in DOMAIN rest : rest[i] = groups[i + 1] /\ i + 1 \in DOMAIN groups /\ i + 1 > 1
      /\ \A i \in DOMAIN groups : i > 1 => i - 1 \in DOMAIN rest /\ rest[i - 1] = groups[i]
  <2> DEFINE X == GroupsFrom(run.factors)
             s == groups
  <2>1. s \in Seq(X) /\ s # <<>>
    BY <1>2
  <2> HIDE DEF X
  <2> QED
    BY <2>1, TailIs
<1>6. Apart(rest)
  <2> DEFINE X == GroupsFrom(run.factors)
             list == groups
  <2>1. list \in Seq(X) /\ list # <<>> /\ Apart(list)
    BY <1>2
  <2> HIDE DEF X
  <2> QED
    BY <2>1, ApartTail
<1> HIDE DEF rest
<1>7. stage' \in {"group", "done"} /\ (stage' = "done" <=> rest = <<>>)
  BY <1>1, <1>5
<1>8. GroupsOk'
  BY <1>1, <1>2, <1>3, <1>6, <1>7 DEF GroupsOk
<1>9. PlaceOk' /\ ReachOk'
  BY <1>7 DEF PlaceOk, ReachOk, Dividing, InBatch
<1>10. SeenOk'
  <2>1. \A p : Seen(p)' = Seen(p)
    BY <1>1 DEF Seen
  <2>2. \A i \in DOMAIN groups : i > 1 => Fresh(groups[i])
    BY <1>1 DEF ValueInv, SeenOk
  <2>3. \A i \in DOMAIN rest : Fresh(rest[i])
    BY <1>5, <2>2
  <2>4. \A i \in DOMAIN groups' : Fresh(groups[i])'
    BY <1>1, <2>1, <2>3 DEF Fresh
  <2> QED
    BY <1>7, <2>4 DEF SeenOk, Dividing
<1>11. AccountOk'
  <2> SUFFICES ASSUME NEW f \in Elements(run.factors), NEW d \in Targets PROVE Accounted(f, d)'
    BY <1>1, <1>3 DEF AccountOk
  <2>1. LaterGroup(f) \/ LaterDate(f, d) \/ LaterTurn(f, d) \/ Held(f, d)
    BY <1>1 DEF ValueInv, AccountOk, Accounted
  <2>2. CASE LaterGroup(f)
    <3>1. PICK i \in DOMAIN groups : i > 1 /\ f \in Elements(groups[i].factors)
      BY <1>1, <2>2 DEF LaterGroup
    <3>2. i - 1 \in DOMAIN rest /\ f \in Elements(rest[i - 1].factors)
      BY <1>5, <3>1
    <3>3. stage' = "group"
      BY <1>1, <1>5, <3>1
    <3>4. LaterGroup(f)'
      BY <1>1, <3>2, <3>3 DEF LaterGroup
    <3> QED
      BY <3>4 DEF Accounted
  <2>3. ~LaterDate(f, d)
    <3> SUFFICES ASSUME NEW i \in DOMAIN queue, i > 1 PROVE FALSE
      BY <1>1 DEF LaterDate
    <3>1. Len(queue) \in Nat /\ DOMAIN queue = 1 .. Len(queue)
      BY <1>2, QueueIs
    <3> QED
      BY <3>1
  <2>4. CASE Held(f, d)
    BY <2>4, FinishHeld DEF Accounted
  <2>5. ~LaterTurn(f, d)
    BY <1>1, <1>2, <1>4 DEF LaterTurn
  <2> QED
    BY <2>1, <2>2, <2>3, <2>4, <2>5
<1> QED
  BY <1>8, <1>9, <1>10, <1>11, FinishHeld DEF ValueInv

\* The value invariant holds at first.
LEMMA InitValues == Init => ValueInv
<1> SUFFICES ASSUME Init PROVE ValueInv
  OBVIOUS
<1>1. /\ run \in Runs /\ states = [p \in {} |-> <<>>] /\ results = NoValues /\ buffer = NoValues /\ written = NoValues
      /\ groups = (IF Targets = {} THEN <<>> ELSE ExecutionGroups(run.factors))
      /\ stage = IF Targets = {} THEN "done" ELSE "group"
  BY DEF Init
<1>2. DOMAIN NoValues = {}
  BY DEF NoValues
<1>3. run.factors \in Seq(DOMAIN Factors) /\ run.factors # <<>>
  BY <1>1, RunFactors
<1>4. GroupsOk
  <2>1. CASE Targets = {}
    BY <1>1, <2>1 DEF GroupsOk, Apart
  <2>2. CASE Targets # {}
    BY <1>1, <1>3, <2>2, ExecutionGroupsApart DEF GroupsOk
  <2> QED
    BY <2>1, <2>2
<1>5. PlaceOk /\ ReachOk
  BY <1>1 DEF PlaceOk, ReachOk, Dividing, InBatch
<1>6. SeenOk
  <2>1. DOMAIN states = {}
    BY <1>1
  <2>2. \A p : Seen(p) = <<>>
    BY <2>1 DEF Seen
  <2> QED
    BY <1>1, <2>2 DEF SeenOk, Fresh, Dividing
<1>7. ValuesOk
  <2>1. Made(NoValues)
    BY <1>2 DEF Made
  <2> QED
    BY <1>1, <1>2, <2>1 DEF ValuesOk
<1>8. AccountOk
  <2> SUFFICES ASSUME NEW f \in Elements(run.factors), NEW d \in Targets PROVE LaterGroup(f)
    BY DEF AccountOk, Accounted
  <2>1. Includes(groups, f) /\ stage = "group"
    BY <1>1, <1>3, ExecutionGroupsAre
  <2>2. \E i \in DOMAIN groups : f \in Elements(groups[i].factors)
    BY <2>1 DEF Includes, Elements
  <2> QED
    BY <2>1, <2>2 DEF LaterGroup
<1> QED
  BY <1>4, <1>5, <1>6, <1>7, <1>8 DEF ValueInv

\* Every step keeps the value invariant.
LEMMA NextKeepsValues == PlanInv /\ ValueInv /\ [Next]_vars => ValueInv'
<1> SUFFICES ASSUME PlanInv, ValueInv, [Next]_vars PROVE ValueInv'
  OBVIOUS
<1>1. CASE UNCHANGED vars
  <2>1. UNCHANGED <<run, groups, queue, split, work, turn, stage, pool, views, states, results, buffer, written>>
    BY <1>1 DEF vars, planVars, batchVars
  <2> QED
    BY <2>1, SourcesKeepValues
<1>2. CASE \E y \in FileYears : UpdateFile(y) \/ StampYear(y) \/ LoadYear(y)
  <2>1. UNCHANGED <<run, groups, queue, split, work, turn, stage, pool, views, states, results, buffer, written>>
    BY <1>2 DEF UpdateFile, StampYear, LoadYear, planVars, batchVars
  <2> QED
    BY <2>1, SourcesKeepValues
<1>3. CASE BeginGroup \/ BeginBatch \/ LoadShared
  BY <1>3, GroupKeepsValues, BatchKeepsValues, SharedKeepsValues
<1>4. CASE LoadBatch \/ MakeViews \/ Compute \/ Fail
  BY <1>4, LoadKeepsValues, ViewsKeepValues, ComputeKeepsValues, FailKeepsValues
<1>5. CASE WriteResults \/ KeepResults \/ WriteFullBuffer
  BY <1>5, WriteKeepsValues
<1>6. CASE FinishBatch
  BY <1>6, NextDatesKeepValues, NextGroupKeepsValues
<1> QED
  BY <1>1, <1>2, <1>3, <1>4, <1>5, <1>6 DEF Next

\* Whatever the calendar, the registry, the run and its batch sizes: every value in the factor
\* files is what its factor computes alone, from the whole window of each of its inputs, and a
\* run that ends well has written each of its factors on each of its dates, and nothing else.
THEOREM ValuesComputedAlone == Spec => []ValuesAsAlone
<1>1. ValueInv => ValuesAsAlone
  <2> SUFFICES ASSUME ValueInv PROVE ValuesAsAlone
    OBVIOUS
  <2>1. Made(written)
    BY DEF ValueInv, ValuesOk
  <2>2. ASSUME stage = "done" PROVE Elements(run.factors) \X Targets \subseteq DOMAIN written
    <3>1. DOMAIN results = {} /\ DOMAIN buffer = {} /\ groups = <<>>
      BY <2>2 DEF ValueInv, ValuesOk, GroupsOk
    <3>2. DOMAIN groups = {}
      BY <3>1
    <3>3. ASSUME NEW f \in Elements(run.factors), NEW d \in Targets PROVE <<f, d>> \in DOMAIN written
      <4>1. Held(f, d)
        BY <2>2, <3>2 DEF ValueInv, AccountOk, Accounted, LaterGroup, LaterDate, LaterTurn, Dividing, InBatch
      <4> QED
        BY <3>1, <4>1 DEF Held
    <3> QED
      BY <3>3
  <2> QED
    BY <2>1, <2>2 DEF ValuesAsAlone, Made
<1> QED
  BY <1>1, InitPlan, NextKeepsPlan, InitValues, NextKeepsValues, PTL DEF Spec
=============================================================================
