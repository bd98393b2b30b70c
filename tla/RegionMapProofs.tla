-------------------------- MODULE RegionMapProofs ---------------------------
(***************************************************************************)
(* Proofs about RegionMap, for every extent, every set of values and any   *)
(* number of maps: the entries always divide the extent, a region_map      *)
(* implements a function on cells, and a query finds all it asks for.      *)
(***************************************************************************)
EXTENDS RegionMap, FiniteSetTheorems, WellFoundedInduction, TLAPS

\* The relation between cells and values that a set of entries stands for.
Holds(entries, x, v) == \E e \in entries : x \in e.region /\ e.value = v

\* The entries give no cell two values.
Functional(entries) ==
    \A x, v, w : Holds(entries, x, v) /\ Holds(entries, x, w) => v = w

\* The entries of one map divide the extent (the body of Partition).
Divides(entries) ==
    /\ Covered(entries) = Extent
    /\ \A e, g \in entries : e # g => e.region \cap g.region = {} /\ e.value # g.value

\* Collapsing keeps what each cell is mapped to (collapse_regions).
LEMMA CollapseHolds ==
    ASSUME NEW S \in SUBSET Entry, NEW x, NEW v
    PROVE  Holds(collapse_regions(S), x, v) <=> Holds(S, x, v)
<1>1. ASSUME Holds(collapse_regions(S), x, v) PROVE Holds(S, x, v)
  <2>1. PICK c \in collapse_regions(S) : x \in c.region /\ c.value = v
    BY <1>1 DEF Holds
  <2>2. PICK w \in {e.value : e \in S} :
           c = [region |-> Covered({e \in S : e.value = w}), value |-> w]
    BY <2>1 DEF collapse_regions
  <2>3. w = v /\ x \in Covered({e \in S : e.value = v})
    BY <2>1, <2>2
  <2> QED BY <2>3 DEF Holds, Covered
<1>2. ASSUME Holds(S, x, v) PROVE Holds(collapse_regions(S), x, v)
  <2>1. PICK e \in S : x \in e.region /\ e.value = v
    BY <1>2 DEF Holds
  <2> DEFINE c == [region |-> Covered({g \in S : g.value = v}), value |-> v]
  <2>2. c \in collapse_regions(S)
    BY <2>1 DEF collapse_regions
  <2>3. x \in c.region /\ c.value = v
    BY <2>1 DEF Covered
  <2> QED BY <2>2, <2>3 DEF Holds
<1> QED BY <1>1, <1>2

\* Collapsing gives well-formed entries, one per value (collapse_regions).
LEMMA CollapseType ==
    ASSUME NEW S \in SUBSET Entry
    PROVE  /\ collapse_regions(S) \in SUBSET Entry
           /\ \A e, g \in collapse_regions(S) : e.value = g.value => e = g
<1>1. ASSUME NEW c \in collapse_regions(S) PROVE c \in Entry
  <2>1. PICK g \in S :
           c = [region |-> Covered({e \in S : e.value = g.value}), value |-> g.value]
    BY DEF collapse_regions
  <2>2. g \in Entry /\ g.value \in Value /\ g.region # {} BY DEF Entry
  <2>3. Covered({e \in S : e.value = g.value}) \in SUBSET Extent BY DEF Covered, Entry
  <2>4. g.region \subseteq Covered({e \in S : e.value = g.value}) BY DEF Covered
  <2> QED BY <2>1, <2>2, <2>3, <2>4 DEF Entry
<1>2. ASSUME NEW e \in collapse_regions(S), NEW g \in collapse_regions(S), e.value = g.value
      PROVE  e = g
  <2> DEFINE One(v) == [region |-> Covered({h \in S : h.value = v}), value |-> v]
  <2>1. PICK v \in {h.value : h \in S} : e = One(v) BY DEF collapse_regions
  <2>2. PICK w \in {h.value : h \in S} : g = One(w) BY DEF collapse_regions
  <2>3. v = w BY <1>2, <2>1, <2>2
  <2> QED BY <2>1, <2>2, <2>3
<1> QED BY <1>1, <1>2

\* A cell is covered exactly when it has a value.
LEMMA CoveredHolds ==
    ASSUME NEW S, NEW x
    PROVE  x \in Covered(S) <=> \E v : Holds(S, x, v)
BY DEF Covered, Holds

\* A set of entries that covers the extent and gives no cell two values divides
\* the extent once it is collapsed.
LEMMA CollapseDivides ==
    ASSUME NEW S \in SUBSET Entry, Functional(S), Covered(S) = Extent
    PROVE  Divides(collapse_regions(S))
<1>1. Covered(collapse_regions(S)) = Extent
  <2>1. \A x : x \in Covered(collapse_regions(S)) <=> x \in Covered(S)
    BY CollapseHolds, CoveredHolds
  <2> QED BY <2>1
<1>2. ASSUME NEW e \in collapse_regions(S), NEW g \in collapse_regions(S), e # g
      PROVE  e.region \cap g.region = {} /\ e.value # g.value
  <2>1. e.value # g.value BY <1>2, CollapseType
  <2>2. ASSUME NEW x, x \in e.region, x \in g.region PROVE FALSE
    <3>1. Holds(collapse_regions(S), x, e.value) /\ Holds(collapse_regions(S), x, g.value)
      BY <2>2 DEF Holds
    <3>2. Holds(S, x, e.value) /\ Holds(S, x, g.value) BY <3>1, CollapseHolds
    <3> QED BY <3>2, <2>1 DEF Functional
  <2> QED BY <2>1, <2>2
<1> QED BY <1>1, <1>2 DEF Divides

\* Entries that divide the extent give no cell two values, nor do some of them.
LEMMA DividesFunctional ==
    ASSUME NEW S, Divides(S), NEW N \in SUBSET S
    PROVE  Functional(N)
BY DEF Divides, Functional, Holds

\* Overwriting gives the new cells their new value and leaves the others alone
\* (update_region before it collapses).
LEMMA OverwriteHolds ==
    ASSUME NEW S \in SUBSET Entry, NEW N \in SUBSET Entry, NEW x, NEW v
    PROVE  Holds(Overwrite(S, N), x, v) <=>
              \/ Holds(N, x, v)
              \/ x \notin Covered(N) /\ Holds(S, x, v)
<1> DEFINE R == Rest(S, Covered(N))
<1>1. R \in SUBSET Entry BY DEF Rest, Entry
<1>2. Holds(Overwrite(S, N), x, v) <=> Holds(R \cup N, x, v)
  BY <1>1, CollapseHolds DEF Overwrite
<1>3. Holds(R \cup N, x, v) <=> Holds(R, x, v) \/ Holds(N, x, v)
  BY DEF Holds
<1>4. Holds(R, x, v) <=> x \notin Covered(N) /\ Holds(S, x, v)
  <2>1. ASSUME Holds(R, x, v) PROVE x \notin Covered(N) /\ Holds(S, x, v)
    <3>1. PICK r \in R : x \in r.region /\ r.value = v BY <2>1 DEF Holds
    <3>2. PICK e \in S : r = [region |-> e.region \ Covered(N), value |-> e.value]
      BY DEF Rest
    <3> QED BY <3>1, <3>2 DEF Holds
  <2>2. ASSUME x \notin Covered(N), Holds(S, x, v) PROVE Holds(R, x, v)
    <3>1. PICK e \in S : x \in e.region /\ e.value = v BY <2>2 DEF Holds
    <3> DEFINE r == [region |-> e.region \ Covered(N), value |-> e.value]
    <3>2. r \in R BY <3>1, <2>2 DEF Rest
    <3>3. x \in r.region /\ r.value = v BY <3>1, <2>2
    <3> QED BY <3>2, <3>3 DEF Holds
  <2> QED BY <2>1, <2>2
<1> QED BY <1>2, <1>3, <1>4

\* Overwriting a division of the extent with entries that do not contradict each
\* other gives a division again (update_region, merge).
LEMMA OverwriteDivides ==
    ASSUME NEW S \in SUBSET Entry, NEW N \in SUBSET Entry, Divides(S), Functional(N)
    PROVE  Overwrite(S, N) \in SUBSET Entry /\ Divides(Overwrite(S, N))
<1> DEFINE R == Rest(S, Covered(N))
<1>1. R \cup N \in SUBSET Entry BY DEF Rest, Entry
<1>2. \A x, v : Holds(R \cup N, x, v) <=>
                  Holds(N, x, v) \/ (x \notin Covered(N) /\ Holds(S, x, v))
  BY <1>1, OverwriteHolds, CollapseHolds DEF Overwrite
<1>3. Functional(R \cup N)
  <2>1. Functional(S) BY DividesFunctional
  <2>2. \A x, v : Holds(N, x, v) => x \in Covered(N) BY CoveredHolds
  <2> QED BY <2>1, <2>2, <1>2 DEF Functional
<1>4. Covered(R \cup N) = Extent
  <2>1. \A x : x \in Covered(R \cup N) <=> x \in Covered(N) \/ x \in Covered(S)
    BY <1>2, CoveredHolds
  <2>2. Covered(N) \subseteq Extent BY DEF Covered, Entry
  <2> QED BY <2>1, <2>2 DEF Divides
<1> QED BY <1>1, <1>3, <1>4, CollapseDivides, CollapseType DEF Overwrite

\* What apply_to_values collapses covers the extent and gives no cell two values;
\* a cell's value is the functor's value of its old one.
LEMMA AppliedEntries ==
    ASSUME NEW S \in SUBSET Entry, Divides(S), NEW f \in [Value -> Value]
    PROVE  LET F == {[region |-> e.region, value |-> f[e.value]] : e \in S}
           IN  /\ F \in SUBSET Entry /\ Functional(F) /\ Covered(F) = Extent
               /\ \A x, v : Holds(S, x, v) => Holds(F, x, f[v])
<1> DEFINE F == {[region |-> e.region, value |-> f[e.value]] : e \in S}
<1>1. F \in SUBSET Entry BY DEF Entry
<1>2. \A x, v : Holds(S, x, v) => Holds(F, x, f[v])
  <2>1. ASSUME NEW x, NEW v, Holds(S, x, v) PROVE Holds(F, x, f[v])
    <3>1. PICK e \in S : x \in e.region /\ e.value = v BY <2>1 DEF Holds
    <3> DEFINE g == [region |-> e.region, value |-> f[e.value]]
    <3>2. g \in F /\ x \in g.region /\ g.value = f[v] BY <3>1
    <3> QED BY <3>2 DEF Holds
  <2> QED BY <2>1
<1>3. \A x, w : Holds(F, x, w) => \E v : Holds(S, x, v) /\ w = f[v]
  <2>1. ASSUME NEW x, NEW w, Holds(F, x, w) PROVE \E v : Holds(S, x, v) /\ w = f[v]
    <3>1. PICK g \in F : x \in g.region /\ g.value = w BY <2>1 DEF Holds
    <3>2. PICK e \in S : g = [region |-> e.region, value |-> f[e.value]] BY <3>1
    <3>3. Holds(S, x, e.value) /\ w = f[e.value] BY <3>1, <3>2 DEF Holds
    <3> QED BY <3>3
  <2> QED BY <2>1
<1>4. Functional(F)
  <2>1. Functional(S) BY DividesFunctional
  <2> QED BY <2>1, <1>3 DEF Functional
<1>5. Covered(F) = Extent
  <2>1. \A x : x \in Covered(F) <=> x \in Covered(S) BY <1>2, <1>3, CoveredHolds
  <2> QED BY <2>1 DEF Divides
<1> QED BY <1>1, <1>2, <1>4, <1>5

-----------------------------------------------------------------------------
IInv == TypeOK /\ Partition

\* Partition, one map at a time.
LEMMA PartitionDivides == Partition <=> \A m \in Map : Divides(region_values[m])
BY DEF Partition, Divides

\* A single new entry contradicts nothing (update_region).
LEMMA SingleEntry ==
    ASSUME NEW region \in (SUBSET Extent) \ {{}}, NEW v \in Value
    PROVE  LET N == {[region |-> region, value |-> v]}
           IN  N \in SUBSET Entry /\ Functional(N) /\ Covered(N) = region
BY DEF Entry, Functional, Holds, Covered

\* The constructor establishes the invariant.
LEMMA InitIInv == Init => IInv
<1> SUFFICES ASSUME Init PROVE IInv OBVIOUS
<1>1. ASSUME NEW m \in Map
      PROVE  region_values[m] \in SUBSET Entry /\ Divides(region_values[m])
  <2>1. PICK v \in Value : region_values[m] = {[region |-> Extent, value |-> v]}
    BY DEF Init
  <2> QED BY <2>1, ExtentAssumption DEF Entry, Divides, Covered
<1>2. \E T : region_values \in [Map -> T] BY DEF Init
<1>3. TypeOK BY <1>1, <1>2 DEF TypeOK, Init
<1> QED BY <1>1, <1>3, PartitionDivides DEF IInv

\* One map gets new entries that divide the extent, the others keep theirs.
LEMMA OneMapChanges ==
    ASSUME IInv, NEW m \in Map, NEW E \in SUBSET Entry, Divides(E),
           region_values' = [region_values EXCEPT ![m] = E],
           default_initialized' \in [Map -> SUBSET Extent]
    PROVE  IInv'
<1>1. TypeOK' BY DEF IInv, TypeOK
<1>2. \A k \in Map : Divides(region_values[k]) BY PartitionDivides DEF IInv
<1>3. \A k \in Map : region_values'[k] = IF k = m THEN E ELSE region_values[k]
  BY DEF IInv, TypeOK
<1>4. \A k \in Map : Divides(region_values'[k]) BY <1>2, <1>3
<1>5. Partition' BY <1>4 DEF Partition, Divides
<1> QED BY <1>1, <1>5 DEF IInv

\* Every operation preserves the invariant.
LEMMA NextIInv == IInv /\ [Next]_vars => IInv'
<1> SUFFICES ASSUME IInv, [Next]_vars PROVE IInv' OBVIOUS
<1>0. \A k \in Map : region_values[k] \in SUBSET Entry /\ Divides(region_values[k])
  BY PartitionDivides DEF IInv, TypeOK
<1>1. ASSUME NEW m \in Map, NEW region \in SUBSET Extent, NEW v \in Value,
             update_region(m, region, v)
      PROVE  IInv'
  <2> DEFINE N == {[region |-> region, value |-> v]}
  <2>1. N \in SUBSET Entry /\ Functional(N) BY <1>1, SingleEntry DEF update_region
  <2>2. Overwrite(region_values[m], N) \in SUBSET Entry /\ Divides(Overwrite(region_values[m], N))
    BY <1>0, <2>1, OverwriteDivides
  <2>3. region_values' = [region_values EXCEPT ![m] = Overwrite(region_values[m], N)]
    BY <1>1 DEF update_region
  <2>4. default_initialized' \in [Map -> SUBSET Extent]
    BY <1>1 DEF update_region, IInv, TypeOK
  <2> QED BY <2>2, <2>3, <2>4, OneMapChanges
<1>2. ASSUME NEW m \in Map, NEW f \in Functor, apply_to_values(m, f) PROVE IInv'
  <2> DEFINE F == {[region |-> e.region, value |-> f[e.value]] : e \in region_values[m]}
  <2>1. f \in [Value -> Value] BY FunctorAssumption
  <2>2. F \in SUBSET Entry /\ Functional(F) /\ Covered(F) = Extent
    BY <1>0, <2>1, AppliedEntries
  <2>3. collapse_regions(F) \in SUBSET Entry /\ Divides(collapse_regions(F))
    BY <2>2, CollapseType, CollapseDivides
  <2>4. region_values' = [region_values EXCEPT ![m] = collapse_regions(F)]
    BY <1>2 DEF apply_to_values
  <2>5. default_initialized' \in [Map -> SUBSET Extent]
    BY <1>2 DEF apply_to_values, IInv, TypeOK
  <2> QED BY <2>3, <2>4, <2>5, OneMapChanges
<1>3. ASSUME NEW m \in Map, NEW o \in Map, merge(m, o) PROVE IInv'
  <2> DEFINE N == UpdatedEntries(o)
             E == IF N = {} THEN region_values[m] ELSE Overwrite(region_values[m], N)
  <2>1. N \in SUBSET region_values[o] BY DEF UpdatedEntries
  <2>2. N \in SUBSET Entry /\ Functional(N) BY <1>0, <2>1, DividesFunctional
  <2>3. E \in SUBSET Entry /\ Divides(E) BY <1>0, <2>2, OverwriteDivides
  <2>4. region_values' = [region_values EXCEPT ![m] = E] BY <1>3 DEF merge, Merged
  <2>5. default_initialized' \in [Map -> SUBSET Extent]
    BY <1>3 DEF merge, IInv, TypeOK
  <2> HIDE DEF E
  <2> QED BY <2>3, <2>4, <2>5, OneMapChanges
<1>4. CASE UNCHANGED vars BY <1>4 DEF vars, IInv, TypeOK, Partition
<1> QED BY <1>1, <1>2, <1>3, <1>4 DEF Next

\* The entries are well formed and divide the extent after any sequence of
\* update_region, apply_to_values and merge.
THEOREM Invariance == Spec => []IInv
BY InitIInv, NextIInv, PTL DEF Spec

\* The type invariant of region_map's state.
THEOREM TypeCorrect == Spec => []TypeOK
<1>1. IInv => TypeOK BY DEF IInv
<1> QED BY <1>1, Invariance, PTL

\* Every cell has exactly one entry, and entries of one value are collapsed.
THEOREM PartitionHolds == Spec => []Partition
<1>1. IInv => Partition BY DEF IInv
<1> QED BY <1>1, Invariance, PTL

-----------------------------------------------------------------------------
\* In entries that divide the extent, the value of a cell is the one they hold.
LEMMA CellHolds ==
    ASSUME NEW S, Divides(S), NEW x \in Extent
    PROVE  /\ Holds(S, x, Cell(S, x))
           /\ \A v : Holds(S, x, v) => v = Cell(S, x)
<1>1. \E e \in S : x \in e.region BY DEF Divides, Covered
<1>2. Holds(S, x, Cell(S, x)) BY <1>1 DEF Holds, Cell
<1>3. Functional(S) BY DividesFunctional
<1> QED BY <1>2, <1>3 DEF Functional

\* What overwriting does to the value of a cell (update_region, merge).
LEMMA OverwriteCell ==
    ASSUME NEW S \in SUBSET Entry, NEW N \in SUBSET Entry, Divides(S), Functional(N),
           NEW x \in Extent
    PROVE  /\ \A v : Holds(N, x, v) => Cell(Overwrite(S, N), x) = v
           /\ x \notin Covered(N) => Cell(Overwrite(S, N), x) = Cell(S, x)
<1>1. Divides(Overwrite(S, N)) BY OverwriteDivides
<1>2. \A v : Holds(Overwrite(S, N), x, v) => v = Cell(Overwrite(S, N), x)
  BY <1>1, CellHolds
<1>3. \A v : Holds(N, x, v) => Cell(Overwrite(S, N), x) = v
  BY <1>2, OverwriteHolds
<1>4. x \notin Covered(N) => Cell(Overwrite(S, N), x) = Cell(S, x)
  BY <1>2, CellHolds, OverwriteHolds
<1> QED BY <1>3, <1>4

\* What apply_to_values does to the value of a cell.
LEMMA AppliedCell ==
    ASSUME NEW S \in SUBSET Entry, Divides(S), NEW f \in [Value -> Value], NEW x \in Extent
    PROVE  Cell(collapse_regions({[region |-> e.region, value |-> f[e.value]] : e \in S}), x)
              = f[Cell(S, x)]
<1> DEFINE F == {[region |-> e.region, value |-> f[e.value]] : e \in S}
<1>1. F \in SUBSET Entry /\ Functional(F) /\ Covered(F) = Extent BY AppliedEntries
<1>2. Holds(F, x, f[Cell(S, x)]) BY AppliedEntries, CellHolds
<1> HIDE DEF F
<1>3. Divides(collapse_regions(F)) BY <1>1, CollapseDivides
<1>4. Holds(collapse_regions(F), x, f[Cell(S, x)]) BY <1>1, <1>2, CollapseHolds
<1>5. f[Cell(S, x)] = Cell(collapse_regions(F), x) BY <1>3, <1>4, CellHolds
<1> QED BY <1>5 DEF F

\* The entries merge takes over cover the updated cells and hold their values when
\* no entry has both updated and default-initialized cells.
LEMMA MergedCells ==
    ASSUME NEW S \in SUBSET Entry, Divides(S), NEW D \in SUBSET Extent,
           \A e \in S : e.region \subseteq D \/ e.region \cap D = {}
    PROVE  LET N == {e \in S : D \cap e.region = {}}
           IN  /\ Covered(N) = Extent \ D
               /\ \A x \in Covered(N) : Holds(N, x, Cell(S, x))
<1> DEFINE N == {e \in S : D \cap e.region = {}}
<1>0. \A x \in Extent : Holds(S, x, Cell(S, x)) /\ \A v : Holds(S, x, v) => v = Cell(S, x)
  BY CellHolds
<1>1. ASSUME NEW x \in Covered(N) PROVE x \in Extent \ D /\ Holds(N, x, Cell(S, x))
  <2>1. PICK e \in N : x \in e.region BY DEF Covered
  <2>2. x \in Extent /\ e \in S /\ D \cap e.region = {} BY <2>1 DEF Entry
  <2>3. e.value = Cell(S, x) BY <2>1, <2>2, <1>0 DEF Holds
  <2>4. x \notin D BY <2>1, <2>2
  <2>5. Holds(N, x, Cell(S, x)) BY <2>1, <2>3 DEF Holds
  <2> QED BY <2>2, <2>4, <2>5
<1>2. ASSUME NEW x \in Extent \ D PROVE x \in Covered(N)
  <2>1. PICK e \in S : x \in e.region /\ e.value = Cell(S, x) BY <1>0 DEF Holds
  <2>2. e \in N BY <2>1
  <2> QED BY <2>1, <2>2 DEF Covered
<1> QED BY <1>1, <1>2

\* Contents and its next value in terms of Cell.
LEMMA ContentsCell ==
    /\ Contents = [m \in Map |-> [x \in Extent |-> Cell(region_values[m], x)]]
    /\ Contents' = [m \in Map |-> [x \in Extent |-> Cell(region_values'[m], x)]]
BY DEF Contents

\* From a map whose updated cells can be told from the others, merge takes over
\* exactly the updated cells, with their values.
LEMMA MergeTakesUpdated ==
    ASSUME IInv, NEW m \in Map, NEW o \in Map, Separated(o)
    PROVE  /\ Covered(UpdatedEntries(o)) = UpdatedCells[o]
           /\ \A x \in Extent :
                 Cell(Merged(m, o), x) = Contents[IF x \in UpdatedCells[o] THEN o ELSE m][x]
<1> DEFINE N == UpdatedEntries(o)
           T == UpdatedCells[o]
<1>0. \A k \in Map : region_values[k] \in SUBSET Entry /\ Divides(region_values[k])
  BY PartitionDivides DEF IInv, TypeOK
<1>c. \A k \in Map, x \in Extent : Contents[k][x] = Cell(region_values[k], x)
  BY ContentsCell
<1>1. N \in SUBSET Entry /\ Functional(N)
  <2>1. N \in SUBSET region_values[o] BY DEF UpdatedEntries
  <2> QED BY <1>0, <2>1, DividesFunctional
<1>2. default_initialized[o] \in SUBSET Extent BY DEF IInv, TypeOK
<1>3. /\ Covered(N) = Extent \ default_initialized[o]
      /\ \A x \in Covered(N) : Holds(N, x, Cell(region_values[o], x))
  BY <1>0, <1>2, MergedCells DEF UpdatedEntries, Separated
<1>4. T = Covered(N) BY <1>3 DEF UpdatedCells
<1> HIDE DEF T
<1>5. ASSUME NEW x \in Extent
      PROVE  Cell(Merged(m, o), x) = Contents[IF x \in T THEN o ELSE m][x]
  <2>1. CASE N = {}
    <3>1. Merged(m, o) = region_values[m] /\ x \notin T BY <2>1, <1>4 DEF Merged, Covered
    <3> QED BY <3>1, <1>c
  <2>2. CASE N # {}
    <3>1. Merged(m, o) = Overwrite(region_values[m], N) BY <2>2 DEF Merged
    <3> HIDE DEF N
    <3>2. CASE x \in T BY <3>1, <3>2, <1>0, <1>c, <1>1, <1>3, <1>4, OverwriteCell
    <3>3. CASE x \notin T BY <3>1, <3>3, <1>0, <1>c, <1>1, <1>4, OverwriteCell
    <3> QED BY <3>2, <3>3
  <2> QED BY <2>1, <2>2
<1> QED BY <1>4, <1>5 DEF T

\* The constructor implements the abstract initial state.
LEMMA InitRefines == Init => Abstract!Init
<1> SUFFICES ASSUME Init PROVE Abstract!Init OBVIOUS
<1>1. ASSUME NEW m \in Map
      PROVE  \E v \in Value : \A x \in Extent : Cell(region_values[m], x) = v
  <2>1. PICK v \in Value : region_values[m] = {[region |-> Extent, value |-> v]}
    BY DEF Init
  <2>2. Divides(region_values[m]) BY InitIInv, PartitionDivides DEF IInv
  <2>3. \A x \in Extent : Holds(region_values[m], x, v) BY <2>1 DEF Holds
  <2> QED BY <2>2, <2>3, CellHolds
<1>2. ASSUME NEW m \in Map PROVE Contents[m] \in {[x \in Extent |-> v] : v \in Value}
  <2>1. PICK v \in Value : \A x \in Extent : Cell(region_values[m], x) = v BY <1>1
  <2>2. Contents[m] = [x \in Extent |-> v] BY <2>1, ContentsCell
  <2> QED BY <2>2
<1>3. Contents \in [Map -> {[x \in Extent |-> v] : v \in Value}]
  <2>1. Contents = [m \in Map |-> Contents[m]] BY ContentsCell
  <2> HIDE DEF Contents
  <2> QED BY <1>2, <2>1
<1>4. UpdatedCells = [m \in Map |-> {}] BY DEF Init, UpdatedCells
<1> QED BY <1>3, <1>4 DEF Abstract!Init

\* One map gets new entries: the abstract map changes at the same place.
LEMMA ContentsChange ==
    ASSUME TypeOK, NEW m \in Map, NEW E, NEW c,
           region_values' = [region_values EXCEPT ![m] = E],
           c = [x \in Extent |-> Cell(E, x)]
    PROVE  Contents' = [Contents EXCEPT ![m] = c]
<1>1. \A k \in Map : region_values'[k] = IF k = m THEN E ELSE region_values[k]
  BY DEF TypeOK
<1>2. Contents' = [k \in Map |-> IF k = m THEN c ELSE Contents[k]]
  BY <1>1, ContentsCell
<1>3. Contents = [k \in Map |-> Contents[k]] BY ContentsCell
<1> QED BY <1>2, <1>3

\* The updated cells of one map grow by what is removed from its default part.
LEMMA UpdatedChange ==
    ASSUME TypeOK, NEW m \in Map, NEW R \in SUBSET Extent,
           default_initialized' = [default_initialized EXCEPT ![m] = @ \ R]
    PROVE  UpdatedCells' = [UpdatedCells EXCEPT ![m] = @ \cup R]
<1>1. \A k \in Map : default_initialized'[k] =
          IF k = m THEN default_initialized[m] \ R ELSE default_initialized[k]
  BY DEF TypeOK
<1>2. \A k \in Map : Extent \ default_initialized'[k] =
          IF k = m THEN UpdatedCells[m] \cup R ELSE UpdatedCells[k]
  BY <1>1 DEF UpdatedCells
<1>3. UpdatedCells' = [k \in Map |-> Extent \ default_initialized'[k]] BY DEF UpdatedCells
<1>4. UpdatedCells = [k \in Map |-> UpdatedCells[k]] BY DEF UpdatedCells
<1> QED BY <1>2, <1>3, <1>4

\* Every operation implements the abstract one of its name, or changes nothing; of
\* merge this holds for separated maps.
LEMMA NextRefines ==
    IInv /\ [Next]_vars => [Abstract!Next \/ MergesUnseparated]_(Abstract!vars)
<1> SUFFICES ASSUME IInv, [Next]_vars
             PROVE  [Abstract!Next \/ MergesUnseparated]_(Abstract!vars)
  OBVIOUS
<1>0. \A k \in Map : region_values[k] \in SUBSET Entry /\ Divides(region_values[k])
  BY PartitionDivides DEF IInv, TypeOK
<1>a. TypeOK BY DEF IInv
<1>c. \A k \in Map, x \in Extent : Contents[k][x] = Cell(region_values[k], x)
  BY ContentsCell
<1>1. ASSUME NEW m \in Map, NEW region \in SUBSET Extent, NEW v \in Value,
             update_region(m, region, v)
      PROVE  Abstract!Update(m, region, v)
  <2> DEFINE N == {[region |-> region, value |-> v]}
             E == Overwrite(region_values[m], N)
             c == [x \in Extent |-> IF x \in region THEN v ELSE Contents[m][x]]
  <2>1. N \in SUBSET Entry /\ Functional(N) /\ Covered(N) = region
    BY <1>1, SingleEntry DEF update_region
  <2>2. \A x \in region : Holds(N, x, v) BY DEF Holds
  <2>3. ASSUME NEW x \in Extent
        PROVE  Cell(E, x) = IF x \in region THEN v ELSE Contents[m][x]
    <3> HIDE DEF N
    <3>1. /\ Holds(N, x, v) => Cell(E, x) = v
          /\ x \notin Covered(N) => Cell(E, x) = Cell(region_values[m], x)
      BY <1>0, <2>1, OverwriteCell
    <3> QED BY <1>c, <2>1, <2>2, <3>1
  <2>4. c = [x \in Extent |-> Cell(E, x)] BY <2>3
  <2>5. region_values' = [region_values EXCEPT ![m] = E] BY <1>1 DEF update_region
  <2>6. default_initialized' = [default_initialized EXCEPT ![m] = @ \ region]
    BY <1>1 DEF update_region
  <2> HIDE DEF E, c
  <2>7. Contents' = [Contents EXCEPT ![m] = c] BY <1>a, <2>4, <2>5, ContentsChange
  <2>8. UpdatedCells' = [UpdatedCells EXCEPT ![m] = @ \cup region]
    BY <1>a, <2>6, UpdatedChange
  <2> QED BY <2>7, <2>8 DEF Abstract!Update, c
<1>2. ASSUME NEW m \in Map, NEW f \in Functor, apply_to_values(m, f)
      PROVE  Abstract!Apply(m, f)
  <2> DEFINE E == collapse_regions(
                    {[region |-> e.region, value |-> f[e.value]] : e \in region_values[m]})
             c == [x \in Extent |-> f[Contents[m][x]]]
  <2>1. f \in [Value -> Value] BY FunctorAssumption
  <2>2. \A x \in Extent : Cell(E, x) = f[Contents[m][x]]
    BY <1>0, <1>c, <2>1, AppliedCell
  <2>3. region_values' = [region_values EXCEPT ![m] = E] BY <1>2 DEF apply_to_values
  <2> HIDE DEF E
  <2>4. c = [x \in Extent |-> Cell(E, x)] BY <2>2
  <2> HIDE DEF c
  <2>5. Contents' = [Contents EXCEPT ![m] = c] BY <1>a, <2>3, <2>4, ContentsChange
  <2>6. UpdatedCells' = UpdatedCells BY <1>2 DEF apply_to_values, UpdatedCells
  <2> QED BY <2>5, <2>6 DEF Abstract!Apply, c
<1>3. ASSUME NEW m \in Map, NEW o \in Map, Separated(o), merge(m, o)
      PROVE  Abstract!Merge(m, o)
  <2> DEFINE E == Merged(m, o)
             T == UpdatedCells[o]
             c == [x \in Extent |-> IF x \in T THEN Contents[o][x] ELSE Contents[m][x]]
  <2>1. /\ Covered(UpdatedEntries(o)) = T
        /\ \A x \in Extent : Cell(E, x) = Contents[IF x \in T THEN o ELSE m][x]
    BY <1>3, MergeTakesUpdated
  <2>2. T \in SUBSET Extent BY DEF UpdatedCells
  <2>3. region_values' = [region_values EXCEPT ![m] = E] BY <1>3 DEF merge
  <2>4. default_initialized' = [default_initialized EXCEPT ![m] = @ \ T]
    BY <1>3, <2>1 DEF merge
  <2> HIDE DEF E, T
  <2>5. c = [x \in Extent |-> Cell(E, x)] BY <2>1
  <2> HIDE DEF c
  <2>6. Contents' = [Contents EXCEPT ![m] = c] BY <1>a, <2>3, <2>5, ContentsChange
  <2>7. UpdatedCells' = [UpdatedCells EXCEPT ![m] = @ \cup T]
    BY <1>a, <2>2, <2>4, UpdatedChange
  <2> QED BY <2>6, <2>7 DEF Abstract!Merge, T, c
<1>4. CASE UNCHANGED vars
  <2>1. UNCHANGED <<Contents, UpdatedCells>> BY <1>4 DEF vars, Contents, UpdatedCells
  <2> QED BY <2>1 DEF Abstract!vars
<1>5. CASE Next
  <2>1. Abstract!Next \/ MergesUnseparated
    BY <1>1, <1>2, <1>3, <1>5 DEF Next, Abstract!Next, MergesUnseparated
  <2> QED BY <2>1
<1> QED BY <1>4, <1>5

\* region_map implements a function on cells: update_region and apply_to_values change
\* exactly the cells, and to the values, that CellMap says, and merge takes over all
\* updated cells of the other map and no others, as long as no value of that map is
\* held both by updated and by never updated cells.
THEOREM Refinement == Spec => ImplementsCellMap
<1>1. IInv => \A m, o \in Map : m # o /\ Separated(o) => PrefersUpdated(m, o)
  BY MergeTakesUpdated DEF PrefersUpdated
<1> QED BY <1>1, InitRefines, NextRefines, Invariance, PTL DEF Spec, ImplementsCellMap

-----------------------------------------------------------------------------
(* What get_region_values finds. *)

\* A set of numbers has a least one.
LEMMA Least ==
    ASSUME NEW T \in SUBSET Nat, T # {}
    PROVE  \E k \in T : \A j \in T : k <= j
<1>1. PICK R : R = OpToRel(<, Nat)
    OBVIOUS
<1>2. IsWellFoundedOn(R, Nat)
    BY <1>1, NatLessThanWellFounded
<1>3. PICK k \in T : \A j \in T : ~(<<j, k>> \in R)
    BY <1>2, WFMin
<1>4. ASSUME NEW j \in T PROVE ~(j < k)
    BY <1>1, <1>3 DEF OpToRel
<1>5. \A j \in T : k <= j
    BY <1>4
<1> QED BY <1>5

\* The size of an overlap.
LEMMA Overlaps ==
    ASSUME NEW S \in SUBSET Entry, NEW r \in SUBSET Extent, NEW e \in S
    PROVE  /\ overlap(e, r) \in Nat /\ IsFiniteSet(r) /\ Cardinality(r) \in Nat
           /\ overlap(e, r) <= Cardinality(r)
           /\ overlap(e, r) > 0 <=> e.region \cap r # {}
<1>1. IsFiniteSet(r) /\ Cardinality(r) \in Nat
    BY ExtentAssumption, FS_Subset, FS_CardinalityType
<1>2. PICK o : o = e.region \cap r
    OBVIOUS
<1>3. IsFiniteSet(o) /\ Cardinality(o) \in Nat /\ Cardinality(o) <= Cardinality(r)
    BY <1>1, <1>2, FS_Subset, FS_CardinalityType
<1>4. Cardinality(o) = 0 <=> o = {}
    BY <1>3, FS_EmptySet
<1> QED BY <1>1, <1>2, <1>3, <1>4 DEF overlap

\* The search finds an entry with the largest overlap.
LEMMA LargestOverlap ==
    ASSUME NEW S \in SUBSET Entry, NEW r \in SUBSET Extent, NEW e \in S, e.region \cap r # {}
    PROVE  Largest(S, r) \in S /\ Largest(S, r).region \cap r # {}
<1>1. PICK c \in Nat : c = Cardinality(r)
    BY Overlaps
<1>2. PICK T : T = {c - overlap(g, r) : g \in S}
    OBVIOUS
<1>3. T \in SUBSET Nat /\ T # {}
    BY <1>1, <1>2, Overlaps
<1>4. PICK k \in T : \A j \in T : k <= j
    BY <1>3, Least
<1>5. PICK m \in S : k = c - overlap(m, r)
    BY <1>2, <1>4
<1>6. ASSUME NEW g \in S PROVE overlap(m, r) >= overlap(g, r)
  <2>1. c - overlap(g, r) \in T
      BY <1>2
  <2>2. c - overlap(m, r) <= c - overlap(g, r)
      BY <1>4, <1>5, <2>1
  <2>3. overlap(m, r) \in Nat /\ overlap(g, r) \in Nat
      BY Overlaps
  <2> QED BY <2>2, <2>3
<1>7. PICK l \in S : l = Largest(S, r) /\ \A g \in S : overlap(l, r) >= overlap(g, r)
    BY <1>6 DEF Largest
<1>8. overlap(l, r) >= overlap(e, r) /\ overlap(e, r) > 0
    BY <1>7, Overlaps
<1>9. overlap(l, r) \in Nat /\ overlap(e, r) \in Nat
    BY Overlaps
<1> QED BY <1>7, <1>8, <1>9, Overlaps

\* What a query is to find: the part of each entry that meets the request.
Parts(S, r) == {[region |-> e.region \cap r, value |-> e.value] : e \in {g \in S : g.region \cap r # {}}}

\* One round of the loop finds one of the parts and leaves the others.
LEMMA PartsRound ==
    ASSUME NEW S \in SUBSET Entry, Divides(S), NEW r \in SUBSET Extent, NEW l \in S, l.region \cap r # {}
    PROVE  /\ Parts(S, r) = {[region |-> l.region \cap r, value |-> l.value]} \cup Parts(S, Remaining(r, l))
           /\ Remaining(r, l) \in SUBSET r /\ Cardinality(Remaining(r, l)) < Cardinality(r)
           /\ Cardinality(Remaining(r, l)) \in Nat /\ Cardinality(r) \in Nat
<1>1. PICK q : q = Remaining(r, l) /\ q = r \ l.region
    BY DEF Remaining
<1>2. ASSUME NEW g \in S, g # l PROVE g.region \cap q = g.region \cap r
    BY <1>1, <1>2 DEF Divides
<1>3. l.region \cap q = {}
    BY <1>1
<1>4. ASSUME NEW p \in Parts(S, r)
      PROVE  p \in {[region |-> l.region \cap r, value |-> l.value]} \cup Parts(S, q)
  <2>1. PICK g \in S : g.region \cap r # {} /\ p = [region |-> g.region \cap r, value |-> g.value]
      BY DEF Parts
  <2>2. CASE g = l
      BY <2>1, <2>2
  <2>3. CASE g # l
      BY <1>2, <2>1, <2>3 DEF Parts
  <2> QED BY <2>2, <2>3
<1>5. ASSUME NEW p \in Parts(S, q) PROVE p \in Parts(S, r)
  <2>1. PICK g \in S : g.region \cap q # {} /\ p = [region |-> g.region \cap q, value |-> g.value]
      BY DEF Parts
  <2>2. g # l
      BY <1>3, <2>1
  <2> QED BY <1>2, <2>1, <2>2 DEF Parts
<1>6. [region |-> l.region \cap r, value |-> l.value] \in Parts(S, r)
    BY DEF Parts
<1>7. IsFiniteSet(r) /\ Cardinality(r) \in Nat
    BY ExtentAssumption, FS_Subset, FS_CardinalityType
<1>8. q \subseteq r /\ q # r
    BY <1>1
<1>9. IsFiniteSet(q) /\ Cardinality(q) <= Cardinality(r) /\ Cardinality(q) # Cardinality(r)
    BY <1>7, <1>8, FS_Subset
<1>10. Cardinality(q) \in Nat
    BY <1>9, FS_CardinalityType
<1> QED BY <1>1, <1>4, <1>5, <1>6, <1>7, <1>8, <1>9, <1>10

\* The loop finds all of them, by induction over what remains to be found.
LEMMA QueryFinds ==
    ASSUME NEW S \in SUBSET Entry, Divides(S), NEW request \in SUBSET Extent
    PROVE  get_region_values(S, request) = Parts(S, request)
<1> DEFINE Round(f, r) == IF ~ \E e \in S : overlap(e, r) > 0 THEN {}
                          ELSE {[region |-> Largest(S, r).region \cap r, value |-> Largest(S, r).value]}
                                  \cup f[Remaining(r, Largest(S, r))]
           found == CHOOSE f : f = [r \in SUBSET request |-> Round(f, r)]
           parts == [r \in SUBSET request |-> Parts(S, r)]
<1>1. ASSUME NEW r \in SUBSET request, NEW f,
             \A q \in SUBSET r : Cardinality(q) \in Nat /\ Cardinality(q) < Cardinality(r) => f[q] = Parts(S, q)
      PROVE  Round(f, r) = Parts(S, r)
  <2>1. r \in SUBSET Extent
      OBVIOUS
  <2>2. CASE ~ \E e \in S : overlap(e, r) > 0
    <3>1. \A e \in S : e.region \cap r = {}
        BY <2>1, <2>2, Overlaps
    <3> QED BY <2>2, <3>1 DEF Parts
  <2>3. CASE \E e \in S : overlap(e, r) > 0
    <3>1. PICK e \in S : e.region \cap r # {}
        BY <2>1, <2>3, Overlaps
    <3>2. PICK l : l = Largest(S, r) /\ l \in S /\ l.region \cap r # {}
        BY <2>1, <3>1, LargestOverlap
    <3>3. PICK q : q = Remaining(r, l)
        OBVIOUS
    <3>4. /\ Parts(S, r) = {[region |-> l.region \cap r, value |-> l.value]} \cup Parts(S, q)
          /\ q \in SUBSET r /\ Cardinality(q) < Cardinality(r) /\ Cardinality(q) \in Nat
        BY <2>1, <3>2, <3>3, PartsRound
    <3>5. f[q] = Parts(S, q)
        BY <1>1, <3>4
    <3> QED BY <2>3, <3>2, <3>3, <3>4, <3>5
  <2> QED BY <2>2, <2>3
<1>2. parts = [r \in SUBSET request |-> Round(parts, r)]
  <2>1. ASSUME NEW r \in SUBSET request PROVE Round(parts, r) = Parts(S, r)
    <3>1. \A q \in SUBSET r : parts[q] = Parts(S, q)
        OBVIOUS
    <3> HIDE DEF parts, Round
    <3> QED BY <1>1, <3>1
  <2> HIDE DEF Round
  <2> QED BY <2>1
<1>3. found = [r \in SUBSET request |-> Round(found, r)]
  <2> HIDE DEF Round, parts
  <2> QED BY <1>2, Zenon
<1>4. ASSUME NEW r \in SUBSET request, found[r] # Parts(S, r) PROVE FALSE
  <2> HIDE DEF Round, parts, found
  <2>1. PICK T : T = {Cardinality(q) : q \in {p \in SUBSET request : found[p] # Parts(S, p)}}
      OBVIOUS
  <2>2. T \in SUBSET Nat /\ T # {}
    <3>1. \A q \in SUBSET request : Cardinality(q) \in Nat
        BY ExtentAssumption, FS_Subset, FS_CardinalityType
    <3> QED BY <1>4, <2>1, <3>1
  <2>3. PICK k \in T : \A j \in T : k <= j
      BY <2>2, Least
  <2>4. PICK q \in SUBSET request : k = Cardinality(q) /\ found[q] # Parts(S, q)
      BY <2>1
  <2>5. ASSUME NEW p \in SUBSET q, Cardinality(p) \in Nat, Cardinality(p) < Cardinality(q)
        PROVE  found[p] = Parts(S, p)
    <3>1. SUFFICES ASSUME found[p] # Parts(S, p) PROVE FALSE
        OBVIOUS
    <3>2. Cardinality(p) \in T
        BY <2>1, <3>1
    <3> QED BY <2>2, <2>3, <2>4, <2>5, <3>2
  <2>6. Round(found, q) = Parts(S, q)
      BY <1>1, <2>5
  <2> QED BY <1>3, <2>4, <2>6
<1>5. get_region_values(S, request) = found[request]
    BY Zenon DEF get_region_values
<1> QED BY <1>4, <1>5

\* region_map::get_region_values returns, for each value that the request meets, exactly its
\* cells: the search for the largest overlap finds everything and nothing twice, for every
\* extent, every request and whatever was updated, applied and merged.
THEOREM QueriesFindAll == Spec => []QueriesComplete
<1>1. ASSUME IInv, NEW m \in Map, NEW request \in SUBSET Extent
      PROVE  get_region_values(region_values[m], request) =
                {[region |-> {x \in request : Contents[m][x] = v}, value |-> v] :
                    v \in {Contents[m][x] : x \in request}}
  <2>1. PICK S : S = region_values[m] /\ S \in SUBSET Entry /\ Divides(S)
      BY <1>1, PartitionDivides DEF IInv, TypeOK
  <2>2. \A x \in request : Contents[m][x] = Cell(S, x)
      BY <2>1, ContentsCell
  <2>3. ASSUME NEW e \in S, NEW x \in request PROVE x \in e.region <=> Cell(S, x) = e.value
    <3>1. Holds(S, x, Cell(S, x)) /\ \A v : Holds(S, x, v) => v = Cell(S, x)
        BY <2>1, CellHolds
    <3>2. PICK g \in S : x \in g.region /\ g.value = Cell(S, x)
        BY <3>1 DEF Holds
    <3>3. x \in e.region => e.value = Cell(S, x)
        BY <3>1 DEF Holds
    <3>4. Cell(S, x) = e.value => g = e
        BY <2>1, <3>2 DEF Divides
    <3> QED BY <3>2, <3>3, <3>4
  <2>4. ASSUME NEW e \in S PROVE e.region \cap request = {x \in request : Contents[m][x] = e.value}
      BY <2>2, <2>3
  <2>5. {e.value : e \in {g \in S : g.region \cap request # {}}} = {Contents[m][x] : x \in request}
    <3>1. ASSUME NEW e \in S, NEW x, x \in e.region \cap request PROVE e.value = Contents[m][x]
        BY <2>2, <2>3, <3>1
    <3>2. ASSUME NEW x \in request
          PROVE  \E e \in S : x \in e.region \cap request /\ e.value = Contents[m][x]
      <4>1. Holds(S, x, Cell(S, x))
          BY <2>1, CellHolds
      <4> QED BY <2>2, <4>1 DEF Holds
    <3> QED BY <3>1, <3>2
  <2>6. Parts(S, request) = {[region |-> {x \in request : Contents[m][x] = v}, value |-> v] :
                                v \in {e.value : e \in {g \in S : g.region \cap request # {}}}}
      BY <2>4 DEF Parts
  <2>7. get_region_values(S, request) = Parts(S, request)
      BY <2>1, QueryFinds
  <2> QED BY <2>1, <2>5, <2>6, <2>7
<1>2. IInv => QueriesComplete
    BY <1>1 DEF QueriesComplete
<1> QED BY <1>2, Invariance, PTL

=============================================================================
