----------------------------- MODULE RegionMap ------------------------------
(***************************************************************************)
(* region_map (include/region_map.h): regions of a buffer with their       *)
(* values.  An entry is a record [region, value]; the entries of a map are *)
(* a set, as their order only decides the order of what a query returns.   *)
(* The extent is the set of cells of the buffer, a region a set of cells.  *)
(***************************************************************************)
EXTENDS Naturals, FiniteSets

CONSTANTS
    Map,             \* region_map objects of one extent
    Extent,
    Value,
    Functor          \* what apply_to_values is called with

ASSUME ExtentAssumption == Extent # {} /\ IsFiniteSet(Extent)
ASSUME FunctorAssumption == Functor \subseteq [Value -> Value]

VARIABLES region_values, default_initialized

vars == <<region_values, default_initialized>>

Entry == [region : (SUBSET Extent) \ {{}}, value : Value]

Covered(entries) == UNION {e.region : e \in entries}

\* Mutant: regions with the same value stay apart.
CollapseNot(entries) == entries

\* collapse_regions: one entry per value, the union of its regions.
collapse_regions(entries) ==
    {[region |-> Covered({e \in entries : e.value = v}), value |-> v] :
        v \in {e.value : e \in entries}}

\* What is left of the entries outside a region, empty rests dropped.
Rest(entries, region) ==
    {[region |-> e.region \ region, value |-> e.value] :
        e \in {g \in entries : ~(g.region \subseteq region)}}

\* The entries after update_region has been called for each of the new ones.
Overwrite(entries, new) == collapse_regions(Rest(entries, Covered(new)) \cup new)

\* The constructor: the whole extent has the default value.
Init ==
    /\ region_values \in [Map -> {{[region |-> Extent, value |-> v]} : v \in Value}]
    /\ default_initialized = [m \in Map |-> Extent]

\* update_region; its callers never pass an empty region.
update_region(m, region, v) ==
    /\ region # {}
    /\ default_initialized' = [default_initialized EXCEPT ![m] = @ \ region]
    /\ region_values' = [region_values EXCEPT
            ![m] = Overwrite(@, {[region |-> region, value |-> v]})]

apply_to_values(m, f) ==
    /\ region_values' = [region_values EXCEPT
            ![m] = collapse_regions({[region |-> e.region, value |-> f[e.value]] : e \in @})]
    /\ UNCHANGED default_initialized

\* Mutant: default-initialized entries are taken over too.
AllEntries(o) == region_values[o]

\* The entries of o without a default-initialized part.
UpdatedEntries(o) ==
    {e \in region_values[o] : default_initialized[o] \cap e.region = {}}

\* The entries of m once update_region has been called for those of o, one after
\* the other; they do not overlap and have different values, so the order makes
\* no difference.
Merged(m, o) ==
    IF UpdatedEntries(o) = {} THEN region_values[m]
    ELSE Overwrite(region_values[m], UpdatedEntries(o))

\* merge; maps of different extents are refused before anything changes, and Map
\* holds maps of one extent.
merge(m, o) ==
    /\ m # o
    /\ default_initialized' = [default_initialized EXCEPT ![m] = @ \ Covered(UpdatedEntries(o))]
    /\ region_values' = [region_values EXCEPT ![m] = Merged(m, o)]

Next ==
    \/ \E m \in Map, region \in SUBSET Extent, v \in Value : update_region(m, region, v)
    \/ \E m \in Map, f \in Functor : apply_to_values(m, f)
    \/ \E m, o \in Map : merge(m, o)

Spec == Init /\ [][Next]_vars

-----------------------------------------------------------------------------
\* Mutant: the entry found is not taken out of the request.
LeftOver(remaining, e) == {}

\* What get_region_values still has to look for once it has returned entry e.
Remaining(remaining, e) == remaining \ e.region

\* The entry with the largest overlap.
overlap(e, remaining) == Cardinality(e.region \cap remaining)
Largest(entries, remaining) ==
    CHOOSE e \in entries : \A g \in entries : overlap(e, remaining) >= overlap(g, remaining)

\* get_region_values: what the loop returns for a request, the entry with the
\* largest overlap first, before each part is cut into boxes.
get_region_values(entries, request) ==
    LET found[remaining \in SUBSET request] ==
            IF ~ \E e \in entries : overlap(e, remaining) > 0 THEN {}
            ELSE LET e == Largest(entries, remaining)
                 IN  {[region |-> e.region \cap remaining, value |-> e.value]}
                         \cup found[Remaining(remaining, e)]
    IN  found[request]

TypeOK ==
    /\ region_values \in [Map -> SUBSET Entry]
    /\ default_initialized \in [Map -> SUBSET Extent]

\* The entries of a map divide its extent: every cell has an entry, no two entries
\* share a cell, and no two have the same value, whatever was updated and collapsed.
Partition ==
    \A m \in Map :
        /\ Covered(region_values[m]) = Extent
        /\ \A e, g \in region_values[m] :
              e # g => e.region \cap g.region = {} /\ e.value # g.value

\* The value of each cell, and the cells that were updated.
Cell(entries, x) == (CHOOSE e \in entries : x \in e.region).value
Contents == [m \in Map |-> [x \in Extent |-> Cell(region_values[m], x)]]
UpdatedCells == [m \in Map |-> Extent \ default_initialized[m]]

\* A query returns, for each value the request meets, exactly its cells: the search
\* by largest overlap finds everything and nothing twice.
QueriesComplete ==
    \A m \in Map : \A request \in SUBSET Extent :
        get_region_values(region_values[m], request) =
            {[region |-> {x \in request : Contents[m][x] = v}, value |-> v] :
                v \in {Contents[m][x] : x \in request}}

Abstract == INSTANCE CellMap WITH contents <- Contents, updated <- UpdatedCells

\* No value of o is held both by updated and by never updated cells.  Otherwise
\* collapse_regions has put them into one entry, which merge then leaves out: the
\* updated cells are lost, which is not what the comment of merge says.  No code
\* of the runtime calls merge; the maps of its test (test/runtime_tests.cc) are
\* updated with values other than the default one.
Separated(o) ==
    \A e \in region_values[o] :
        e.region \subseteq default_initialized[o] \/ e.region \cap default_initialized[o] = {}

\* Merging o into m would take over every updated cell of o, with its value, and
\* leave all other cells of m as they are.
PrefersUpdated(m, o) ==
    /\ Covered(UpdatedEntries(o)) = UpdatedCells[o]
    /\ \A x \in Extent :
          Cell(Merged(m, o), x) = Contents[IF x \in UpdatedCells[o] THEN o ELSE m][x]

\* A step that merges a map whose updated cells cannot be told from the others.
MergesUnseparated == \E m, o \in Map : ~Separated(o) /\ merge(m, o)

\* A region_map is a function on cells: each operation does to the cells what
\* update_region and apply_to_values say, and nothing to the others; merge takes
\* over every updated cell of the other map and no default one, as its comment
\* promises (region_map.h:103).  That comment is not claimed for other maps whose
\* updated and default cells share a value: of them merge loses cells.
ImplementsCellMap ==
    /\ Abstract!Init
    /\ [][Abstract!Next \/ MergesUnseparated]_(Abstract!vars)
    /\ [](\A m, o \in Map : m # o /\ Separated(o) => PrefersUpdated(m, o))
=============================================================================
