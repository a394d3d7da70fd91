------------------------------ MODULE ReadMap ------------------------------
(***************************************************************************)
(* The two bounded records of what was read (integrity_state.cpp): the     *)
(* coverage of a stream, a sorted union of accepted intervals with a       *)
(* running count of their frames, and the map of a disc, an interval for   *)
(* each combination of facts.  Both stop recording when their array is     *)
(* full and keep what they hold as a lower bound.                          *)
(***************************************************************************)
EXTENDS Integers, FiniteSets, SequencesExt

CONSTANTS
    CoverageCapacity,  \* ReadCoverage::capacity (128)
    MapCapacity        \* DiscReadMap::capacity (256)

ASSUME MapAssumption == CoverageCapacity \in Nat \ {0} /\ MapCapacity \in Nat \ {0}

Larger(a, b)  == IF a > b THEN a ELSE b
Smaller(a, b) == IF a < b THEN a ELSE b

EmptyCoverage == [regions |-> <<>>, unique |-> 0, complete |-> TRUE]

Size(region) == region.end - region.begin

TotalSize(regions) ==
    LET sum[i \in 0..Len(regions)] == IF i = 0 THEN 0 ELSE sum[i - 1] + Size(regions[i])
    IN  sum[Len(regions)]

\* What an interval comes to when these regions are merged with it.
Hull(new, absorbed) ==
    [new EXCEPT !.begin = Min({new.begin} \cup {r.begin : r \in absorbed}),
                !.end = Max({new.end} \cup {r.end : r \in absorbed})]

\* The first region that the new interval may reach.
FirstReached(regions, new) ==
    CHOOSE i \in 1..(Len(regions) + 1) :
        /\ \A j \in 1..(i - 1) : regions[j].end < new.begin
        /\ i <= Len(regions) => regions[i].end >= new.begin

MergedTo(regions, new, first, last) == Hull(new, {regions[i] : i \in first..last})

\* The last one: each of them is reached by what the ones before it came to.
LastReached(regions, new, first) ==
    CHOOSE l \in (first - 1)..Len(regions) :
        /\ \A i \in first..l : regions[i].begin <= MergedTo(regions, new, first, i - 1).end
        /\ l < Len(regions) => regions[l + 1].begin > MergedTo(regions, new, first, l).end

\* Mutant: regions that are merged are counted again.
UniqueWithNew(c, absorbed, merged) == c.unique + Size(merged)

\* accepted_unique_frames, with the absorbed regions taken out of the count.
UniqueWith(c, absorbed, merged) == c.unique + Size(merged) - TotalSize(absorbed)

\* ReadCoverage::observe of an accepted read of frames begin.. end - 1: the
\* regions it does not reach stay, and the others become one with it.
Cover(c, begin, end) ==
    LET new    == [begin |-> begin, end |-> end]
        first  == FirstReached(c.regions, new)
        last   == LastReached(c.regions, new, first)
        merged == MergedTo(c.regions, new, first, last)
    IN  IF ~c.complete THEN c
        ELSE IF last < first /\ Len(c.regions) = CoverageCapacity THEN [c EXCEPT !.complete = FALSE]
        ELSE [c EXCEPT !.regions = SubSeq(@, 1, first - 1) \o <<merged>> \o SubSeq(@, last + 1, Len(@)),
                       !.unique = UniqueWith(c, SubSeq(c.regions, first, last), merged)]

EmptyReadMap == [regions |-> {}, complete |-> TRUE]

Touching(r, q) == r.begin <= q.end /\ q.begin <= r.end

\* Mutant: the facts of the regions are not compared.
AbsorbedOfAnyFacts(regions, new) == {r \in regions : Touching(r, new)}

\* The regions that are merged with a new one: those of the same facts that
\* touch it, or touch one that is merged.
Absorbed(regions, new) ==
    LET same == {r \in regions : r.facts = new.facts}
        Closed(merged) == \A r \in same : (\E q \in merged \cup {new} : Touching(r, q)) => r \in merged
    IN  CHOOSE merged \in SUBSET same :
            Closed(merged) /\ \A others \in SUBSET same : Closed(others) => merged \subseteq others

\* DiscReadMap::observe of a read of frames begin.. end - 1, whatever came of it.
Chart(m, begin, end, facts) ==
    LET new      == [begin |-> begin, end |-> end, facts |-> facts]
        absorbed == Absorbed(m.regions, new)
        kept     == m.regions \ absorbed
    IN  IF ~m.complete THEN m
        ELSE IF Cardinality(kept) = MapCapacity THEN [m EXCEPT !.complete = FALSE, !.regions = kept]
        ELSE [m EXCEPT !.regions = kept \cup {Hull(new, absorbed)}]
=============================================================================
