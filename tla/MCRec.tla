---- MODULE MCRec ----
EXTENDS MCReadStack
Intervals == {r \in [begin : Int, end : Int] : r.begin < r.end}
Separated(s) == \A i, j \in DOMAIN s : i < j => s[i].end < s[j].begin
Within(s, a, b) == {f \in 0..10 : \E i \in a..b : InRegion(f, s[i])}
CoverageOf(c, frames) ==
    LET covered == Within(c.regions, 1, Len(c.regions))
    IN  /\ c \in [regions : Seq(Intervals), unique : Int, complete : BOOLEAN]
        /\ Len(c.regions) <= CoverageCapacity /\ Separated(c.regions)
        /\ c.unique = Cardinality(covered)
        /\ covered \subseteq frames
        /\ c.complete => covered = frames
FactNames == {"attempted", "accepted", "retry", "repeated", "recovered", "uncertain"}
MapRegions == {r \in [begin : Int, end : Int, facts : SUBSET FactNames] : r.begin < r.end}
Apart(regions) ==
    \A r, q \in regions : r # q /\ r.facts = q.facts => r.end < q.begin \/ q.end < r.begin
MapOf(m, told) ==
    /\ DOMAIN m = {"regions","complete"} /\ \A r \in m.regions : r \in MapRegions
    /\ \A c \in told : c.frame \in Int
    /\ IsFiniteSet(m.regions) /\ Cardinality(m.regions) <= MapCapacity
    /\ Apart(m.regions)
    /\ \A r \in m.regions : \A f \in r.begin..(r.end - 1) : [facts |-> r.facts, frame |-> f] \in told
    /\ m.complete => \A c \in told : \E r \in m.regions : r.facts = c.facts /\ InRegion(c.frame, r)
RecordedInv == CoverageOf(coverage, accepted) /\ accepted \subseteq DiscBegin..(LeadOut - 1) /\ MapOf(discMap, charted)
====
