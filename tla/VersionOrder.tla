---------------------------- MODULE VersionOrder ----------------------------
(* Versions of documents and knowledge units (internal/semantic/temporal.go,  *)
(* history.go): which are ordered, which of two is older, which is the latest *)
(* and which lie in a range. A version has a family ("semantic", "release",   *)
(* "3gpp", "token"), its numbers and a suffix; a calendar day is one number   *)
(* of the family "date".                                                      *)
EXTENDS Integers, FiniteSets, Sequences, SequencesExt, FiniteSetsExt

NoVersion == [family |-> "none", parts |-> <<>>, suffix |-> ""]

\* v170200 is 17.2.0.
NormalizeVersionIdentity(v) == IF v.family = "3gpp" THEN [v EXCEPT !.family = "semantic"] ELSE v

\* parseVersionIdentity accepts it; its order is known.
Parsed(v) == v.family \in {"release", "date", "3gpp"} \/ (v.family = "semantic" /\ Len(v.parts) \in 2 .. 4)
Ordered(v) == Parsed(v) /\ v.suffix = ""

Comparable(v, w) ==
    \/ v = w
    \/ /\ Ordered(v) /\ Ordered(w)
       /\ NormalizeVersionIdentity(v).family = NormalizeVersionIdentity(w).family
Part(v, i) == IF i <= Len(v.parts) THEN v.parts[i] ELSE 0
CompareVersionIdentity(v, w) ==
    LET differ == {i \in 1 .. 4 : Part(v, i) # Part(w, i)}
    IN  IF v = w \/ differ = {} THEN 0
        ELSE IF Part(v, Min(differ)) < Part(w, Min(differ)) THEN -1 ELSE 1
Older(v, w) == Comparable(v, w) /\ CompareVersionIdentity(v, w) = -1
Same(v, w) == Comparable(v, w) /\ CompareVersionIdentity(v, w) = 0

containsIdentity(versions, v) == \E i \in DOMAIN versions : Same(versions[i], v)

\* The order of the texts: "-" before "." before digits before letters.
Digits(n) == IF n < 10 THEN <<n>> ELSE <<n \div 10, n % 10>>
Text(v) ==
    (IF v.family = "release" THEN <<11>> ELSE IF v.family = "token" THEN <<12>> ELSE <<>>)
    \o FlattenSeq([i \in DOMAIN v.parts |-> (IF i = 1 THEN <<>> ELSE <<-1>>) \o Digits(v.parts[i])])
    \o (IF v.suffix = "" THEN <<>> ELSE <<-2>>)
TextBefore(v, w) ==
    LET a == Text(v)
        b == Text(w)
    IN  \/ IsStrictPrefix(a, b)
        \/ \E i \in DOMAIN a \cap DOMAIN b :
            a[i] < b[i] /\ \A j \in 1 .. i - 1 : a[j] = b[j]

\* sort.SliceStable of few elements: each moves ahead of those it precedes. The
\* order need not be one, when versions cannot be compared.
InsertionSorted(s, Precedes(_, _)) ==
    FoldLeft(LAMBDA sorted, x :
                InsertAt(sorted, 1 + Max({0} \cup {i \in DOMAIN sorted : ~Precedes(x, sorted[i])}), x),
             <<>>, s)

\* The latest by its text.
LatestText(versions) ==
    LET known == {v \in versions : Ordered(v)}
    IN  IF known = {} THEN NoVersion ELSE CHOOSE v \in known : \A w \in known \ {v} : TextBefore(w, v) \* mutant

\* LatestComparableVersion: versions without an order are passed over.
LatestComparableVersion(versions) ==
    LET known == {NormalizeVersionIdentity(v) : v \in {w \in versions : Ordered(w)}}
    IN  IF known = {} \/ \E v, w \in known : ~Comparable(v, w) THEN NoVersion
        ELSE CHOOSE v \in known : \A w \in known \ {v} : Older(w, v) \/ (Same(v, w) /\ TextBefore(v, w))

Distinct(s) == FoldLeft(LAMBDA kept, x : IF Contains(kept, x) THEN kept ELSE Append(kept, x), <<>>, s)

\* Distinct versions by the number of those they are newer than.
orderedDistinctVersions(versions) ==
    LET Newer(v) == Cardinality({i \in DOMAIN versions : Older(versions[i], v)})
    IN  InsertionSorted(Distinct(versions), LAMBDA v, w : Newer(v) < Newer(w))

-----------------------------------------------------------------------------
\* A range has a kind ("version", "time", "event", "ambiguous"), two boundaries,
\* each open (NoVersion) or with a flag whether it belongs to the range, and a scope.

NoRange == [kind |-> "none", from |-> NoVersion, fromIn |-> FALSE, to |-> NoVersion, toIn |-> FALSE, scope |-> ""]

\* versionSatisfiesBoundary and timeSatisfiesBoundary of both boundaries.
InRange(v, range) ==
    /\ range.from # NoVersion => Older(range.from, v) \/ (range.fromIn /\ Same(range.from, v))
    /\ range.to # NoVersion => Older(v, range.to) \/ (range.toIn /\ Same(range.to, v))

ContainsVersion(range, v) == range.kind = "version" /\ v # NoVersion /\ InRange(v, range)
=============================================================================
