------------------------------ MODULE Versions ------------------------------
(***************************************************************************)
(* Version comparison and CVE matching (server/ingest version.rs,          *)
(* cve_source.rs, nvd_source.rs).  A version is a sequence of characters;  *)
(* a comparison is -1, 0 or 1, or NoOrder when a side does not parse.      *)
(***************************************************************************)
EXTENDS Integers, SequencesExt

CONSTANT Rank   \* character -> its code point, for the characters in use
ASSUME RankAssumption == \A c \in DOMAIN Rank : Rank[c] \in 1..255

NoOrder == 99

Digit  == {c \in DOMAIN Rank : Rank[c] \in 48..57}
Letter == {c \in DOMAIN Rank : Rank[c] \in 65..90 \/ Rank[c] \in 97..122}
Val(c) == Rank[c] - 48

Sgn(n) == IF n < 0 THEN -1 ELSE IF n > 0 THEN 1 ELSE 0
Then(c, d) == IF c # 0 THEN c ELSE d

\* What a sequence of comparisons comes to: the first that tells.
FirstNonzero(c) ==
  LET D == {k \in DOMAIN c : c[k] # 0}
  IN  IF D = {} THEN 0 ELSE c[CHOOSE k \in D : \A l \in D : k <= l]

\* The end of the run of characters of S that starts at i.
RunEnd(s, i, S) ==
  CHOOSE k \in i..(Len(s) + 1) :
    /\ \A l \in i..(k - 1) : s[l] \in S
    /\ k = Len(s) + 1 \/ s[k] \notin S
At(s, i, S) == i <= Len(s) /\ s[i] \in S

\* The order of two runs of equal length, given by the code points at their first
\* difference.
FirstDiff(s, t) == FirstNonzero([k \in 1..Len(s) |-> Sgn(Rank[s[k]] - Rank[t[k]])])

\* Runs of digits without leading zeros: the longer one is the larger number.
Number(s, t) == Then(Sgn(Len(s) - Len(t)), FirstDiff(s, t))
NoZeros(s) == SubSeq(s, RunEnd(s, 1, {"0"}), Len(s))

\* The largest u64; a number beyond it does not parse.
U64Max == <<"1", "8", "4", "4", "6", "7", "4", "4", "0", "7", "3", "7", "0", "9", "5", "5", "1", "6", "1", "5">>
FitsU64(s) == Len(s) < Len(U64Max) \/ Number(NoZeros(s), U64Max) # 1

\* Strings: the first difference decides, else the shorter one comes first.
Text(s, t) ==
  LET n == IF Len(s) < Len(t) THEN Len(s) ELSE Len(t)
  IN  Then(FirstDiff(SubSeq(s, 1, n), SubSeq(t, 1, n)), Sgn(Len(s) - Len(t)))

\* Two cursors that move until what is here decides, or neither moves.
Walk(here, ma, mb) ==
  LET cmp[p \in (DOMAIN ma) \X (DOMAIN mb)] ==
        LET q == <<ma[p[1]], mb[p[2]]>>
            c == here[p]
        IN  IF c = 0 /\ q # p THEN cmp[q] ELSE c
  IN  cmp
Cursors(s) == 1..(Len(s) + 1)

-----------------------------------------------------------------------------
(* dpkg. *)

\* ~ comes before the end of the string, letters before other characters.
DpkgOrder(s, i) ==
  IF i > Len(s) \/ At(s, i, Digit) THEN 0
  ELSE IF s[i] = "~" THEN -1
  ELSE IF s[i] \in Letter THEN Rank[s[i]] ELSE Rank[s[i]] + 256

\* verrevcmp: runs of non-digits character by character, runs of digits as numbers.
DpkgStep(a, i, b, j) ==
  IF At(a, i, DOMAIN Rank \ Digit) \/ At(b, j, DOMAIN Rank \ Digit)
  THEN Sgn(DpkgOrder(a, i) - DpkgOrder(b, j))
  ELSE Number(NoZeros(SubSeq(a, i, RunEnd(a, i, Digit) - 1)),
              NoZeros(SubSeq(b, j, RunEnd(b, j, Digit) - 1)))
DpkgMoves(s) ==
  [i \in Cursors(s) |-> IF At(s, i, DOMAIN Rank \ Digit) THEN i + 1 ELSE RunEnd(s, i, Digit)]
DpkgHere(a, b) == [p \in Cursors(a) \X Cursors(b) |-> DpkgStep(a, p[1], b, p[2])]
DpkgVerrevcmp(a, b) == Walk(DpkgHere(a, b), DpkgMoves(a), DpkgMoves(b))[<<1, 1>>]

\* The digits before the first colon, if there is nothing else before it.
Epoch(v) ==
  LET k == RunEnd(v, 1, Digit)
  IN  IF k > 1 /\ At(v, k, {":"}) THEN <<SubSeq(v, 1, k - 1), SubSeq(v, k + 1, Len(v))>>
      ELSE <<<<>>, v>>
EpochNumber(e) == IF FitsU64(e[1]) THEN NoZeros(e[1]) ELSE <<>>

\* The part after the last dash is the revision.
LastDash(s) ==
  LET D == {k \in 1..Len(s) : s[k] = "-"}
  IN  IF D = {} THEN Len(s) + 1 ELSE CHOOSE k \in D : \A l \in D : l <= k
DpkgParts(e) ==
  <<EpochNumber(e), SubSeq(e[2], 1, LastDash(e[2]) - 1), SubSeq(e[2], LastDash(e[2]) + 1, Len(e[2]))>>
DpkgSplit(v) == DpkgParts(Epoch(v))

\* The epochs as numbers, then the versions, then the revisions.
CmpParts(x, y) ==
  Then(Number(x[1], y[1]), Then(DpkgVerrevcmp(x[2], y[2]), DpkgVerrevcmp(x[3], y[3])))
DpkgCompare(a, b) == CmpParts(DpkgSplit(a), DpkgSplit(b))

-----------------------------------------------------------------------------
(* rpm. *)

\* Mutant: a caret comes before the end, as a tilde does.
CaretFirst(ended) == -1

\* A caret against a string that has ended, or that goes on.
Caret(ended) == IF ended THEN 1 ELSE -1

\* Separators are skipped.
Skip(s, i) == RunEnd(s, i, DOMAIN Rank \ (Digit \cup Letter \cup {"~", "^"}))

\* The run of digits or letters at i, and where it ends.
SegmentKind(s, i) == IF s[i] \in Digit THEN Digit ELSE Letter
Segment(s, i, S) == SubSeq(s, i, RunEnd(s, i, S) - 1)

\* Digits beat letters; runs of one kind are compared as numbers or as strings.
CmpSegment(S, x, y) ==
  IF y = <<>> THEN IF S = Digit THEN 1 ELSE -1
  ELSE IF S = Digit THEN Number(NoZeros(x), NoZeros(y)) ELSE Text(x, y)

\* rpmvercmp: ~ comes before the end of the string, ^ after it but before any run.
RpmStep(a, i, b, j) ==
  LET A(c) == At(a, i, {c})
      B(c) == At(b, j, {c})
      atEnd == i > Len(a)
      btEnd == j > Len(b)
  IN  IF A("~") \/ B("~") THEN IF ~A("~") THEN 1 ELSE IF ~B("~") THEN -1 ELSE 0
      ELSE IF A("^") \/ B("^")
      THEN IF ~A("^") THEN -Caret(atEnd) ELSE IF ~B("^") THEN Caret(btEnd) ELSE 0
      ELSE IF atEnd \/ btEnd THEN IF ~btEnd THEN -1 ELSE IF ~atEnd THEN 1 ELSE 0
      ELSE LET S == SegmentKind(a, i) IN CmpSegment(S, Segment(a, i, S), Segment(b, j, S))

\* Past what has been compared, if anything is left.
RpmMove(s, i) ==
  IF i > Len(s) THEN i
  ELSE IF s[i] \in {"~", "^"} THEN i + 1 ELSE RunEnd(s, i, SegmentKind(s, i))
RpmMoves(s) == [i \in Cursors(s) |-> RpmMove(s, Skip(s, i))]
RpmHere(a, b) == [p \in Cursors(a) \X Cursors(b) |-> RpmStep(a, Skip(a, p[1]), b, Skip(b, p[2]))]
Rpmvercmp(a, b) == IF a = b THEN 0 ELSE Walk(RpmHere(a, b), RpmMoves(a), RpmMoves(b))[<<1, 1>>]

\* The epochs as numbers, then what follows them.
CmpEpochs(x, y) == Then(Number(EpochNumber(x), EpochNumber(y)), Rpmvercmp(x[2], y[2]))
RpmCompare(a, b) == CmpEpochs(Epoch(a), Epoch(b))

-----------------------------------------------------------------------------
(* Semantic versions. *)

\* What comes before the first c, and the parts of s between the occurrences of c.
Before(s, c) == SubSeq(s, 1, RunEnd(s, 1, DOMAIN Rank \ {c}) - 1)
Split(s, c) ==
  LET parts[i \in 1..(Len(s) + 1)] ==
        LET k == RunEnd(s, i, DOMAIN Rank \ {c})
        IN  <<SubSeq(s, i, k - 1)>> \o IF k > Len(s) THEN <<>> ELSE parts[k + 1]
  IN  parts[1]

IsNumber(s) == s # <<>> /\ \A k \in 1..Len(s) : s[k] \in Digit

\* An optional v, build metadata dropped, one to three numbers, and after the
\* first dash the pre-release identifiers.
Unprefixed(v) == IF v # <<>> /\ v[1] = "v" THEN Tail(v) ELSE v
SemverCore(v) == Split(Before(Before(v, "+"), "-"), ".")
SemverPre(v) ==
  LET w == Before(v, "+")
      d == Len(Before(w, "-")) + 1
  IN  IF d > Len(w) THEN <<>> ELSE Split(SubSeq(w, d + 1, Len(w)), ".")

\* A number that is not there is 0.
CoreNumber(c, k) == IF k <= Len(c) THEN NoZeros(c[k]) ELSE <<>>

\* Numbers alone parse in the core; no number may be beyond a u64.
ParseSemver(v) ==
  LET c == SemverCore(Unprefixed(v))
      p == SemverPre(Unprefixed(v))
  IN  [parses |-> /\ Len(c) <= 3 /\ \A s \in ToSet(c) : IsNumber(s)
                  /\ \A s \in ToSet(c) \cup ToSet(p) : IsNumber(s) => FitsU64(s),
       core |-> [k \in 1..3 |-> CoreNumber(c, k)], pre |-> p]

\* Numeric identifiers are compared as numbers and come before the others.
CmpPreId(x, y) ==
  IF IsNumber(x) THEN IF IsNumber(y) THEN Number(NoZeros(x), NoZeros(y)) ELSE -1
  ELSE IF IsNumber(y) THEN 1 ELSE Text(x, y)

\* A version with a pre-release comes before the one without.
CmpPre(p, q) ==
  LET n == IF Len(p) < Len(q) THEN Len(p) ELSE Len(q)
  IN  IF p = <<>> \/ q = <<>> THEN Sgn(Len(q) - Len(p))
      ELSE Then(FirstNonzero([k \in 1..n |-> CmpPreId(p[k], q[k])]), Sgn(Len(p) - Len(q)))

\* The numbers in turn, then the pre-releases.
CmpSemver(x, y) ==
  IF ~(x.parses /\ y.parses) THEN NoOrder
  ELSE Then(FirstNonzero([k \in 1..3 |-> Number(x.core[k], y.core[k])]), CmpPre(x.pre, y.pre))
SemverCompare(a, b) == CmpSemver(ParseSemver(a), ParseSemver(b))

-----------------------------------------------------------------------------
(* Advisories: [id, family, name, versions, ranges], a range being [scheme,  *)
(* events] and an event [kind, at]; and for Windows [id, product, aliases,   *)
(* ranges] with one bound of each kind at most.                              *)

Compare(scheme, a, b) ==
  CASE scheme = "dpkg"   -> DpkgCompare(a, b)
    [] scheme = "rpm"    -> RpmCompare(a, b)
    [] scheme = "semver" -> SemverCompare(a, b)

\* A host searches the advisories of its own distribution; one that does not
\* say which it is, those of both.
SourceFamilies(source, os) ==
  CASE source = "dpkg" /\ os \in {"Ubuntu", "Debian"} -> <<os>>
    [] source = "dpkg" /\ os \notin {"Ubuntu", "Debian"} -> <<"Debian", "Ubuntu">>
    [] source = "rpm" -> <<"Rpm">>
    [] OTHER -> <<>>

EcosystemComparator(family) ==
  CASE family \in {"Debian", "Ubuntu"} -> "dpkg" [] family = "Rpm" -> "rpm" [] OTHER -> "semver"

\* range_affects (OSV): the events in order switch the range on and off; what
\* cannot be compared switches it off.
RangeAffects(version, events, scheme) ==
  FoldLeft(LAMBDA on, e :
             \E c \in {Compare(scheme, version, e.at)} :
               CASE e.kind = "introduced"    -> on \/ e.at = <<"0">> \/ c \in {0, 1}
                 [] e.kind = "fixed"         -> on /\ c = -1
                 [] e.kind = "last_affected" -> on /\ c \in {-1, 0},
           FALSE, events)

AffectedMatches(adv, version) ==
  \/ version \in adv.versions
  \/ \E r \in ToSet(adv.ranges) :
       /\ r.type \in {"SEMVER", "ECOSYSTEM"}
       /\ RangeAffects(version, r.events,
                       IF r.type = "SEMVER" THEN "semver" ELSE EcosystemComparator(adv.family))

\* range_affects (NVD): every bound there is must hold, and there must be one.
NvdRangeAffects(version, bounds) ==
  /\ bounds # <<>>
  /\ \A k \in 1..Len(bounds) :
       \E c \in {SemverCompare(version, bounds[k].at)} :
         CASE bounds[k].kind = "introduced"    -> c \in {0, 1}
           [] bounds[k].kind = "fixed"         -> c = -1
           [] bounds[k].kind = "last_affected" -> c \in {-1, 0}

\* The first fix an advisory names, or the advisory itself.
RemediationKey(name, adv) ==
  LET fixes == SelectSeq(FlattenSeq([k \in 1..Len(adv.ranges) |-> adv.ranges[k].events]),
                         LAMBDA e : e.kind = "fixed")
  IN  IF fixes # <<>> THEN <<"upgrade", name, fixes[1].at>> ELSE <<"patch", name, adv.id>>

NvdRemediationKey(adv) == RemediationKey(adv.product, adv)

\* What a match says: the flaw, and its fix.
OsvMatches(name, advs) ==
  [k \in DOMAIN advs |-> [vuln |-> advs[k].id, key |-> RemediationKey(name, advs[k])]]
NvdMatches(advs) == [k \in DOMAIN advs |-> [vuln |-> advs[k].id, key |-> NvdRemediationKey(advs[k])]]

\* Of several hits for one flaw the first counts.
OncePerFlaw(hits) ==
  FoldLeft(LAMBDA out, h : IF \E k \in DOMAIN out : out[k].vuln = h.vuln THEN out
                           ELSE Append(out, h), <<>>, hits)

\* The fixture feed: a name and a version, whatever they come from.
FixtureHits(feed, name, version) ==
  SelectSeq(feed, LAMBDA h : h.name = name /\ h.version = version)

\* OsvSource: family by family, the clauses in the order of the bundle.
OsvHits(osv, source, os, name, version) ==
  LET families == SourceFamilies(source, os)
      Of(family) == SelectSeq(osv, LAMBDA a : /\ a.family = family /\ a.name = name
                                              /\ AffectedMatches(a, version))
  IN  OncePerFlaw(OsvMatches(name, FlattenSeq([f \in 1..Len(families) |-> Of(families[f])])))

\* A display name, normalised, contains an alias of the product.
Identifies(adv, name) == name \in adv.aliases

\* NvdSource: the Windows registry alone.
NvdHits(nvd, source, name, version) ==
  OncePerFlaw(NvdMatches(
    SelectSeq(nvd, LAMBDA a : /\ source = "registry" /\ Identifies(a, name)
                              /\ \E r \in ToSet(a.ranges) : NvdRangeAffects(version, r.events))))

\* The sources a program was given, as one; a source it was not given is empty.
HitsFor(feed, source, os, name, version) ==
  LET fixture == FixtureHits(feed.fixture, name, version)
  IN  ToSet(OncePerFlaw([k \in 1..Len(fixture) |-> [vuln |-> fixture[k].vuln, key |-> fixture[k].key]]
                        \o OsvHits(feed.osv, source, os, name, version)
                        \o NvdHits(feed.nvd, source, name, version)))

-----------------------------------------------------------------------------
(* The inputs: two versions, and the events of a range. *)

CONSTANTS VersionLen,  \* bound: the length of a version
          RangeEvents  \* the events of the ranges tried, in ascending order

VARIABLE subjects      \* [a, b: versions; events: a range]

versionVars == <<subjects>>
NoSubjects == [a |-> <<>>, b |-> <<>>, events |-> <<>>]

VersionsInit == subjects = NoSubjects

\* The characters of Linux package versions, those of semantic versions, or a range.
PickPair(chars) ==
  \E x, y \in UNION {[1..n -> chars] : n \in 0..VersionLen} :
    subjects' = [a |-> x, b |-> y, events |-> <<>>]

PickRange ==
  \E es \in RangeEvents, v \in {"0", "1", "2"} :
    subjects' = [a |-> <<v>>, b |-> <<>>, events |-> es]

VersionsNext ==
  /\ subjects = NoSubjects
  /\ \/ PickPair({"0", "1", "a", ".", "~", "^"})
     \/ PickPair({"0", "2", "a", ".", "-"})
     \/ PickRange

(* Reference orders: a version is read as a sequence of keys, and keys are    *)
(* compared in turn, the missing ones being 0.                                *)

Lex(s, t) ==
  LET n == IF Len(s) > Len(t) THEN Len(s) ELSE Len(t)
      K(u, k) == IF k <= Len(u) THEN u[k] ELSE 0
  IN  FoldLeft(LAMBDA c, k : Then(c, Sgn(K(s, k) - K(t, k))), 0, [k \in 1..n |-> k])

ValueOf(digits) == FoldLeft(LAMBDA n, d : 10 * n + Val(d), 0, digits)

\* Non-digits by their weight, a 0 that ends them, then the number.
DpkgKeys(s) ==
  LET keys[i \in 1..(Len(s) + 1)] ==
        IF i > Len(s) THEN <<>>
        ELSE LET k == RunEnd(s, i, DOMAIN Rank \ Digit)
                 l == RunEnd(s, k, Digit)
             IN  [n \in 1..(k - i) |-> DpkgOrder(s, i + n - 1)]
                 \o <<0, ValueOf(SubSeq(s, k, l - 1))>> \o keys[l]
  IN  keys[1]

\* ~ is -1, the end 0, ^ 1, letters 2 and their text, numbers 3 and their value.
RpmKeys(s) ==
  LET keys[i \in 1..(Len(s) + 1)] ==
        IF i > Len(s) THEN <<>>
        ELSE CASE s[i] = "~" -> <<-1>> \o keys[i + 1]
               [] s[i] = "^" -> <<1>> \o keys[i + 1]
               [] s[i] \in Digit ->
                    LET k == RunEnd(s, i, Digit) IN <<3, ValueOf(SubSeq(s, i, k - 1))>> \o keys[k]
               [] s[i] \in Letter ->
                    LET k == RunEnd(s, i, Letter)
                    IN <<2>> \o [n \in 1..(k - i) |-> Rank[s[i + n - 1]]] \o <<0>> \o keys[k]
               [] OTHER -> keys[i + 1]
  IN  keys[1]

\* dpkg's cursor walk is the order of the keys, hence total and transitive: no
\* version is both before and after another.
DpkgIsOrder == DpkgVerrevcmp(subjects.a, subjects.b) = Lex(DpkgKeys(subjects.a), DpkgKeys(subjects.b))

\* So is rpm's walk over segments, with its tildes and carets.
RpmIsOrder == Rpmvercmp(subjects.a, subjects.b) = Lex(RpmKeys(subjects.a), RpmKeys(subjects.b))

\* Semantic precedence is antisymmetric, and no pre-release equals
\* a release.
SemverIsOrder ==
  LET c == SemverCompare(subjects.a, subjects.b)
  IN  /\ c # NoOrder => SemverCompare(subjects.b, subjects.a) = -c
      /\ c = 0 /\ SemverPre(Unprefixed(subjects.a)) = <<>> =>
           SemverPre(Unprefixed(subjects.b)) = <<>>

\* A version is affected iff the last event at or below it introduces the flaw:
\* the version that carries the fix is not.
RangeExact ==
  LET es == subjects.events
      v  == ValueOf(subjects.a)
      Past(e) == IF e.kind = "last_affected" THEN ValueOf(e.at) < v ELSE ValueOf(e.at) <= v
      P == {k \in 1..Len(es) : Past(es[k])}
  IN  es # <<>> =>
        (RangeAffects(subjects.a, es, "dpkg")
           <=> P # {} /\ es[CHOOSE k \in P : \A l \in P : l <= k].kind = "introduced")

\* The hand-written comparisons are the orders they stand for.
VersionsOrdered == DpkgIsOrder /\ RpmIsOrder /\ SemverIsOrder /\ RangeExact
=============================================================================
