------------------------- MODULE NegotiationProofs -------------------------
(***************************************************************************)
(* Proofs about Negotiation, for any headers and any configured formats.   *)
(***************************************************************************)
EXTENDS Negotiation, WellFoundedInduction, TLAPS

\* A set of natural numbers that is not empty has a least element.
LEMMA LeastElement ==
    ASSUME NEW S, S \subseteq Nat, S # {}
    PROVE  \E i \in S : \A j \in S : i <= j
<1>1. PICK i \in S : \A j \in S : ~(<<j, i>> \in OpToRel(<, Nat))
  BY NatLessThanWellFounded, WFMin
<1>2. ASSUME NEW j \in S PROVE i <= j
  <2>1. ~(j < i)
    BY <1>1 DEF OpToRel
  <2>2. QED
    BY <2>1
<1>3. QED
  BY <1>2

\* What negotiate_format returns is a configured format that the header accepts,
\* and none of the formats configured before it is accepted; when it returns no
\* format, none is.
LEMMA FirstAccepted ==
    ASSUME NEW header, NEW Format, NEW formats \in Seq(Format), NoFormat \notin Format
    PROVE  LET f == NegotiateFormat(header, formats) IN
           \/ /\ f = NoFormat
              /\ \A i \in DOMAIN formats : ~Accepts(header, formats[i])
           \/ /\ f # NoFormat /\ Accepts(header, f)
              /\ \E i \in DOMAIN formats :
                    /\ formats[i] = f
                    /\ \A j \in DOMAIN formats : j < i => ~Accepts(header, formats[j])
<1> DEFINE accepted == {i \in DOMAIN formats : Accepts(header, formats[i])}
<1>1. CASE accepted = {}
  BY <1>1 DEF NegotiateFormat
<1>2. CASE accepted # {}
  <2>1. accepted \subseteq Nat
    OBVIOUS
  <2> DEFINE first == CHOOSE i \in accepted : \A j \in accepted : i <= j
  <2>2. first \in accepted /\ \A j \in accepted : first <= j
    BY <1>2, <2>1, LeastElement
  <2>3. NegotiateFormat(header, formats) = formats[first]
    BY <1>2 DEF NegotiateFormat
  <2> HIDE DEF first
  <2>4. formats[first] \in Format /\ Accepts(header, formats[first])
    BY <2>2
  <2>5. ASSUME NEW j \in DOMAIN formats, j < first PROVE ~Accepts(header, formats[j])
    BY <2>1, <2>2, <2>5
  <2>6. QED
    BY <2>2, <2>3, <2>4, <2>5
<1>3. QED
  BY <1>1, <1>2

\* Every format that RFC 7231 permits is accepted: where negotiate_format and the
\* RFC differ, it sends a format that a more specific range refuses.
THEOREM PermittedIsAccepted ==
    ASSUME NEW header, NEW format, Permits(header, format)
    PROVE  Accepts(header, format)
BY DEF Permits, Accepts

\* Where they differ, a part that accepts the format is less specific than one that
\* matches it too and refuses it: accept_quality takes the largest quality of all.
THEOREM WildcardOverrules ==
    ASSUME NEW header, NEW format, Accepts(header, format), ~Permits(header, format)
    PROVE  \E i, j \in DOMAIN header :
              /\ MatchesType(header[i].range, ContentType(format)) /\ Quality(header[i]) > 0
              /\ MatchesType(header[j].range, ContentType(format)) /\ ~(Quality(header[j]) > 0)
              /\ Specificity(header[i].range) < Specificity(header[j].range)
<1> DEFINE matching == {i \in DOMAIN header : MatchesType(header[i].range, ContentType(format))}
           grade(i) == Specificity(header[i].range)
<1>1. PICK i \in matching : Quality(header[i]) > 0
  BY DEF Permits, Accepts
<1>2. \A j \in matching : grade(j) \in {0, 1, 2}
  BY DEF Specificity
<1>3. \A l \in matching : Quality(header[l]) > 0 => \E j \in matching : ~(grade(j) <= grade(l))
  BY DEF Permits
<1> HIDE DEF grade
<1>4. PICK j \in matching : \A l \in matching : grade(l) <= grade(j)
  <2>1. CASE \E j \in matching : grade(j) = 2
    BY <1>2, <2>1
  <2>2. CASE (\A j \in matching : grade(j) # 2) /\ \E j \in matching : grade(j) = 1
    BY <1>2, <2>2
  <2>3. CASE \A j \in matching : grade(j) # 2 /\ grade(j) # 1
    BY <1>1, <1>2, <2>3
  <2>4. QED
    BY <2>1, <2>2, <2>3
<1>5. ~(Quality(header[j]) > 0)
  BY <1>3, <1>4
<1>6. grade(i) < grade(j)
  <2>1. grade(i) # grade(j)
    BY <1>1, <1>3, <1>4
  <2>2. QED
    BY <1>2, <1>4, <2>1
<1>7. QED
  BY <1>1, <1>5, <1>6 DEF grade

\* They do not differ while no part of the header refuses anything.
THEOREM AcceptedIsPermitted ==
    ASSUME NEW header, NEW format, Accepts(header, format),
           \A i \in DOMAIN header : Quality(header[i]) > 0
    PROVE  Permits(header, format)
BY WildcardOverrules

\* A client whose header permits a configured format gets a format, and none that is
\* configured after the first one it permits.
THEOREM PermittedIsServed ==
    ASSUME NEW header, NEW Format, NEW formats \in Seq(Format), NoFormat \notin Format,
           NEW i \in DOMAIN formats, Permits(header, formats[i])
    PROVE  \E j \in DOMAIN formats : j <= i /\ NegotiateFormat(header, formats) = formats[j]
<1>1. Accepts(header, formats[i])
  BY PermittedIsAccepted
<1>2. PICK j \in DOMAIN formats :
        /\ formats[j] = NegotiateFormat(header, formats)
        /\ \A l \in DOMAIN formats : l < j => ~Accepts(header, formats[l])
  BY <1>1, FirstAccepted
<1>3. ~(i < j)
  BY <1>1, <1>2
<1>4. QED
  BY <1>2, <1>3

\* Where no part of the header refuses anything, negotiate_format is what RFC 7231
\* and the order of the configured formats say: it returns a permitted format of which
\* none before it is permitted, and no format only where none is permitted.
THEOREM ServesFirstPermitted ==
    ASSUME NEW header, NEW Format, NEW formats \in Seq(Format), NoFormat \notin Format,
           \A i \in DOMAIN header : Quality(header[i]) > 0
    PROVE  LET f == NegotiateFormat(header, formats) IN
           \/ f = NoFormat /\ \A i \in DOMAIN formats : ~Permits(header, formats[i])
           \/ \E i \in DOMAIN formats :
                 /\ formats[i] = f /\ Permits(header, f)
                 /\ \A j \in DOMAIN formats : j < i => ~Permits(header, formats[j])
<1>1. \A i \in DOMAIN formats : Permits(header, formats[i]) <=> Accepts(header, formats[i])
  BY PermittedIsAccepted, AcceptedIsPermitted
<1>2. QED
  BY <1>1, FirstAccepted
=============================================================================
