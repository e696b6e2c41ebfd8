---------------------------- MODULE Negotiation ----------------------------
(***************************************************************************)
(* Content negotiation, src/src/negotiation.rs: which of the configured    *)
(* formats a client gets for its Accept header.                            *)
(*                                                                         *)
(* A header is the sequence of its comma-separated parts, in order; no     *)
(* header and an empty one are the empty sequence.  A part is a media      *)
(* range, lower case, and what its q= parameters say.                      *)
(***************************************************************************)
EXTENDS Integers, FiniteSets, Sequences

NoFormat == "no format"

\* The text of a q= parameter: a number, in thousandths, or no number.  (NaN, which
\* f32 parses and no comparison accepts, is any number that is not positive.)
Number(n) == [parses |-> TRUE, value |-> n]
Text == [parses |-> FALSE, value |-> 0]

\* A part that is empty, or is no type/subtype, has a range that matches nothing.
Part(type, subtype, qs) == [range |-> <<type, subtype>>, qs |-> qs]

ContentType(format) == <<"image", format>>

\* The last q= parameter counts; without one, and when it is no number, it is 1.0.
Quality(part) ==
    IF part.qs = <<>> \/ ~part.qs[Len(part.qs)].parses THEN 1000
    ELSE part.qs[Len(part.qs)].value

MatchesType(range, type) ==
    range \in {<<"*", "*">>, type, <<type[1], "*">>}

\* Mutant: a part counts whether it refuses the format or accepts it.
AcceptsMentioned(header, format) ==
    \/ header = <<>>
    \/ \E i \in DOMAIN header : MatchesType(header[i].range, ContentType(format))

\* The largest quality of the parts that match is positive.
Accepts(header, format) ==
    \/ header = <<>>
    \/ \E i \in DOMAIN header :
          MatchesType(header[i].range, ContentType(format)) /\ Quality(header[i]) > 0

\* The first of the configured formats that the header accepts.
NegotiateFormat(header, formats) ==
    LET accepted == {i \in DOMAIN formats : Accepts(header, formats[i])} IN
    IF accepted = {} THEN NoFormat
    ELSE formats[CHOOSE i \in accepted : \A j \in accepted : i <= j]

-----------------------------------------------------------------------------
(* What the header says, by RFC 7231, section 5.3.2                        *)

Specificity(range) ==
    IF range[1] = "*" THEN 0 ELSE IF range[2] = "*" THEN 1 ELSE 2

\* Of the parts that match a format the most specific ones decide.
Permits(header, format) ==
    LET matching == {i \in DOMAIN header : MatchesType(header[i].range, ContentType(format))} IN
    \/ header = <<>>
    \/ \E i \in matching :
          /\ Quality(header[i]) > 0
          /\ \A j \in matching : Specificity(header[j].range) <= Specificity(header[i].range)
=============================================================================
