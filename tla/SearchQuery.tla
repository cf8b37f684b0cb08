---------------------------- MODULE SearchQuery ----------------------------
(***************************************************************************)
(* The plan of a lexical query (internal/symbol/query_tokens.go and        *)
(* internal/search/lexical/query.go): which tokens are matched, and which  *)
(* fragments name a symbol or a path of the index.                         *)
(*                                                                         *)
(* A query is a sequence of fragments.  A fragment is [raw, tokens,        *)
(* features]: what was typed, what IdentifierNormalizer makes of it, and   *)
(* what queryFragmentStyle looks at.                                       *)
(***************************************************************************)
EXTENDS Integers, FiniteSets, SequencesExt

CONSTANT MaxTokens      \* query_limits.max_tokens

ASSUME SearchQueryAssumption == MaxTokens \in Nat \ {0}

(* ClassifyQuery *)

Style(f) ==
  IF f.features \cap {"slash", "extension"} # {} THEN "path"
  ELSE IF f.features \cap {"separator", "digit", "upper inside"} # {} THEN "identifier"
  ELSE IF "upper first" \in f.features /\ "one letter" \notin f.features THEN "name"
  ELSE "text"

\* The elements of s at the positions of I, in their order.
Picked(s, I) ==
  [k \in 1..Cardinality(I) |-> s[CHOOSE i \in I : Cardinality({j \in I : j < i}) = k - 1]]

Anchor(f) == [raw |-> f.raw, norm |-> f.tokens, high |-> Style(f) # "name"]
Fragments(q, styles) == Picked(q, {i \in DOMAIN q : Style(q[i]) \in styles})
Anchors(fragments) == [i \in DOMAIN fragments |-> Anchor(fragments[i])]
Tokens(fragments) == FlattenSeq([i \in DOMAIN fragments |-> fragments[i].tokens])

\* A word on its own is looked up as a symbol too.
IdentifierCandidates(q) ==
  IF Len(q) = 1 /\ Style(q[1]) = "text" THEN Anchors(q)
  ELSE Anchors(Fragments(q, {"identifier", "name"}))
PathCandidates(q) == Anchors(Fragments(q, {"path"}))
ExactSymbolCandidate(q) == IF Len(q) = 1 /\ Style(q[1]) # "path" THEN q[1].tokens ELSE <<>>

-----------------------------------------------------------------------------
(* BuildQuery *)

Deduplicate(s) == FoldLeft(LAMBDA out, x : IF x \in ToSet(out) THEN out ELSE Append(out, x), <<>>, s)

\* One anchor of each text; it is explicit when any of them was.
DeduplicateAnchors(s) ==
  LET same(a, b) == a.raw = b.raw /\ a.norm = b.norm
      first(i) == \A j \in 1..(i - 1) : ~same(s[i], s[j])
      merged == [i \in DOMAIN s |-> [s[i] EXCEPT !.high = \E j \in DOMAIN s : same(s[i], s[j]) /\ s[j].high]]
  IN Picked(merged, {i \in DOMAIN s : first(i)})

Normalized(anchors) == Deduplicate([i \in DOMAIN anchors |-> anchors[i].norm])
HighConfidence(anchors) == Picked(anchors, {i \in DOMAIN anchors : anchors[i].high})

All(q) == Tokens(Fragments(q, {"path", "identifier", "name"})) \o Tokens(Fragments(q, {"text"}))

QueryError(query) ==
  IF query.malformed THEN "INVALID_QUERY"               \* not UTF-8, too many bytes
  ELSE IF All(query.fragments) = <<>> THEN "EMPTY_QUERY"
  ELSE IF Len(All(query.fragments)) > MaxTokens \/ query.longToken THEN "INVALID_QUERY"
  ELSE ""

BuildQuery(query) ==
  LET q == query.fragments
      symbols == DeduplicateAnchors(IdentifierCandidates(q))
      paths == DeduplicateAnchors(PathCandidates(q))
      explicit == Normalized(HighConfidence(symbols))
      text == Tokens(Fragments(q, {"text"})) # <<>>
  IN [symbols  |-> symbols,
      paths    |-> paths,
      explicit |-> explicit,
      text     |-> text,
      selected |-> Deduplicate(All(q)),
      exact    |-> ExactSymbolCandidate(q),
      shape    |-> IF explicit = <<>> /\ paths = <<>> THEN "descriptive"
                   ELSE IF text /\ Len(q) > 1 THEN "mixed" ELSE "anchor"]

\* A capitalised word becomes an anchor when the index has such a symbol.
EffectiveShape(plan, found) ==
  IF plan.shape # "descriptive" \/ found = 0 THEN plan.shape
  ELSE IF plan.text \/ Len(plan.selected) > 1 THEN "mixed" ELSE "anchor"
EffectiveAnchors(plan, symbols) ==
  Deduplicate(plan.explicit \o [i \in DOMAIN symbols |-> symbols[i].anchor])
=============================================================================
