----------------------------- MODULE RegionHints -----------------------------
(****************************************************************************)
(* What the agent makes of the regions a user names (retrieve.py and         *)
(* spots/services/search.py).  A hint is a sequence of words; each word, and *)
(* the hint as a whole, is a token that is looked up among the names of the  *)
(* regions table.  What comes out is a set of beginnings of addresses, and   *)
(* every scoped query keeps the spots whose address begins with one of them. *)
(*                                                                           *)
(* A name, an address and a beginning are sequences of words: the province   *)
(* (sido), then the city or county, then the district of a city.             *)
(****************************************************************************)
EXTENDS Integers, Sequences, FiniteSets, SequencesExt

CONSTANTS
    NoRegion,      \* what a token that cannot be resolved is resolved to
    Named,         \* the rows of the tables regions and sigungus that a token's
                   \* spelling begins: LIKE 'token%', its short spellings included
    Merged         \* the name a province has in new addresses, or NoRegion

Tokens == DOMAIN Named

ASSUME RegionAssumption ==
    /\ Tokens \subseteq Seq(STRING)
    /\ \A t \in Tokens : Named[t] \subseteq Seq(STRING) \ {<<>>}
    /\ \A t \in Tokens : \A row \in Named[t] : Len(row) <= 3 /\ row[1] \in DOMAIN Merged
    /\ NoRegion \notin DOMAIN Merged

MaxHintTokens == 4

\* _hint_tokens
HintTokens(hint) ==
    {hint} \cup {<<hint[i]>> : i \in 1..(IF Len(hint) < MaxHintTokens THEN Len(hint) ELSE MaxHintTokens)}

\* _merged_districts: several sigungus are one region when they are the
\* districts of one city (the common beginning of their names).
Districts(rows) ==
    LET one == CHOOSE row \in rows : TRUE
        shared == SubSeq(one, 1, 2)
    IN  IF \A row \in rows : Len(row) = 3 /\ SubSeq(row, 1, 2) = shared THEN shared ELSE NoRegion

\* _pick_region_prefix: a province before its cities; none of several.
Picked(token) ==
    LET rows == IF token \in Tokens THEN Named[token] ELSE {}
        sidos == {row \in rows : Len(row) = 1}
    IN  IF sidos # {} THEN IF Cardinality(sidos) = 1 THEN CHOOSE row \in sidos : TRUE ELSE NoRegion
        ELSE IF rows = {} THEN NoRegion
        ELSE IF Cardinality(rows) = 1 THEN CHOOSE row \in rows : TRUE
        ELSE Districts(rows)

\* map_region_tokens_to_prefixes
Resolved(hints) ==
    {Picked(t) : t \in UNION {HintTokens(hints[i]) : i \in DOMAIN hints}} \ {NoRegion}

\* RegionPrefix.prefixes: the address may be written with the merged name.
Spellings(prefix) ==
    {prefix} \cup (IF Merged[prefix[1]] = NoRegion THEN {} ELSE {<<Merged[prefix[1]]>> \o Tail(prefix)})

Covers(wide, narrow) == IsPrefix(wide, narrow) /\ wide # narrow

\* Slip: the spellings are expanded before what is covered is dropped.
ExpandedFirst(hints) ==
    LET all == UNION {Spellings(p) : p \in Resolved(hints)}
    IN  {p \in all : ~\E q \in all : Covers(p, q)}

\* resolve_region_scope: a region that holds another one of the turn gives way
\* to it (_drop_covered), then the merged spellings are added (_expand_merged).
Scope(hints) ==
    LET kept == {p \in Resolved(hints) : ~\E q \in Resolved(hints) : Covers(p, q)}
    IN  UNION {Spellings(p) : p \in kept}

\* map_region_tokens_to_sido: the one province a token can mean, city or not.
SidoOf(token) ==
    LET sidos == IF token \in Tokens THEN {row[1] : row \in Named[token]} ELSE {}
    IN  IF Cardinality(sidos) = 1 THEN CHOOSE sido \in sidos : TRUE ELSE NoRegion

\* addr1 LIKE ANY: a NULL address matches nothing.
Within(addr, scope) == addr # NoRegion /\ \E p \in scope : IsPrefix(p, addr)
================================================================================
