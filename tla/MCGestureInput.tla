--------------------------- MODULE MCGestureInput ---------------------------
(* One letter, one closing mark, an emoji; a word drawn has two letters, a    *)
(* word picked has one.                                                      *)
EXTENDS GestureInput, FiniteSets

NoCorrections == [w \in {} |-> <<"a">>]
NoURL(text) == FALSE
MCGestureWords == {<<"a", "a">>}
MCSuggestedWords == {<<"a">>}
MCHostTexts == {<<>>, <<"a">>}

\* The search goes on from states with no more than one of these: text the
\* composer has not seen, a stroke given up, an ordinary lookup under way, a
\* field for URLs; a closing mark, an emoji, a line end, a space after another;
\* from texts of two characters in trouble, of three with such a mark.
Troubles == (IF unseen THEN {"unseen"} ELSE {}) \cup (IF left THEN {"left"} ELSE {})
              \cup (IF lookup # Idle THEN {"lookup"} ELSE {})
              \cup (IF "url" \in {field, model} THEN {"url"} ELSE {})
Marks == {i \in DOMAIN doc : \/ doc[i] \in {Period, Newline} \cup Emojis
                             \/ i > 1 /\ doc[i] = Space /\ doc[i - 1] = Space}
Focus ==
  /\ Cardinality(Troubles) + Cardinality(Marks) <= 1
  /\ Troubles # {} => Len(doc) <= 2
  /\ Marks # {} => Len(doc) <= 3
=============================================================================
