---------------------------- MODULE MCInputLogic ----------------------------
(***************************************************************************)
(* Small instances of InputLogic: a letter, a digit, a closing mark, a     *)
(* separator that is none, and a symbol that is also an emoji.             *)
(***************************************************************************)
EXTENDS InputLogic, TLC

OneLetter == {"a"}
Marks == {".", "/"}

\* The suggester corrects one typed word, to a longer one.
Corrections == (<<"a">> :> <<"a", "a">>)

\* lastPartLooksLikeURL: two slashes since the last space.
Slashes(text) ==
  \E i \in 1..(Len(text) - 1) :
    /\ text[i] = "/" /\ text[i + 1] = "/"
    /\ \A j \in (i + 1)..Len(text) : text[j] # " "

NoURL(text) == FALSE
NoWords == {}
NoCorrections == [w \in {} |-> <<>>]

StripWords == {<<"a">>}
Hosts == {<<>>, <<"a">>}

\* The search goes on from texts of three characters, or four without a digit.
ShortDigits == Len(doc) <= 3 \/ \A i \in DOMAIN doc : doc[i] # "1"
=============================================================================
