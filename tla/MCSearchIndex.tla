----------------------------- MODULE MCSearchIndex ------------------------------
(* A unit of time is ten minutes.  This node indexes a content under two metas, *)
(* the second of which has fewer tokens, and one that its store does not have;  *)
(* another node publishes a third.  The query leaves the size of a page to the  *)
(* default, which is two: three matches have a second page that is short.       *)
EXTENDS SearchIndex

CONSTANTS mine, theirs, lost

words == {"The", "Suits", "suits", "Pilot", "mkv", "x"}
lower == [w \in words |-> CASE w = "The" -> "the" [] w = "Suits" -> "suits"
                            [] w = "Pilot" -> "pilot" [] OTHER -> w]
extensions == {"mkv"}
stopWords == {"the"}
short == {"x"}

Plain(content, words1) ==
    [content |-> content, name |-> [stem |-> words1, ext |-> <<>>],
     tags |-> {}, keywords |-> {}, type |-> <<"The">>]
metas ==
    {[content |-> mine, name |-> [stem |-> <<"The", "Suits">>, ext |-> <<"mkv">>],
      tags |-> {<<"Pilot">>}, keywords |-> {<<"suits", "x">>}, type |-> <<"mkv">>],
     Plain(mine, <<"Pilot">>), Plain(lost, <<"Pilot">>)}

elsewhere == [tok \in {lower[w] : w \in words} |->
    IF tok = "pilot" THEN [c \in {theirs} |-> 5] ELSE <<>>]

queries == {[text |-> <<"The", "Pilot", "Suits">>, passes |-> {mine, theirs, lost}, maxResults |-> 0]}
==============================================================================
