------------------------------ MODULE MCNodeParts ------------------------------
(* Instances of NodeParts for model checking. *)
EXTENDS NodeParts

InApp(fn) == [fn |-> fn, local |-> TRUE, inApp |-> TRUE]
MCThrown ==
  {[hash |-> "A", calls |-> <<InApp("f"), InApp("f")>>, shown |-> <<0, 1, 2>>],
   [hash |-> "B", calls |-> <<[InApp("g") EXCEPT !.local = FALSE], InApp("h")>>,
    shown |-> <<1, 2>>],
   [hash |-> "none", calls |-> <<InApp("g")>>, shown |-> <<>>]}

MCFact == [http |-> "fine", fs |-> "broken"]

MCKeywords == {<<"pass", "word">>}

\* One event fills the cache, one looks a file up that is the oldest of a full cache and
\* reads another, one has a cause and a frame without a file.
MCEventStacks ==
  {<<<<"a", "b", "c">>>>, <<<<"b", "none">>, <<"b", "a">>>>, <<<<"d", "a">>>>}

=============================================================================
