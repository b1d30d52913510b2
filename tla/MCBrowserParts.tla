----------------------------- MODULE MCBrowserParts -----------------------------
(* Instances of BrowserParts for model checking. *)
EXTENDS BrowserParts, MCPage, TLC

MCSomeLogged ==
  {<<Err(TRUE)>>, <<Text("error"), Err(FALSE)>>, <<Text("breaks"), Text("useful")>>}
MCSomeThrown == {Err(FALSE), Object("Event", <<>>, "second")}
MCSomeHanded == {Err(FALSE)}
MCLogged == MCSomeLogged \cup {<<>>, <<Err(FALSE)>>}
MCThrown ==
  {Text("useful")} \cup {Object("Event", <<>>, n) : n \in DOMAIN Page}
  \cup {v \in HandedOnPage : v.is \in {"Error", "ErrorEvent"}}

\* Contexts and listeners are only compared for equality, and no other part knows them.
Symmetry == Permutations(Spans) \cup Permutations(Listeners)

=============================================================================
