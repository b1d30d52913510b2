SPECIFICATION PartsSpec
CONSTANTS
  Spans = {a, b}
  Root = Root
  None = None
  Listeners = {l, m}
  MaxDepth = 3
  MaxCalls = 5
  Sessions = {"a", "b"}
  InRatio = {"a"}
  NoSession = "none"
  MaxRumInits = 2
  MaxTasks = 2
  WebSockets = {"s1", "s2"}
  Fns = {"f", "g"}
  Captures = {FALSE}
  MaxAdded = 2
  Callbacks = {"f"}
  Events = {"connect", "news"}
  MaxEnables = 2
  MaxOn = 3
  Urls = {"u", "v"}
  Traces = {"a", "b"}
  NoTrace = "none"
  MaxNest = 2
  Dom <- Page
  NoNode = "none"
  Logged <- MCLogged
  Thrown <- MCThrown
  Handed <- HandedOnPage
  MaxInstances = 2
  MaxIncidents = 2
  MaxForeign = 1
  SomeLogged <- MCSomeLogged
  SomeThrown <- MCSomeThrown
  SomeHanded <- MCSomeHanded
SYMMETRY Symmetry
INVARIANTS TypesOK InnermostWith  NoStaleContext SpansOfTheSession  ListenersAsPlain RegisteredAsMeant ResourcesInContext 
CHECK_DEADLOCK FALSE
