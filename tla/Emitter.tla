------------------------------- MODULE Emitter -------------------------------
(***************************************************************************)
(* What an application may expect of one event of a Node event emitter,    *)
(* bound to a context or not: listeners are called in their order, for     *)
(* every event those that were there when it was emitted; a "once"         *)
(* listener is taken out before it is called; removing a listener takes    *)
(* out its latest addition.                                                *)
(***************************************************************************)
EXTENDS Naturals, Sequences

CONSTANTS
  Listeners,   \* the functions of the application
  All,         \* stands for a request to remove all listeners
  Keys         \* identities of additions; they matter for "once" only

VARIABLES
  listeners,   \* the list: listener, once and key of each addition
  pending,     \* what is still to be called for the event being emitted
  removal      \* the latest request to remove: of what, and a bit that flips,
               \* so that a request that has no effect is a step as well

vars == <<listeners, pending, removal>>

Entry == [listener : Listeners, once : BOOLEAN, key : Keys]

KeysOf(s) == {s[i].key : i \in DOMAIN s}

\* s without its last element that satisfies Hit, if there is one
WithoutLast(s, hits) ==
  IF hits = {} THEN s
  ELSE LET last == CHOOSE i \in hits : \A j \in hits : j <= i
       IN  [i \in 1..Len(s) - 1 |-> IF i < last THEN s[i] ELSE s[i + 1]]

Init ==
  /\ listeners = <<>>
  /\ pending = <<>>
  /\ removal = [of |-> All, bit |-> FALSE]

Requests(x) == removal' = [of |-> x, bit |-> ~removal.bit]

Add(e) ==
  /\ e.once => e.key \notin KeysOf(listeners) \cup KeysOf(pending)
  /\ listeners' \in {Append(listeners, e), <<e>> \o listeners}
  /\ UNCHANGED <<pending, removal>>

Remove(l) ==
  /\ Requests(l)
  /\ listeners' = WithoutLast(listeners,
                    {i \in DOMAIN listeners : listeners[i].listener = l})
  /\ UNCHANGED pending

RemoveAll ==
  /\ Requests(All)
  /\ listeners' = <<>>
  /\ UNCHANGED pending

Emit ==
  /\ pending = <<>>
  /\ pending' = listeners
  /\ UNCHANGED <<listeners, removal>>

Call ==
  /\ pending # <<>>
  /\ pending' = Tail(pending)
  /\ listeners' =
       IF Head(pending).once
       THEN WithoutLast(listeners,
              {i \in DOMAIN listeners : listeners[i].key = Head(pending).key})
       ELSE listeners
  /\ UNCHANGED removal

Next ==
  \/ \E e \in Entry : Add(e)
  \/ \E l \in Listeners : Remove(l)
  \/ RemoveAll \/ Emit \/ Call

Spec == Init /\ [][Next]_vars

=============================================================================
