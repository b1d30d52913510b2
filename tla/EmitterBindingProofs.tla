------------------------- MODULE EmitterBindingProofs -------------------------
(* Theorems about EmitterBinding, for any listeners and any length of lists. *)
EXTENDS EmitterBinding, TLAPS

\* The function in the emitter's list is the one the patch map leads to.
LinkInv ==
  \A i \in DOMAIN installed :
    installed[i].fn = PatchedListener(installed[i].listener)

\* Different listeners have different patched functions.
MapInv ==
  \A l, m \in Listeners : patchMap[l] # NoWrapper /\ patchMap[l] = patchMap[m] => l = m

\* A listener that is being added is in the map, and nowhere else.
AddingInv ==
  \A k \in DOMAIN adding :
    /\ adding[k].fn \in Wrappers
    /\ adding[k].fn = patchMap[adding[k].listener]
    /\ adding[k].fn \notin FnsOf(running)
    /\ ~Present(adding[k].listener)

IInv == TypeOK /\ LinkInv /\ MapInv /\ AddingInv

View(e) == [listener |-> e.listener, once |-> e.once, key |-> e.fn]

-----------------------------------------------------------------------------
(* Sequences.                                                              *)

\* WithoutLast only leaves out elements.
LEMMA WithoutLastElements ==
  ASSUME NEW S, NEW s \in Seq(S), NEW hits, hits \subseteq DOMAIN s
  PROVE  /\ WithoutLast(s, hits) \in Seq(S)
         /\ \A i \in DOMAIN WithoutLast(s, hits) :
              \E j \in DOMAIN s : WithoutLast(s, hits)[i] = s[j]
<1>1. CASE hits = {}
  BY <1>1 DEF WithoutLast
<1>2. CASE hits # {}
  <2>. DEFINE last == CHOOSE i \in hits : \A j \in hits : j <= i
              r == [i \in 1..Len(s) - 1 |-> IF i < last THEN s[i] ELSE s[i + 1]]
  <2>1. WithoutLast(s, hits) = r
    BY <1>2 DEF WithoutLast
  <2>2. Len(s) - 1 \in Nat
    BY <1>2
  <2>3. \A i \in 1..Len(s) - 1 : i \in DOMAIN s /\ i + 1 \in DOMAIN s
    BY <2>2
  <2>4. \A i \in 1..Len(s) - 1 : r[i] = s[i] \/ r[i] = s[i + 1]
    OBVIOUS
  <2>5. r \in [1..Len(s) - 1 -> S]
    BY <2>3
  <2>6. r \in Seq(S)
    BY <2>2, <2>5
  <2>. QED  BY <2>1, <2>3, <2>4, <2>6
<1>. QED  BY <1>1, <1>2

LEMMA AppendFacts ==
  ASSUME NEW S, NEW s \in Seq(S), NEW e \in S
  PROVE  /\ Append(s, e) \in Seq(S)
         /\ Len(Append(s, e)) = Len(s) + 1
         /\ \A i \in 1..Len(s) + 1 :
              Append(s, e)[i] = IF i <= Len(s) THEN s[i] ELSE e
OBVIOUS

LEMMA PrependFacts ==
  ASSUME NEW S, NEW s \in Seq(S), NEW e \in S
  PROVE  /\ <<e>> \o s \in Seq(S)
         /\ Len(<<e>> \o s) = Len(s) + 1
         /\ \A i \in 1..Len(s) + 1 :
              (<<e>> \o s)[i] = IF i = 1 THEN e ELSE s[i - 1]
OBVIOUS

LEMMA TailFacts ==
  ASSUME NEW S, NEW s \in Seq(S), Len(s) >= 1
  PROVE  /\ Tail(s) \in Seq(S)
         /\ Len(Tail(s)) = Len(s) - 1
         /\ \A i \in 1..Len(s) - 1 : Tail(s)[i] = s[i + 1]
OBVIOUS

\* The user's view of a sequence has its length and the views of its elements.
LEMMA UserViewElements ==
  ASSUME NEW s \in Seq(Entry)
  PROVE  /\ UserView(s) \in Seq(Plain!Entry)
         /\ Len(UserView(s)) = Len(s)
         /\ DOMAIN UserView(s) = DOMAIN s
         /\ \A i \in DOMAIN s : UserView(s)[i] = View(s[i])
<1>1. \A i \in DOMAIN s : s[i] \in Entry
  OBVIOUS
<1>2. \A i \in DOMAIN s : UserView(s)[i] = View(s[i])
  BY DEF UserView, View
<1>3. \A i \in DOMAIN s : View(s[i]) \in Plain!Entry
  BY <1>1 DEF View, Entry, Plain!Entry
<1>4. DOMAIN UserView(s) = 1..Len(s) /\ Len(s) \in Nat
  BY DEF UserView
<1>5. UserView(s) \in [1..Len(s) -> Plain!Entry]
  BY <1>2, <1>3, <1>4 DEF UserView
<1>. QED  BY <1>2, <1>4, <1>5

LEMMA SameSequence ==
  ASSUME NEW S, NEW s \in Seq(S), NEW t \in Seq(S), Len(s) = Len(t),
         \A i \in 1..Len(s) : s[i] = t[i]
  PROVE  s = t
<1>1. s = [i \in 1..Len(s) |-> s[i]] /\ t = [i \in 1..Len(s) |-> t[i]]
  OBVIOUS
<1>. QED  BY <1>1

LEMMA UserViewAppend ==
  ASSUME NEW s \in Seq(Entry), NEW e \in Entry
  PROVE  UserView(Append(s, e)) = Append(UserView(s), View(e))
<1>. DEFINE r == Append(s, e)
            v == UserView(s)
            w == Append(v, View(e))
<1>1. r \in Seq(Entry)
  OBVIOUS
<1>. HIDE DEF r
<1>2. /\ UserView(r) \in Seq(Plain!Entry)
      /\ Len(UserView(r)) = Len(r)
      /\ \A i \in 1..Len(r) : UserView(r)[i] = View(r[i])
  BY <1>1, UserViewElements
<1>3. /\ v \in Seq(Plain!Entry)
      /\ Len(v) = Len(s)
      /\ \A i \in 1..Len(s) : v[i] = View(s[i])
  BY UserViewElements
<1>4. View(e) \in Plain!Entry
  BY DEF View, Entry, Plain!Entry
<1>. HIDE DEF v
<1>7. Len(r) = Len(s) + 1 /\ \A i \in 1..Len(s) + 1 : r[i] = IF i <= Len(s) THEN s[i] ELSE e
  BY AppendFacts DEF r
<1>8. /\ w \in Seq(Plain!Entry)
      /\ Len(w) = Len(v) + 1
      /\ \A i \in 1..Len(v) + 1 : w[i] = IF i <= Len(v) THEN v[i] ELSE View(e)
  BY <1>3, <1>4, AppendFacts
<1>5. w \in Seq(Plain!Entry) /\ Len(w) = Len(r)
  BY <1>3, <1>7, <1>8
<1>6. \A i \in 1..Len(r) : w[i] = View(r[i])
  BY <1>3, <1>7, <1>8
<1>. QED  BY <1>2, <1>5, <1>6, SameSequence DEF r, v

LEMMA UserViewPrepend ==
  ASSUME NEW s \in Seq(Entry), NEW e \in Entry
  PROVE  UserView(<<e>> \o s) = <<View(e)>> \o UserView(s)
<1>. DEFINE r == <<e>> \o s
            v == UserView(s)
            w == <<View(e)>> \o v
<1>1. r \in Seq(Entry)
  OBVIOUS
<1>. HIDE DEF r
<1>2. /\ UserView(r) \in Seq(Plain!Entry)
      /\ Len(UserView(r)) = Len(r)
      /\ \A i \in 1..Len(r) : UserView(r)[i] = View(r[i])
  BY <1>1, UserViewElements
<1>3. /\ v \in Seq(Plain!Entry)
      /\ Len(v) = Len(s)
      /\ \A i \in 1..Len(s) : v[i] = View(s[i])
  BY UserViewElements
<1>4. View(e) \in Plain!Entry
  BY DEF View, Entry, Plain!Entry
<1>. HIDE DEF v
<1>7. Len(r) = Len(s) + 1 /\ \A i \in 1..Len(s) + 1 : r[i] = IF i = 1 THEN e ELSE s[i - 1]
  BY PrependFacts DEF r
<1>8. /\ w \in Seq(Plain!Entry)
      /\ Len(w) = Len(v) + 1
      /\ \A i \in 1..Len(v) + 1 : w[i] = IF i = 1 THEN View(e) ELSE v[i - 1]
  BY <1>3, <1>4, PrependFacts
<1>5. w \in Seq(Plain!Entry) /\ Len(w) = Len(r)
  BY <1>3, <1>7, <1>8
<1>6. \A i \in 1..Len(r) : w[i] = View(r[i])
  BY <1>3, <1>7, <1>8
<1>. QED  BY <1>2, <1>5, <1>6, SameSequence DEF r, v

LEMMA UserViewTail ==
  ASSUME NEW s \in Seq(Entry), s # <<>>
  PROVE  UserView(Tail(s)) = Tail(UserView(s))
<1>. DEFINE r == Tail(s)
            v == UserView(s)
            w == Tail(v)
<1>1. r \in Seq(Entry)
  OBVIOUS
<1>. HIDE DEF r
<1>2. /\ UserView(r) \in Seq(Plain!Entry)
      /\ Len(UserView(r)) = Len(r)
      /\ \A i \in 1..Len(r) : UserView(r)[i] = View(r[i])
  BY <1>1, UserViewElements
<1>3. /\ v \in Seq(Plain!Entry)
      /\ Len(v) = Len(s)
      /\ \A i \in 1..Len(s) : v[i] = View(s[i])
  BY UserViewElements
<1>. HIDE DEF v
<1>9. Len(s) >= 1
  OBVIOUS
<1>7. Len(r) = Len(s) - 1 /\ \A i \in 1..Len(s) - 1 : r[i] = s[i + 1]
  BY <1>9, TailFacts DEF r
<1>8. /\ w \in Seq(Plain!Entry)
      /\ Len(w) = Len(v) - 1
      /\ \A i \in 1..Len(v) - 1 : w[i] = v[i + 1]
  BY <1>3, <1>9, TailFacts
<1>5. w \in Seq(Plain!Entry) /\ Len(w) = Len(r)
  BY <1>3, <1>7, <1>8
<1>6. \A i \in 1..Len(r) : w[i] = View(r[i])
  BY <1>3, <1>7, <1>8
<1>. QED  BY <1>2, <1>5, <1>6, SameSequence DEF r, v

LEMMA UserViewHead ==
  ASSUME NEW s \in Seq(Entry), s # <<>>
  PROVE  UserView(s) # <<>> /\ Head(UserView(s)) = View(Head(s))
<1>1. Len(UserView(s)) = Len(s) /\ \A i \in 1..Len(s) : UserView(s)[i] = View(s[i])
  BY UserViewElements
<1>2. UserView(s) \in Seq(Plain!Entry)
  BY UserViewElements
<1>3. Len(s) >= 1 /\ Head(s) = s[1]
  OBVIOUS
<1>. QED  BY <1>1, <1>2, <1>3

LEMMA UserViewWithoutLast ==
  ASSUME NEW s \in Seq(Entry), NEW hits, hits \subseteq DOMAIN s
  PROVE  UserView(WithoutLast(s, hits)) = Plain!WithoutLast(UserView(s), hits)
<1>1. CASE hits = {}
  BY <1>1 DEF WithoutLast, Plain!WithoutLast
<1>2. CASE hits # {}
  <2>. DEFINE last == CHOOSE i \in hits : \A j \in hits : j <= i
              r == [i \in 1..Len(s) - 1 |-> IF i < last THEN s[i] ELSE s[i + 1]]
              v == UserView(s)
              p == [i \in 1..Len(v) - 1 |-> IF i < last THEN v[i] ELSE v[i + 1]]
  <2>1. WithoutLast(s, hits) = r /\ Plain!WithoutLast(v, hits) = p
    BY <1>2 DEF WithoutLast, Plain!WithoutLast
  <2>2. \A i \in 1..Len(s) - 1 : i \in DOMAIN s /\ i + 1 \in DOMAIN s
    BY <1>2
  <2>3. Len(v) = Len(s) /\ \A i \in DOMAIN s : v[i] = View(s[i])
    BY UserViewElements
  <2>4. \A i \in 1..Len(s) - 1 : p[i] = View(r[i])
    BY <2>2, <2>3
  <2>5. UserView(r) = [i \in 1..Len(s) - 1 |-> View(r[i])]
    BY DEF UserView, View
  <2>. HIDE DEF r, v
  <2>6. p = [i \in 1..Len(s) - 1 |-> View(r[i])]
    BY <2>3, <2>4
  <2>. QED  BY <2>1, <2>5, <2>6 DEF v
<1>. QED  BY <1>1, <1>2
-----------------------------------------------------------------------------
(* The patch map.                                                          *)

\* Two listeners never lead to the same function.
LEMMA PatchedInjective ==
  ASSUME TypeOK, MapInv, NEW l \in Listeners, NEW m \in Listeners,
         PatchedListener(l) = PatchedListener(m)
  PROVE  l = m
<1>1. patchMap[l] \in Wrappers \cup {NoWrapper} /\ patchMap[m] \in Wrappers \cup {NoWrapper}
  BY DEF TypeOK
<1>2. CASE patchMap[l] = NoWrapper /\ patchMap[m] = NoWrapper
  BY <1>2 DEF PatchedListener
<1>3. CASE patchMap[l] # NoWrapper /\ patchMap[m] # NoWrapper
  BY <1>3 DEF PatchedListener, MapInv
<1>4. CASE (patchMap[l] = NoWrapper) # (patchMap[m] = NoWrapper)
  BY <1>1, <1>4, ConstAssumption DEF PatchedListener
<1>. QED  BY <1>2, <1>3, <1>4

\* What Node looks for when a patched removeListener runs are the additions of
\* the listener.
LEMMA HitsOfListener ==
  ASSUME TypeOK, MapInv, LinkInv, NEW l \in Listeners
  PROVE  {i \in DOMAIN installed : installed[i].fn = PatchedListener(l)}
           = {i \in DOMAIN installed : installed[i].listener = l}
<1>1. ASSUME NEW i \in DOMAIN installed
      PROVE  installed[i].fn = PatchedListener(l) <=> installed[i].listener = l
  <2>1. installed[i] \in Entry
    BY DEF TypeOK
  <2>3. installed[i].listener \in Listeners
    BY <2>1 DEF Entry
  <2>2. installed[i].fn = PatchedListener(installed[i].listener)
    BY DEF LinkInv
  <2>. QED  BY <2>2, <2>3, PatchedInjective
<1>. QED  BY <1>1

\* The function of an addition under way is nowhere in use.
LEMMA AddingApart ==
  ASSUME IInv, adding # <<>>
  PROVE  /\ adding[1] \in Entry
         /\ adding[1].fn \notin FnsOf(installed) \cup FnsOf(running)
         /\ adding[1].fn = PatchedListener(adding[1].listener)
         /\ ~Present(adding[1].listener)
<1>1. 1 \in DOMAIN adding /\ adding[1] \in Entry
  BY DEF IInv, TypeOK
<1>2. /\ adding[1].fn \in Wrappers
      /\ adding[1].fn = patchMap[adding[1].listener]
      /\ adding[1].fn \notin FnsOf(running)
      /\ ~Present(adding[1].listener)
  BY <1>1 DEF IInv, AddingInv
<1>3. adding[1].fn = PatchedListener(adding[1].listener)
  BY <1>2, ConstAssumption DEF PatchedListener
<1>4. adding[1].fn \notin FnsOf(installed)
  <2>. SUFFICES ASSUME NEW i \in DOMAIN installed, installed[i].fn = adding[1].fn
                PROVE  FALSE
    BY DEF FnsOf
  <2>4. installed[i] \in Entry
    BY DEF IInv, TypeOK
  <2>1. installed[i].listener \in Listeners /\ adding[1].listener \in Listeners
    BY <1>1, <2>4 DEF Entry
  <2>2. installed[i].fn = PatchedListener(installed[i].listener)
    BY DEF IInv, LinkInv
  <2>3. installed[i].listener = adding[1].listener
    BY <1>3, <2>1, <2>2, PatchedInjective DEF IInv
  <2>. QED  BY <1>2, <2>3 DEF Present
<1>. QED  BY <1>1, <1>2, <1>3, <1>4

-----------------------------------------------------------------------------
(* Type correctness.                                                       *)

LEMMA InstallType ==
  ASSUME TypeOK, NEW e \in Entry, Install(e)
  PROVE  /\ installed' \in Seq(Entry)
         /\ \A i \in DOMAIN installed' :
              installed'[i] = e \/ \E j \in DOMAIN installed : installed'[i] = installed[j]
<1>1. installed \in Seq(Entry)
  BY DEF TypeOK
<1>2. CASE installed' = Append(installed, e)
  BY <1>1, <1>2, AppendFacts
<1>3. CASE installed' = <<e>> \o installed
  BY <1>1, <1>3, PrependFacts
<1>. QED  BY <1>2, <1>3 DEF Install

\* RemoveFn only leaves out listeners.
LEMMA RemoveFnType ==
  ASSUME TypeOK, NEW fn, installed' = RemoveFn(fn)
  PROVE  /\ installed' \in Seq(Entry)
         /\ \A i \in DOMAIN installed' :
              \E j \in DOMAIN installed : installed'[i] = installed[j]
<1>. DEFINE hits == {i \in DOMAIN installed : installed[i].fn = fn}
<1>1. installed \in Seq(Entry) /\ hits \subseteq DOMAIN installed
  BY DEF TypeOK
<1>2. installed' = WithoutLast(installed, hits)
  BY DEF RemoveFn
<1>. HIDE DEF hits
<1>. QED  BY <1>1, <1>2, WithoutLastElements

LEMMA TypeStep == TypeOK /\ [Next]_vars => TypeOK'
<1>. SUFFICES ASSUME TypeOK, [Next]_vars PROVE TypeOK'
  OBVIOUS
<1>1. CASE Bind
  BY <1>1 DEF Bind, TypeOK
<1>2. ASSUME NEW l \in Listeners, AddUnpatched(l) PROVE TypeOK'
  <2>1. [listener |-> l, once |-> FALSE, fn |-> l] \in Entry
    BY DEF Entry
  <2>2. installed' \in Seq(Entry)
    BY <1>2, <2>1, InstallType DEF AddUnpatched
  <2>. QED  BY <1>2, <2>2 DEF AddUnpatched, TypeOK
<1>3. ASSUME NEW l \in Listeners, NEW once \in BOOLEAN, NEW w \in Wrappers,
             BeginAdd(l, once, w)
      PROVE  TypeOK'
  <2>. DEFINE e == [listener |-> l, once |-> once, fn |-> w]
  <2>1. e \in Entry
    BY DEF Entry
  <2>2. adding' = Append(<<>>, e) /\ <<>> \in Seq(Entry) /\ Len(<<>>) = 0
    BY <1>3 DEF BeginAdd
  <2>. HIDE DEF e
  <2>3. adding' \in Seq(Entry) /\ Len(adding') <= 1
    BY <2>1, <2>2
  <2>4. patchMap' \in [Listeners -> Wrappers \cup {NoWrapper}]
    BY <1>3 DEF BeginAdd, TypeOK
  <2>. QED  BY <1>3, <2>3, <2>4 DEF BeginAdd, TypeOK
<1>4. ASSUME NEW l \in Listeners, RemoveListener(l) PROVE TypeOK'
  <2>1. installed' \in Seq(Entry)
    BY <1>4, RemoveFnType DEF RemoveListener
  <2>. QED  BY <1>4, <2>1 DEF RemoveListener, Requests, TypeOK
<1>5. CASE EndAdd
  <2>1. adding[1] \in Entry
    BY <1>5 DEF EndAdd, TypeOK
  <2>2. installed' \in Seq(Entry)
    BY <1>5, <2>1, InstallType DEF EndAdd
  <2>. QED  BY <1>5, <2>2 DEF EndAdd, TypeOK
<1>6. CASE RemoveAllListeners
  BY <1>6 DEF RemoveAllListeners, Requests, TypeOK
<1>7. CASE Emit
  BY <1>7 DEF Emit, TypeOK
<1>8. CASE Call
  <2>1. installed' \in Seq(Entry)
    BY <1>8, RemoveFnType DEF Call, TypeOK
  <2>. QED  BY <1>8, <2>1 DEF Call, TypeOK
<1>9. CASE UNCHANGED vars
  BY <1>9 DEF vars, TypeOK
<1>. QED  BY <1>1, <1>2, <1>3, <1>4, <1>5, <1>6, <1>7, <1>8, <1>9 DEF Next

\* The lists, the patch map and the addition under way have their types, whatever
\* the application does.
THEOREM TypeCorrect == Spec => []TypeOK
<1>1. ASSUME Init PROVE TypeOK
  <2>1. <<>> \in Seq(Entry) /\ Len(<<>>) <= 1
    OBVIOUS
  <2>. QED  BY <1>1, <2>1 DEF Init, TypeOK
<1>. QED  BY <1>1, TypeStep, PTL DEF Spec

-----------------------------------------------------------------------------
(* The inductive invariant.                                                *)

\* A list that only lost elements keeps the links and the addition under way.
LEMMA FewerListeners ==
  ASSUME LinkInv, AddingInv, UNCHANGED <<patchMap, adding, running>>,
         \A i \in DOMAIN installed' :
           \E j \in DOMAIN installed : installed'[i] = installed[j]
  PROVE  LinkInv' /\ AddingInv'
<1>1. LinkInv'
  BY DEF LinkInv, PatchedListener
<1>2. ASSUME NEW x PROVE Present(x)' => Present(x)
  BY DEF Present
<1>3. AddingInv'
  BY <1>2 DEF AddingInv
<1>. QED  BY <1>1, <1>3

LEMMA InvStep ==
  ASSUME AddsOnce = TRUE, HandlersApart = TRUE, IInv, [Next]_vars
  PROVE  IInv'
<1>. USE DEF IInv
<1>0. TypeOK'
  BY TypeStep
<1>1. CASE Bind \/ UNCHANGED vars
  BY <1>0, <1>1
     DEF Bind, vars, LinkInv, MapInv, AddingInv, PatchedListener, Present, FnsOf
<1>2. ASSUME NEW l \in Listeners, AddUnpatched(l) PROVE IInv'
  <2>. DEFINE e == [listener |-> l, once |-> FALSE, fn |-> l]
  <2>1. e \in Entry
    BY DEF Entry
  <2>2. Install(e) /\ patchMap[l] = NoWrapper /\ ~Present(l)
        /\ UNCHANGED <<patchMap, adding, running>>
    BY <1>2 DEF AddUnpatched
  <2>3. e.listener = l /\ e.fn = l
    OBVIOUS
  <2>. HIDE DEF e
  <2>4. \A i \in DOMAIN installed' :
          installed'[i] = e \/ \E j \in DOMAIN installed : installed'[i] = installed[j]
    BY <2>1, <2>2, InstallType
  <2>5. LinkInv'
    BY <2>2, <2>3, <2>4 DEF LinkInv, PatchedListener
  <2>6. AddingInv'
    <3>1. ASSUME NEW k \in DOMAIN adding PROVE ~Present(adding[k].listener)'
      <4>1. ~Present(adding[k].listener) /\ adding[k].fn = patchMap[adding[k].listener]
            /\ adding[k].fn \in Wrappers
        BY DEF AddingInv
      <4>2. adding[k].listener # l
        BY <2>2, <4>1, ConstAssumption
      <4>. QED  BY <2>2, <2>3, <2>4, <4>1, <4>2 DEF Present
    <3>. QED  BY <2>2, <3>1 DEF AddingInv
  <2>. QED  BY <1>0, <2>2, <2>5, <2>6 DEF MapInv
<1>3. ASSUME NEW l \in Listeners, NEW once \in BOOLEAN, NEW w \in Wrappers,
             BeginAdd(l, once, w)
      PROVE  IInv'
  <2>. DEFINE e == [listener |-> l, once |-> once, fn |-> w]
  <2>1. /\ w \in FreshWrappers /\ ~Present(l)
        /\ patchMap' = [patchMap EXCEPT ![l] = w]
        /\ UNCHANGED <<installed, running>>
    BY <1>3 DEF BeginAdd
  <2>2. patchMap'[l] = w /\ \A m \in Listeners : m # l => patchMap'[m] = patchMap[m]
    BY <2>1 DEF TypeOK
  <2>3. MapInv'
    BY <2>1, <2>2 DEF MapInv, FreshWrappers
  <2>4. LinkInv'
    <3>1. ASSUME NEW i \in DOMAIN installed
          PROVE  installed[i].listener \in Listeners \ {l}
      <4>1. installed[i] \in Entry
        BY DEF TypeOK
      <4>. QED  BY <2>1, <4>1 DEF Present, Entry
    <3>. QED  BY <2>1, <2>2, <3>1 DEF LinkInv, PatchedListener
  <2>5. AddingInv'
    <3>1. adding' = Append(<<>>, e)
      BY <1>3 DEF BeginAdd
    <3>2. adding' = <<e>>
      BY <3>1
    <3>3. \A k \in DOMAIN adding' : adding'[k] = e
      BY <3>2
    <3>4. e.fn = w /\ e.listener = l
      OBVIOUS
    <3>5. w \notin FnsOf(running') /\ ~Present(l)'
      BY <2>1 DEF FreshWrappers, Present
    <3>. HIDE DEF e
    <3>. QED  BY <2>2, <3>3, <3>4, <3>5 DEF AddingInv, FnsOf
  <2>. QED  BY <1>0, <2>3, <2>4, <2>5
<1>4. ASSUME NEW l \in Listeners, RemoveListener(l) PROVE IInv'
  <2>1. /\ installed' = RemoveFn(PatchedListener(l))
        /\ UNCHANGED <<patchMap, adding, running>>
    BY <1>4 DEF RemoveListener
  <2>2. LinkInv' /\ AddingInv'
    BY <2>1, RemoveFnType, FewerListeners
  <2>. QED  BY <1>0, <2>1, <2>2 DEF MapInv
<1>5. CASE EndAdd
  <2>. DEFINE e == adding[1]
  <2>1. Install(e) /\ adding # <<>> /\ adding' = <<>> /\ UNCHANGED <<patchMap, running>>
    BY <1>5 DEF EndAdd
  <2>2. e \in Entry /\ e.fn = PatchedListener(e.listener)
    BY <2>1, AddingApart
  <2>. HIDE DEF e
  <2>3. \A i \in DOMAIN installed' :
          installed'[i] = e \/ \E j \in DOMAIN installed : installed'[i] = installed[j]
    BY <2>1, <2>2, InstallType
  <2>4. LinkInv'
    BY <2>1, <2>2, <2>3 DEF LinkInv, PatchedListener
  <2>5. AddingInv'
    BY <2>1 DEF AddingInv
  <2>. QED  BY <1>0, <2>1, <2>4, <2>5 DEF MapInv
<1>6. CASE RemoveAllListeners
  <2>1. adding = <<>> /\ installed' = <<>> /\ UNCHANGED <<adding, running>>
        /\ patchMap' = [m \in Listeners |-> NoWrapper]
    BY <1>6 DEF RemoveAllListeners
  <2>. QED  BY <1>0, <2>1 DEF LinkInv, MapInv, AddingInv
<1>7. CASE Emit
  <2>1. adding = <<>> /\ UNCHANGED <<installed, patchMap, adding>>
    BY <1>7 DEF Emit
  <2>. QED  BY <1>0, <2>1 DEF LinkInv, MapInv, AddingInv, PatchedListener
<1>8. CASE Call
  <2>1. adding = <<>> /\ UNCHANGED <<patchMap, adding>>
    BY <1>8 DEF Call
  <2>2. \A i \in DOMAIN installed' :
          \E j \in DOMAIN installed : installed'[i] = installed[j]
    BY <1>8, RemoveFnType DEF Call
  <2>3. LinkInv' /\ AddingInv'
    BY <2>1, <2>2 DEF LinkInv, AddingInv, PatchedListener
  <2>. QED  BY <1>0, <2>1, <2>3 DEF MapInv
<1>. QED  BY <1>1, <1>2, <1>3, <1>4, <1>5, <1>6, <1>7, <1>8 DEF Next

\* The links between the emitter's list, the patch map and an addition under way.
THEOREM InvHolds ==
  ASSUME AddsOnce = TRUE, HandlersApart = TRUE
  PROVE  Spec => []IInv
<1>1. ASSUME Init PROVE IInv
  <2>1. TypeOK
    <3>1. <<>> \in Seq(Entry) /\ Len(<<>>) <= 1
      OBVIOUS
    <3>. QED  BY <1>1, <3>1 DEF Init, TypeOK
  <2>. QED  BY <1>1, <2>1 DEF Init, IInv, LinkInv, MapInv, AddingInv
<1>2. IInv /\ [Next]_vars => IInv'
  BY InvStep
<1>. QED  BY <1>1, <1>2, PTL DEF Spec

-----------------------------------------------------------------------------
(* The bound emitter implements a plain one.                               *)

\* The keys of a user's view are the functions in the list.
LEMMA KeysAreFns ==
  ASSUME NEW s \in Seq(Entry)
  PROVE  Plain!KeysOf(UserView(s)) = FnsOf(s)
<1>1. DOMAIN UserView(s) = DOMAIN s
      /\ \A i \in DOMAIN s : UserView(s)[i] = View(s[i])
  BY UserViewElements
<1>2. \A i \in DOMAIN s : View(s[i]).key = s[i].fn
  BY DEF View
<1>. QED  BY <1>1, <1>2 DEF Plain!KeysOf, FnsOf

\* Installing a listener is the addition of a plain emitter.
LEMMA InstallAdds ==
  ASSUME TypeOK, NEW e \in Entry, Install(e), UNCHANGED <<running, removal>>,
         e.once => e.fn \notin FnsOf(installed) \cup FnsOf(running)
  PROVE  Plain!Next
<1>1. installed \in Seq(Entry) /\ running \in Seq(Entry)
  BY DEF TypeOK
<1>2. UserView(installed') \in {Append(UserView(installed), View(e)),
                                <<View(e)>> \o UserView(installed)}
  BY <1>1, UserViewAppend, UserViewPrepend DEF Install
<1>3. View(e).once = e.once /\ View(e).key = e.fn
  BY DEF View
<1>4. View(e).once => View(e).key \notin Plain!KeysOf(UserView(installed))
                                         \cup Plain!KeysOf(UserView(running))
  BY <1>1, <1>3, KeysAreFns
<1>5. View(e) \in Plain!Entry
  BY DEF View, Entry, Plain!Entry
<1>6. UserView(running') = UserView(running) /\ removal' = removal
  OBVIOUS
<1>7. Plain!Add(View(e))
  BY <1>2, <1>4, <1>6 DEF Plain!Add
<1>. QED  BY <1>5, <1>7 DEF Plain!Next

LEMMA PlainStep ==
  ASSUME AddsOnce = TRUE, HandlersApart = TRUE, IInv, [Next]_vars
  PROVE  [Plain!Next]_(Plain!vars)
<1>0. installed \in Seq(Entry) /\ running \in Seq(Entry) /\ TypeOK /\ MapInv /\ LinkInv
  BY DEF IInv, TypeOK
<1>1. ASSUME UNCHANGED <<installed, running, removal>>
      PROVE  UNCHANGED Plain!vars
  BY <1>1 DEF Plain!vars
<1>2. CASE Bind \/ UNCHANGED vars
  BY <1>1, <1>2 DEF Bind, vars
<1>3. ASSUME NEW l \in Listeners, AddUnpatched(l) PROVE Plain!Next
  <2>. DEFINE e == [listener |-> l, once |-> FALSE, fn |-> l]
  <2>1. e \in Entry /\ e.once = FALSE
    BY DEF Entry
  <2>2. Install(e) /\ UNCHANGED <<running, removal>>
    BY <1>3 DEF AddUnpatched
  <2>. HIDE DEF e
  <2>. QED  BY <1>0, <2>1, <2>2, InstallAdds
<1>4. ASSUME NEW l \in Listeners, NEW once \in BOOLEAN, NEW w \in Wrappers,
             BeginAdd(l, once, w)
      PROVE  UNCHANGED Plain!vars
  BY <1>1, <1>4 DEF BeginAdd
<1>5. CASE EndAdd
  <2>1. adding # <<>> /\ Install(adding[1]) /\ UNCHANGED <<running, removal>>
    BY <1>5 DEF EndAdd
  <2>. QED  BY <1>0, <2>1, AddingApart, InstallAdds
<1>6. ASSUME NEW l \in Listeners, RemoveListener(l) PROVE Plain!Next
  <2>. DEFINE hits == {i \in DOMAIN installed : installed[i].listener = l}
              views == {i \in DOMAIN UserView(installed) :
                          UserView(installed)[i].listener = l}
  <2>1. installed' = WithoutLast(installed, hits)
    BY <1>0, <1>6, HitsOfListener DEF RemoveListener, RemoveFn
  <2>2. hits = views
    <3>1. DOMAIN UserView(installed) = DOMAIN installed
          /\ \A i \in DOMAIN installed : UserView(installed)[i] = View(installed[i])
      BY <1>0, UserViewElements
    <3>. QED  BY <3>1 DEF View
  <2>3. hits \subseteq DOMAIN installed
    OBVIOUS
  <2>4. UserView(installed') = Plain!WithoutLast(UserView(installed), hits)
    <3>. HIDE DEF hits
    <3>. QED  BY <1>0, <2>1, <2>3, UserViewWithoutLast
  <2>5. Plain!Remove(l)
    BY <1>6, <2>2, <2>4
       DEF RemoveListener, Requests, Plain!Remove, Plain!Requests
  <2>. QED  BY <2>5 DEF Plain!Next
<1>7. CASE RemoveAllListeners
  <2>1. UserView(installed') = <<>>
    BY <1>7 DEF RemoveAllListeners, UserView
  <2>2. Plain!RemoveAll
    BY <1>7, <2>1
       DEF RemoveAllListeners, Requests, Plain!RemoveAll, Plain!Requests
  <2>. QED  BY <2>2 DEF Plain!Next
<1>8. CASE Emit
  <2>1. UserView(running) = <<>>
    BY <1>8 DEF Emit, UserView
  <2>2. Plain!Emit
    BY <1>8, <2>1 DEF Emit, Plain!Emit
  <2>. QED  BY <2>2 DEF Plain!Next
<1>9. CASE Call
  <2>. DEFINE h == Head(running)
              hits == {i \in DOMAIN installed : installed[i].fn = h.fn}
              views == {i \in DOMAIN UserView(installed) :
                          UserView(installed)[i].key = h.fn}
  <2>1. running # <<>> /\ running' = Tail(running) /\ removal' = removal
    BY <1>9 DEF Call
  <2>2. UserView(running) # <<>> /\ UserView(running') = Tail(UserView(running))
        /\ Head(UserView(running)) = View(h)
    BY <1>0, <2>1, UserViewTail, UserViewHead
  <2>3. View(h).once = h.once /\ View(h).key = h.fn
    BY DEF View
  <2>4. installed' = IF h.once THEN WithoutLast(installed, hits) ELSE installed
    BY <1>9 DEF Call, RemoveFn
  <2>5. hits = views
    <3>1. DOMAIN UserView(installed) = DOMAIN installed
          /\ \A i \in DOMAIN installed : UserView(installed)[i] = View(installed[i])
      BY <1>0, UserViewElements
    <3>. QED  BY <3>1 DEF View
  <2>6. hits \subseteq DOMAIN installed
    OBVIOUS
  <2>7. UserView(installed') = IF h.once
                               THEN Plain!WithoutLast(UserView(installed), hits)
                               ELSE UserView(installed)
    <3>. HIDE DEF hits, h
    <3>. QED  BY <1>0, <2>4, <2>6, UserViewWithoutLast
  <2>8. Plain!Call
    BY <2>1, <2>2, <2>3, <2>5, <2>7 DEF Plain!Call
  <2>. QED  BY <2>8 DEF Plain!Next
<1>. QED
  BY <1>2, <1>3, <1>4, <1>5, <1>6, <1>7, <1>8, <1>9 DEF Next

\* For an application that adds no listener twice and whose newListener handlers
\* keep apart, an emitter bound to a context behaves as one that is not.
THEOREM EmitterImplemented ==
  ASSUME AddsOnce = TRUE, HandlersApart = TRUE
  PROVE  Spec => ImplementsEmitter
<1>1. Init => Plain!Init
  BY DEF Init, Plain!Init, UserView
<1>2. IInv /\ [Next]_vars => [Plain!Next]_(Plain!vars)
  BY PlainStep
<1>3. Spec => []IInv
  BY InvHolds
<1>. QED  BY <1>1, <1>2, <1>3, PTL DEF Spec, ImplementsEmitter, Plain!Spec
=============================================================================
