------------------------- MODULE ContextManagerProofs -------------------------
(***************************************************************************)
(* Theorems about ContextManager, for any contexts, any listeners and any  *)
(* depth of calls.                                                         *)
(***************************************************************************)
EXTENDS ContextManager, SequenceTheorems, TLAPS

\* What has been numbered or counted is a call of the application.
CountInv ==
  /\ hashEvents <= calls
  /\ latest <= calls
  /\ \A i \in DOMAIN messages : messages[i] <= calls

-----------------------------------------------------------------------------
(* Sequences.                                                              *)

LEMMA AppendFacts ==
  ASSUME NEW S, NEW s \in Seq(S), NEW e \in S
  PROVE  /\ Append(s, e) \in Seq(S)
         /\ Len(Append(s, e)) = Len(s) + 1
         /\ \A i \in 1..Len(s) + 1 :
              Append(s, e)[i] = IF i <= Len(s) THEN s[i] ELSE e
OBVIOUS

LEMMA TailFacts ==
  ASSUME NEW S, NEW s \in Seq(S), s # <<>>
  PROVE  /\ Tail(s) \in Seq(S)
         /\ Len(Tail(s)) = Len(s) - 1
         /\ \A i \in 1..Len(s) - 1 : Tail(s)[i] = s[i + 1]
         /\ Head(s) \in S
OBVIOUS

LEMMA SubSeqFacts ==
  ASSUME NEW S, NEW s \in Seq(S), NEW m \in 1..Len(s) + 1, NEW n \in m - 1..Len(s)
  PROVE  /\ SubSeq(s, m, n) \in Seq(S)
         /\ Len(SubSeq(s, m, n)) = n - m + 1
         /\ \A i \in 1..n - m + 1 : SubSeq(s, m, n)[i] = s[m + i - 1]
<1>1. \A i \in m..n : s[i] \in S
  OBVIOUS
<1>2. /\ SubSeq(s, m, n) \in Seq(S)
      /\ Len(SubSeq(s, m, n)) = IF m <= n THEN n - m + 1 ELSE 0
      /\ \A i \in 1..n - m + 1 : SubSeq(s, m, n)[i] = s[m + i - 1]
  BY <1>1, SubSeqProperties
<1>. QED  BY <1>2

LEMMA FrontFacts ==
  ASSUME NEW S, NEW s \in Seq(S), s # <<>>
  PROVE  /\ Front(s) \in Seq(S)
         /\ Len(Front(s)) = Len(s) - 1
         /\ \A i \in 1..Len(s) - 1 : Front(s)[i] = s[i]
         /\ Len(s) \in Nat \ {0}
         /\ Last(s) = s[Len(s)]
         /\ Last(s) \in S
<1>1. Len(s) \in Nat \ {0} /\ \A i \in 1..Len(s) : s[i] \in S
  BY EmptySeq
<1>2. 1 \in 1..Len(s) + 1 /\ Len(s) - 1 \in 1 - 1..Len(s)
  BY <1>1
<1>3. /\ SubSeq(s, 1, Len(s) - 1) \in Seq(S)
      /\ Len(SubSeq(s, 1, Len(s) - 1)) = Len(s) - 1 - 1 + 1
      /\ \A i \in 1..Len(s) - 1 - 1 + 1 : SubSeq(s, 1, Len(s) - 1)[i] = s[1 + i - 1]
  BY <1>2, SubSeqFacts
<1>4. \A i \in 1..Len(s) - 1 : Front(s)[i] = s[i]
  <2>. SUFFICES ASSUME NEW i \in 1..Len(s) - 1 PROVE Front(s)[i] = s[i]
    OBVIOUS
  <2>1. i \in 1..Len(s) - 1 - 1 + 1 /\ 1 + i - 1 = i
    BY <1>1
  <2>. QED  BY <1>3, <2>1 DEF Front
<1>5. Front(s) \in Seq(S) /\ Len(Front(s)) = Len(s) - 1
  BY <1>1, <1>3 DEF Front
<1>. QED  BY <1>1, <1>4, <1>5 DEF Last

LEMMA RemoveAtFacts ==
  ASSUME NEW S, NEW s \in Seq(S), NEW n \in DOMAIN s
  PROVE  /\ RemoveAt(s, n) \in Seq(S)
         /\ Len(RemoveAt(s, n)) = Len(s) - 1
         /\ \A i \in 1..Len(s) - 1 :
              RemoveAt(s, n)[i] = IF i < n THEN s[i] ELSE s[i + 1]
<1>. DEFINE a == SubSeq(s, 1, n - 1)
            b == SubSeq(s, n + 1, Len(s))
<1>1. Len(s) \in Nat /\ n \in 1..Len(s) /\ \A i \in 1..Len(s) : s[i] \in S
  OBVIOUS
<1>2. /\ a \in Seq(S)
      /\ Len(a) = n - 1
      /\ \A i \in 1..n - 1 : a[i] = s[i]
  <2>1. 1 \in 1..Len(s) + 1 /\ n - 1 \in 1 - 1..Len(s)
    BY <1>1
  <2>2. /\ a \in Seq(S)
        /\ Len(a) = n - 1 - 1 + 1
        /\ \A i \in 1..n - 1 - 1 + 1 : a[i] = s[1 + i - 1]
    BY <2>1, SubSeqFacts
  <2>3. n - 1 - 1 + 1 = n - 1 /\ \A i \in 1..n - 1 : 1 + i - 1 = i
    BY <1>1
  <2>. HIDE DEF a
  <2>. QED  BY <2>2, <2>3
<1>3. /\ b \in Seq(S)
      /\ Len(b) = Len(s) - n
      /\ \A i \in 1..Len(s) - n : b[i] = s[n + i]
  <2>1. n + 1 \in 1..Len(s) + 1 /\ Len(s) \in n + 1 - 1..Len(s)
    BY <1>1
  <2>2. /\ b \in Seq(S)
        /\ Len(b) = Len(s) - (n + 1) + 1
        /\ \A i \in 1..Len(s) - (n + 1) + 1 : b[i] = s[n + 1 + i - 1]
    BY <2>1, SubSeqFacts
  <2>3. Len(s) - (n + 1) + 1 = Len(s) - n /\ \A i \in 1..Len(s) - n : n + 1 + i - 1 = n + i
    BY <1>1
  <2>. HIDE DEF b
  <2>. QED  BY <2>2, <2>3
<1>. HIDE DEF a, b
<1>4. /\ a \o b \in Seq(S)
      /\ Len(a \o b) = Len(a) + Len(b)
      /\ \A i \in 1..Len(a) + Len(b) :
           (a \o b)[i] = IF i <= Len(a) THEN a[i] ELSE b[i - Len(a)]
  BY <1>2, <1>3, ConcatProperties
<1>5. Len(a \o b) = Len(s) - 1
  BY <1>1, <1>2, <1>3, <1>4
<1>6. ASSUME NEW i \in 1..Len(s) - 1
      PROVE  (a \o b)[i] = IF i < n THEN s[i] ELSE s[i + 1]
  <2>1. i \in 1..Len(a) + Len(b) /\ (i <= Len(a) <=> i < n)
    BY <1>1, <1>2, <1>3
  <2>2. CASE i < n
    BY <1>1, <1>2, <1>4, <2>1, <2>2
  <2>3. CASE ~(i < n)
    <3>1. i - Len(a) \in 1..Len(s) - n /\ n + (i - Len(a)) = i + 1
      BY <1>1, <1>2, <2>3
    <3>. QED  BY <1>3, <1>4, <2>1, <2>3, <3>1
  <2>. QED  BY <2>2, <2>3
<1>7. RemoveAt(s, n) = a \o b
  BY DEF RemoveAt, a, b
<1>. QED  BY <1>4, <1>5, <1>6, <1>7

-----------------------------------------------------------------------------
(* Types.                                                                  *)

LEMMA EnterType ==
  ASSUME TypeOK, NEW by \in By, NEW ctx \in Maybe, NEW reg \in Maybe,
         Enter(by, ctx, reg)
  PROVE  stack' \in Seq(Frame) /\ Len(stack') <= MaxDepth /\ current' \in Contexts
<1>. DEFINE f == [by |-> by, ctx |-> ctx, prev |-> current, hash |-> hash,
                  reg |-> reg]
<1>1. f \in Frame
  BY DEF TypeOK, Frame
<1>2. stack' = Append(stack, f) /\ Len(stack) < MaxDepth
  BY DEF Enter
<1>. HIDE DEF f
<1>3. stack' \in Seq(Frame) /\ Len(stack') = Len(stack) + 1 /\ Len(stack) \in Nat
  BY <1>1, <1>2, AppendFacts DEF TypeOK
<1>4. current' \in Contexts
  BY DEF Enter, TypeOK, Maybe
<1>. QED  BY <1>2, <1>3, <1>4, ConstAssumption

LEMMA InitType == Init => TypeOK /\ CountInv
<1>. SUFFICES ASSUME Init PROVE TypeOK /\ CountInv
  OBVIOUS
<1>1. <<>> \in Seq(Frame) /\ <<>> \in Seq(Entry) /\ <<>> \in Seq(1..MaxCalls)
        /\ <<>> \in Seq(Listeners) /\ Len(<<>>) = 0
  BY EmptySeq
<1>2. [x \in {"port", "hash"} \X Contexts |-> 0] \in [{"port", "hash"} \X Contexts -> Nat]
  OBVIOUS
<1>3. callbacks \subseteq Callback
  BY DEF Init
<1>4. known \in [Listeners -> Maybe]
  BY DEF Init, Maybe
<1>5. /\ current \in Contexts /\ attached \in Maybe /\ nodeCtx \in Maybe
      /\ hashCtx \in Maybe
  BY DEF Init, Contexts, Maybe
<1>6. /\ stack \in Seq(Frame) /\ Len(stack) <= MaxDepth /\ request \in Seq(Entry)
      /\ firing \in Seq(Entry) /\ messages \in Seq(1..MaxCalls)
      /\ wanted \in Seq(Listeners)
  BY <1>1, ConstAssumption DEF Init
<1>7. /\ latest \in 0..MaxCalls /\ hashEvents \in 0..MaxCalls /\ calls \in 0..MaxCalls
  BY ConstAssumption DEF Init
<1>8. /\ enabled \in BOOLEAN /\ mutated \in BOOLEAN /\ hash \in BOOLEAN
      /\ cleanups \in [{"port", "hash"} \X Contexts -> Nat]
  BY <1>2, Zenon DEF Init
<1>9. CountInv
  BY DEF Init, CountInv
<1>. QED  BY <1>3, <1>4, <1>5, <1>6, <1>7, <1>8, <1>9 DEF TypeOK

LEMMA CleanupType ==
  ASSUME TypeOK, NEW k \in {"port", "hash"}, NEW c \in Contexts
  PROVE  /\ cleanups[<<k, c>>] \in Nat
         /\ [cleanups EXCEPT ![<<k, c>>] = @ + 1] \in [{"port", "hash"} \X Contexts -> Nat]
         /\ cleanups[<<k, c>>] > 0 =>
              [cleanups EXCEPT ![<<k, c>>] = @ - 1] \in [{"port", "hash"} \X Contexts -> Nat]
BY DEF TypeOK

LEMMA StepType ==
  ASSUME TypeOK, CountInv, [Next]_vars
  PROVE  TypeOK' /\ CountInv'
<1>. USE ConstAssumption DEF CountInv, browserVars, portVars, nodeVars, hashVars, requestVars
<1>1. CASE UNCHANGED vars
  BY <1>1 DEF TypeOK, vars
<1>2. CASE Task
  <2>1. stack' \in Seq(Frame) /\ Len(stack') <= MaxDepth /\ current' \in Contexts
    BY <1>2, EnterType DEF Task, By, Maybe
  <2>. QED  BY <1>2, <2>1 DEF Task, TypeOK
<1>3. CASE Leave
  <2>1. stack \in Seq(Frame) /\ stack # <<>>
    BY <1>3 DEF Leave, Idle, TypeOK
  <2>2. /\ stack' \in Seq(Frame) /\ Len(stack') = Len(stack) - 1
        /\ Len(stack) \in Nat /\ Last(stack) \in Frame
    BY <1>3, <2>1, FrontFacts DEF Leave
  <2>3. current' \in Contexts
    BY <1>3, <2>2 DEF Leave, TypeOK, Frame
  <2>4. hashCtx' \in Maybe /\ cleanups' \in [{"port", "hash"} \X Contexts -> Nat]
    <3>1. CASE UNCHANGED <<hashCtx, cleanups>>
      BY <3>1 DEF TypeOK
    <3>2. CASE /\ Last(stack).ctx # None
               /\ hashCtx' = Last(stack).ctx
               /\ cleanups' = [cleanups EXCEPT ![<<"hash", Last(stack).ctx>>] = @ + 1]
      <4>1. Last(stack).ctx \in Contexts
        BY <2>2, <3>2 DEF Frame, Maybe
      <4>. QED  BY <3>2, <4>1, CleanupType DEF Maybe
    <3>. QED  BY <1>3, <3>1, <3>2 DEF Leave
  <2>. QED  BY <1>3, <2>2, <2>3, <2>4 DEF Leave, TypeOK
<1>4. ASSUME NEW ctx \in Contexts, With(ctx)
      PROVE  TypeOK' /\ CountInv'
  <2>1. stack' \in Seq(Frame) /\ Len(stack') <= MaxDepth /\ current' \in Contexts
    BY <1>4, EnterType DEF With, By, Maybe
  <2>. QED  BY <1>4, <2>1 DEF With, AppCall, TypeOK
<1>5. ASSUME NEW ctx \in Contexts, CleanPort(ctx) \/ CleanHash(ctx)
      PROVE  TypeOK' /\ CountInv'
  <2>1. cleanups' \in [{"port", "hash"} \X Contexts -> Nat]
    <3>1. CASE CleanPort(ctx)
      BY <3>1, CleanupType DEF CleanPort
    <3>2. CASE CleanHash(ctx)
      BY <3>2, CleanupType DEF CleanHash
    <3>. QED  BY <1>5, <3>1, <3>2
  <2>. QED  BY <1>5, <2>1 DEF CleanPort, CleanHash, TypeOK, Maybe
<1>6. CASE Defer \/ DeferLong \/ DeferFrame
  <2>1. callbacks' \subseteq Callback
    BY <1>6 DEF Defer, DeferLong, DeferFrame, BoundTo, TypeOK, Callback, Maybe
  <2>. QED  BY <1>6, <2>1 DEF Defer, DeferLong, DeferFrame, AppCall, TypeOK
<1>7. ASSUME NEW c \in callbacks, RunCallback(c)
      PROVE  TypeOK' /\ CountInv'
  <2>1. c.ctx \in Maybe /\ c.reg \in Maybe
    BY DEF TypeOK, Callback
  <2>2. stack' \in Seq(Frame) /\ Len(stack') <= MaxDepth /\ current' \in Contexts
    BY <1>7, <2>1, EnterType DEF RunCallback, By
  <2>. QED  BY <1>7, <2>2 DEF RunCallback, TypeOK
<1>8. ASSUME NEW l \in Listeners, AddListener(l)
      PROVE  TypeOK' /\ CountInv'
  <2>. DEFINE ctx == IF ~enabled THEN None
                     ELSE IF known[l] # None THEN known[l] ELSE current
              e == [listener |-> l, ctx |-> ctx, reg |-> current]
  <2>1. ctx \in Maybe /\ e \in Entry
    BY DEF TypeOK, Maybe, Entry
  <2>2. known' \in [Listeners -> Maybe]
    BY <1>8, <2>1 DEF AddListener, TypeOK
  <2>3. request' \in Seq(Entry)
    <3>1. request' = request \/ request' = Append(request, e)
      BY <1>8 DEF AddListener
    <3>2. e \in Entry
      BY <2>1
    <3>3. request \in Seq(Entry)
      BY DEF TypeOK
    <3>. HIDE DEF e
    <3>4. Append(request, e) \in Seq(Entry)
      BY <3>2, <3>3, AppendFacts
    <3>. QED  BY <3>1, <3>3, <3>4
  <2>4. wanted' \in Seq(Listeners)
    BY <1>8, AppendFacts DEF AddListener, TypeOK
  <2>. QED  BY <1>8, <2>2, <2>3, <2>4 DEF AddListener, AppCall, TypeOK
<1>9. ASSUME NEW l \in Listeners, RemoveListener(l)
      PROVE  TypeOK' /\ CountInv'
  <2>1. request' \in Seq(Entry)
    <3>1. request' = request \/ \E i \in DOMAIN request : request' = RemoveAt(request, i)
      BY <1>9 DEF RemoveListener
    <3>. QED  BY <3>1, RemoveAtFacts DEF TypeOK
  <2>2. wanted' \in Seq(Listeners)
    <3>1. wanted' = wanted \/ \E i \in DOMAIN wanted : wanted' = RemoveAt(wanted, i)
      BY <1>9 DEF RemoveListener
    <3>. QED  BY <3>1, RemoveAtFacts DEF TypeOK
  <2>. QED  BY <1>9, <2>1, <2>2 DEF RemoveListener, AppCall, TypeOK
<1>10. CASE Fire
  BY <1>10 DEF Fire, TypeOK
<1>11. CASE FireNext
  <2>. DEFINE e == Head(firing)
  <2>1. e \in Entry /\ firing' \in Seq(Entry)
    BY <1>11, TailFacts DEF FireNext, TypeOK
  <2>2. stack' \in Seq(Frame) /\ Len(stack') <= MaxDepth /\ current' \in Contexts
    <3>1. CASE UNCHANGED <<stack, current>>
      BY <3>1 DEF TypeOK
    <3>2. CASE Enter("listener", e.ctx, IF e.ctx = None THEN None ELSE e.reg)
      <4>1. e.ctx \in Maybe /\ e.reg \in Maybe /\ None \in Maybe
        BY <2>1 DEF Entry, Maybe
      <4>. HIDE DEF e
      <4>. QED  BY <3>2, <4>1, EnterType DEF By
    <3>. QED  BY <1>11, <3>1, <3>2 DEF FireNext
  <2>. QED  BY <1>11, <2>1, <2>2 DEF FireNext, TypeOK
<1>12. CASE PostMessage
  <2>1. messages' \in Seq(1..MaxCalls) /\ \A i \in DOMAIN messages' : messages'[i] <= calls'
    <3>1. calls' \in 1..MaxCalls /\ calls' = calls + 1 /\ messages' = Append(messages, calls')
      BY <1>12 DEF PostMessage, AppCall, TypeOK
    <3>2. /\ messages' \in Seq(1..MaxCalls)
          /\ Len(messages') = Len(messages) + 1
          /\ \A i \in 1..Len(messages) + 1 :
               messages'[i] = IF i <= Len(messages) THEN messages[i] ELSE calls'
      BY <3>1, AppendFacts DEF TypeOK
    <3>3. \A i \in 1..Len(messages) : messages[i] \in Nat /\ messages[i] <= calls
      BY DEF TypeOK
    <3>. QED  BY <3>1, <3>2, <3>3 DEF TypeOK
  <2>2. cleanups' \in [{"port", "hash"} \X Contexts -> Nat]
    <3>1. /\ current \in Contexts
          /\ cleanups' = cleanups \/ cleanups' = [cleanups EXCEPT ![<<"port", current>>] = @ + 1]
      BY <1>12 DEF PostMessage, TypeOK
    <3>2. [cleanups EXCEPT ![<<"port", current>>] = @ + 1] \in [{"port", "hash"} \X Contexts -> Nat]
      BY <3>1, CleanupType
    <3>3. cleanups \in [{"port", "hash"} \X Contexts -> Nat]
      BY DEF TypeOK
    <3>. QED  BY <3>1, <3>2, <3>3
  <2>3. attached' \in Maybe /\ latest' \in 0..MaxCalls /\ latest' <= calls'
    BY <1>12 DEF PostMessage, AppCall, TypeOK, Maybe
  <2>. QED  BY <1>12, <2>1, <2>2, <2>3 DEF PostMessage, AppCall, TypeOK
<1>13. CASE DeliverMessage
  <2>1. stack' \in Seq(Frame) /\ Len(stack') <= MaxDepth /\ current' \in Contexts
    BY <1>13, EnterType DEF DeliverMessage, Resumed, TypeOK, By, Maybe
  <2>2. messages' \in Seq(1..MaxCalls) /\ \A i \in DOMAIN messages' : messages'[i] <= calls
    BY <1>13, TailFacts DEF DeliverMessage, TypeOK
  <2>. QED  BY <1>13, <2>1, <2>2 DEF DeliverMessage, TypeOK
<1>14. CASE SetData
  BY <1>14 DEF SetData, AppCall, TypeOK, Maybe
<1>15. CASE Observe
  <2>1. stack' \in Seq(Frame) /\ Len(stack') <= MaxDepth /\ current' \in Contexts
    BY <1>15, EnterType DEF Observe, Resumed, TypeOK, By, Maybe
  <2>. QED  BY <1>15, <2>1 DEF Observe, TypeOK
<1>16. CASE SetHash \/ Navigate
  <2>1. hash' \in BOOLEAN
    BY <1>16 DEF SetHash, Navigate
  <2>. QED  BY <1>16, <2>1 DEF SetHash, Navigate, AppCall, TypeOK
<1>17. CASE HashChange
  <2>1. stack' \in Seq(Frame) /\ Len(stack') <= MaxDepth /\ current' \in Contexts
    BY <1>17, EnterType DEF HashChange, Resumed, TypeOK, By, Maybe
  <2>. QED  BY <1>17, <2>1 DEF HashChange, TypeOK
<1>18. CASE Disable
  <2>1. enabled' \in BOOLEAN /\ current' \in Contexts
    BY <1>18 DEF Disable, Contexts
  <2>. QED  BY <1>18, <2>1 DEF Disable, AppCall, TypeOK
<1>. QED
  BY <1>1, <1>2, <1>3, <1>4, <1>5, <1>6, <1>7, <1>8, <1>9, <1>10, <1>11, <1>12, <1>13,
     <1>14, <1>15, <1>16, <1>17, <1>18 DEF Next

\* Every variable keeps its type (SplunkContextManager.ts:40-120).
THEOREM TypeCorrect == Spec => []TypeOK
<1>1. Init => TypeOK /\ CountInv
  BY InitType
<1>2. (TypeOK /\ CountInv) /\ [Next]_vars => (TypeOK /\ CountInv)'
  BY StepType
<1>. QED  BY <1>1, <1>2, PTL DEF Spec

-----------------------------------------------------------------------------
(* The stack.                                                              *)

\* The context that is active below frame i, or now when i is past the last frame.
Before(i) == IF i = Len(stack) + 1 THEN current ELSE stack[i].prev

\* It is that of the innermost with below frame i, or Root when there is none.
ActiveBefore(i) ==
  \/ Before(i) = Root /\ \A j \in 1..i - 1 : stack[j].ctx = None
  \/ \E j \in 1..i - 1 :
       /\ stack[j].ctx # None
       /\ \A k \in j + 1..i - 1 : stack[k].ctx = None
       /\ enabled => Before(i) = stack[j].ctx

\* Whatever is left, what is restored is right for what remains.
StackInv == \A i \in 1..Len(stack) + 1 : ActiveBefore(i)

\* A callback waits, and runs, in the context it was handed over in.
ResumeInv ==
  /\ \A c \in callbacks : c.ctx = c.reg
  /\ \A i \in DOMAIN stack : stack[i].by = "callback" => stack[i].ctx = stack[i].reg

LEMMA EnterKeepsStack ==
  ASSUME TypeOK, StackInv, ResumeInv,
         NEW by \in By, NEW ctx \in Maybe, NEW reg \in Maybe, Enter(by, ctx, reg),
         by = "callback" => ctx = reg, enabled' = enabled, callbacks' \subseteq callbacks
  PROVE  StackInv' /\ ResumeInv'
<1>. DEFINE f == [by |-> by, ctx |-> ctx, prev |-> current, hash |-> hash,
                  reg |-> reg]
            n == Len(stack)
<1>1. stack \in Seq(Frame) /\ n \in Nat /\ f \in Frame
  BY DEF TypeOK, Frame
<1>2. f.by = by /\ f.ctx = ctx /\ f.reg = reg /\ f.prev = current
  OBVIOUS
<1>3. stack' = Append(stack, f) /\ current' = IF ctx = None THEN current ELSE ctx
  BY DEF Enter
<1>. HIDE DEF f, n
<1>4. Len(stack') = n + 1 /\ \A i \in 1..n + 1 : stack'[i] = IF i <= n THEN stack[i] ELSE f
  BY <1>1, <1>3, AppendFacts DEF n
<1>5. ASSUME NEW i \in 1..n + 1
      PROVE  Before(i)' = Before(i)
  BY <1>1, <1>2, <1>4 DEF Before, n
<1>6. ASSUME NEW i \in 1..n + 1
      PROVE  ActiveBefore(i)'
  <2>1. ActiveBefore(i)
    BY DEF StackInv, n
  <2>2. \A j \in 1..i - 1 : stack'[j] = stack[j]
    BY <1>1, <1>4
  <2>. QED  BY <1>1, <1>5, <2>1, <2>2 DEF ActiveBefore
<1>7. ASSUME NEW i \in Nat, i = n + 2
      PROVE  ActiveBefore(i)'
  <2>1. Before(i)' = current'
    BY <1>1, <1>4, <1>7 DEF Before
  <2>2. \A j \in 1..n : stack'[j] = stack[j]
    BY <1>1, <1>4
  <2>3. stack'[n + 1].ctx = ctx
    BY <1>1, <1>2, <1>4
  <2>4. CASE ctx # None
    <3>1. \A k \in (n + 1) + 1..i - 1 : stack'[k].ctx = None
      BY <1>1, <1>7
    <3>2. n + 1 \in 1..i - 1
      BY <1>1, <1>7
    <3>. QED  BY <1>3, <2>1, <2>3, <2>4, <3>1, <3>2 DEF ActiveBefore
  <2>5. CASE ctx = None
    <3>1. ActiveBefore(n + 1) /\ Before(n + 1) = current
      BY <1>1 DEF StackInv, Before, n
    <3>2. CASE current = Root /\ \A j \in 1..n : stack[j].ctx = None
      <4>1. \A j \in 1..i - 1 : stack'[j].ctx = None
        BY <1>1, <1>7, <2>2, <2>3, <2>5, <3>2
      <4>. QED  BY <1>3, <2>1, <2>5, <3>2, <4>1 DEF ActiveBefore
    <3>3. ASSUME NEW j \in 1..n, stack[j].ctx # None,
                 \A k \in j + 1..n : stack[k].ctx = None,
                 enabled => current = stack[j].ctx
          PROVE  ActiveBefore(i)'
      <4>1. \A k \in j + 1..i - 1 : stack'[k].ctx = None
        <5>. SUFFICES ASSUME NEW k \in j + 1..i - 1 PROVE stack'[k].ctx = None
          OBVIOUS
        <5>1. k = n + 1 \/ (k \in j + 1..n /\ k \in 1..n)
          BY <1>1, <1>7
        <5>. QED  BY <2>2, <2>3, <2>5, <3>3, <5>1
      <4>2. j \in 1..i - 1 /\ stack'[j] = stack[j]
        BY <1>1, <1>7, <2>2
      <4>. QED  BY <1>3, <2>1, <2>5, <3>3, <4>1, <4>2 DEF ActiveBefore
    <3>4. (n + 1) - 1 = n
      BY <1>1
    <3>. QED  BY <3>1, <3>2, <3>3, <3>4 DEF ActiveBefore
  <2>. QED  BY <2>4, <2>5
<1>8. StackInv'
  <2>1. \A i \in 1..(n + 1) + 1 : i \in 1..n + 1 \/ i = n + 2
    BY <1>1
  <2>2. \A i \in 1..Len(stack') + 1 : i \in 1..n + 1 \/ (i \in Nat /\ i = n + 2)
    BY <1>1, <1>4, <2>1
  <2>. QED  BY <1>6, <1>7, <2>2 DEF StackInv
<1>9. ResumeInv'
  BY <1>1, <1>2, <1>4 DEF ResumeInv, n
<1>. QED  BY <1>8, <1>9

LEMMA LeaveKeepsStack ==
  ASSUME TypeOK, StackInv, ResumeInv, Leave
  PROVE  StackInv' /\ ResumeInv'
<1>. DEFINE n == Len(stack)
            f == Last(stack)
<1>1. /\ stack \in Seq(Frame) /\ n \in Nat \ {0} /\ f = stack[n]
      /\ Len(stack') = n - 1
      /\ \A i \in 1..n - 1 : stack'[i] = stack[i]
      /\ stack' \in Seq(Frame)
  BY FrontFacts DEF Leave, Idle, TypeOK
<1>2. current' = IF f.ctx = None THEN current ELSE f.prev
  BY DEF Leave
<1>3. enabled' = enabled /\ callbacks' = callbacks
  BY DEF Leave
<1>. HIDE DEF n, f
<1>4. ASSUME NEW i \in 1..n
      PROVE  ActiveBefore(i)'
  <2>1. \A j \in 1..i - 1 : stack'[j] = stack[j]
    BY <1>1
  <2>2. CASE i # n \/ f.ctx # None
    <3>1. Before(i)' = Before(i)
      BY <1>1, <1>2, <2>2 DEF Before, n
    <3>2. ActiveBefore(i)
      BY <1>1 DEF StackInv, n
    <3>3. CASE Before(i) = Root /\ \A j \in 1..i - 1 : stack[j].ctx = None
      BY <2>1, <3>1, <3>3 DEF ActiveBefore
    <3>4. ASSUME NEW j \in 1..i - 1, stack[j].ctx # None,
                 \A k \in j + 1..i - 1 : stack[k].ctx = None,
                 enabled => Before(i) = stack[j].ctx
          PROVE  ActiveBefore(i)'
      <4>1. stack'[j] = stack[j]
        BY <2>1
      <4>2. \A k \in j + 1..i - 1 : k \in 1..i - 1
        BY <1>1
      <4>3. \A k \in j + 1..i - 1 : stack'[k].ctx = None
        BY <2>1, <3>4, <4>2
      <4>. QED  BY <1>3, <3>1, <3>4, <4>1, <4>3 DEF ActiveBefore
    <3>. QED  BY <3>2, <3>3, <3>4 DEF ActiveBefore
  <2>3. CASE i = n /\ f.ctx = None
    <3>1. Before(i)' = current
      BY <1>1, <1>2, <2>3 DEF Before
    <3>2. ActiveBefore(n + 1) /\ Before(n + 1) = current
      BY <1>1 DEF StackInv, Before, n
    <3>3. (n + 1) - 1 = n
      BY <1>1
    <3>4. CASE current = Root /\ \A j \in 1..n : stack[j].ctx = None
      <4>1. \A j \in 1..i - 1 : stack'[j].ctx = None
        BY <1>1, <2>3, <3>4
      <4>. QED  BY <2>3, <3>1, <3>4, <4>1 DEF ActiveBefore
    <3>5. ASSUME NEW j \in 1..n, stack[j].ctx # None,
                 \A k \in j + 1..n : stack[k].ctx = None,
                 enabled => current = stack[j].ctx
          PROVE  ActiveBefore(i)'
      <4>1. j \in 1..i - 1 /\ stack'[j] = stack[j]
        BY <1>1, <2>3, <3>5
      <4>2. \A k \in j + 1..i - 1 : stack'[k].ctx = None
        BY <1>1, <2>3, <3>5, <4>1
      <4>. QED  BY <1>3, <3>1, <3>5, <4>1, <4>2 DEF ActiveBefore
    <3>. QED  BY <2>3, <3>2, <3>3, <3>4, <3>5 DEF ActiveBefore
  <2>. QED  BY <2>2, <2>3
<1>5. StackInv'
  <2>1. 1..(n - 1) + 1 = 1..n
    BY <1>1
  <2>. QED  BY <1>1, <1>4, <2>1 DEF StackInv
<1>6. ResumeInv'
  <2>1. \A i \in DOMAIN stack' : i \in DOMAIN stack /\ stack'[i] = stack[i]
    BY <1>1 DEF n
  <2>. QED  BY <1>3, <2>1 DEF ResumeInv
<1>. QED  BY <1>5, <1>6

LEMMA DisableKeepsStack ==
  ASSUME TypeOK, StackInv, ResumeInv, Disable
  PROVE  StackInv' /\ ResumeInv'
<1>1. /\ enabled' = FALSE /\ current' = Root /\ stack' = stack /\ callbacks' = callbacks
      /\ Len(stack) \in Nat
  BY DEF Disable, TypeOK
<1>2. ASSUME NEW i \in 1..Len(stack) + 1
      PROVE  ActiveBefore(i)'
  <2>1. ActiveBefore(i)
    BY DEF StackInv
  <2>2. CASE Before(i) = Root /\ \A j \in 1..i - 1 : stack[j].ctx = None
    BY <1>1, <2>2 DEF ActiveBefore, Before
  <2>3. CASE \E j \in 1..i - 1 :
               /\ stack[j].ctx # None
               /\ \A k \in j + 1..i - 1 : stack[k].ctx = None
    BY <1>1, <2>3 DEF ActiveBefore
  <2>. QED  BY <2>1, <2>2, <2>3 DEF ActiveBefore
<1>. QED  BY <1>1, <1>2 DEF StackInv, ResumeInv

LEMMA StepStack ==
  ASSUME TypeOK, StackInv, ResumeInv, [Next]_vars
  PROVE  StackInv' /\ ResumeInv'
<1>1. ASSUME UNCHANGED <<enabled, current, stack>>,
             \A c \in callbacks' : c \in callbacks \/ c.ctx = c.reg
      PROVE  StackInv' /\ ResumeInv'
  <2>1. StackInv'
    BY <1>1 DEF StackInv, ActiveBefore, Before
  <2>2. ResumeInv'
    BY <1>1 DEF ResumeInv
  <2>. QED  BY <2>1, <2>2
<1>. DEFINE Entered == \E by \in By, ctx \in Maybe, reg \in Maybe :
                         /\ Enter(by, ctx, reg)
                         /\ by = "callback" => ctx = reg
                         /\ enabled' = enabled
                         /\ callbacks' \subseteq callbacks
<1>2. CASE Entered
  BY <1>2, EnterKeepsStack
<1>3. None \in Maybe /\ "app" \in By /\ "callback" \in By /\ "listener" \in By
  BY DEF Maybe, By
<1>4. CASE UNCHANGED vars
  BY <1>1, <1>4 DEF vars
<1>5. CASE Task
  <2>1. Enter("app", None, None) /\ enabled' = enabled /\ callbacks' = callbacks
    BY <1>5 DEF Task
  <2>. QED  BY <1>2, <1>3, <2>1
<1>6. CASE Leave
  BY <1>6, LeaveKeepsStack
<1>7. ASSUME NEW ctx \in Contexts, With(ctx)
      PROVE  StackInv' /\ ResumeInv'
  <2>1. Enter("app", ctx, None) /\ enabled' = enabled /\ callbacks' = callbacks
        /\ ctx \in Maybe
    BY <1>7 DEF With, Maybe
  <2>. QED  BY <1>2, <1>3, <2>1
<1>8. CASE Defer \/ DeferLong \/ DeferFrame
  BY <1>1, <1>8 DEF Defer, DeferLong, DeferFrame
<1>9. ASSUME NEW c \in callbacks, RunCallback(c)
      PROVE  StackInv' /\ ResumeInv'
  <2>1. Enter("callback", c.ctx, c.reg) /\ enabled' = enabled /\ callbacks' \subseteq callbacks
    BY <1>9 DEF RunCallback
  <2>2. c.ctx \in Maybe /\ c.reg \in Maybe /\ c.ctx = c.reg
    BY DEF TypeOK, Callback, ResumeInv
  <2>. QED  BY <1>2, <1>3, <2>1, <2>2
<1>10. CASE FireNext
  <2>1. Head(firing) \in Entry /\ enabled' = enabled /\ callbacks' = callbacks
    BY <1>10, TailFacts DEF FireNext, TypeOK
  <2>. DEFINE e == Head(firing)
              reg == IF e.ctx = None THEN None ELSE e.reg
  <2>2. e.ctx \in Maybe /\ reg \in Maybe
    BY <2>1 DEF Entry, Maybe
  <2>3. Enter("listener", e.ctx, reg) \/ UNCHANGED <<stack, current>>
    BY <1>10 DEF FireNext
  <2>. HIDE DEF reg
  <2>. QED  BY <1>1, <1>2, <1>3, <2>1, <2>2, <2>3
<1>11. CASE DeliverMessage
  <2>1. Enter("app", Resumed(attached), None) /\ enabled' = enabled /\ callbacks' = callbacks
    BY <1>11 DEF DeliverMessage
  <2>2. Resumed(attached) \in Maybe
    BY <1>3 DEF Resumed, TypeOK
  <2>. QED  BY <1>2, <1>3, <2>1, <2>2
<1>12. CASE Observe
  <2>1. Enter("callback", Resumed(nodeCtx), Resumed(nodeCtx)) /\ enabled' = enabled
        /\ callbacks' = callbacks
    BY <1>12 DEF Observe
  <2>2. Resumed(nodeCtx) \in Maybe
    BY <1>3 DEF Resumed, TypeOK
  <2>. QED  BY <1>2, <1>3, <2>1, <2>2
<1>13. CASE HashChange
  <2>1. Enter("app", Resumed(hashCtx), None) /\ enabled' = enabled /\ callbacks' = callbacks
    BY <1>13 DEF HashChange
  <2>2. Resumed(hashCtx) \in Maybe
    BY <1>3 DEF Resumed, TypeOK
  <2>. QED  BY <1>2, <1>3, <2>1, <2>2
<1>14. CASE Disable
  BY <1>14, DisableKeepsStack
<1>15. CASE \/ \E ctx \in Contexts : CleanPort(ctx) \/ CleanHash(ctx)
            \/ \E l \in Listeners : AddListener(l) \/ RemoveListener(l)
            \/ Fire \/ PostMessage \/ SetData \/ SetHash \/ Navigate
  BY <1>1, <1>15 DEF CleanPort, CleanHash, AddListener, RemoveListener, Fire, PostMessage,
                     SetData, SetHash, Navigate
<1>. QED
  BY <1>4, <1>5, <1>6, <1>7, <1>8, <1>9, <1>10, <1>11, <1>12, <1>13, <1>14, <1>15 DEF Next

LEMMA InitStack == Init => StackInv /\ ResumeInv
<1>. SUFFICES ASSUME Init PROVE StackInv /\ ResumeInv
  OBVIOUS
<1>1. stack = <<>> /\ Len(stack) = 0 /\ current = Root /\ callbacks = {}
  BY DEF Init
<1>. QED  BY <1>1 DEF StackInv, ResumeInv, ActiveBefore, Before

\* Below the last call the two agree.
LEMMA StackAgrees ==
  ASSUME TypeOK, StackInv, ResumeInv
  PROVE  InnermostWith
<1>. DEFINE n == Len(stack)
            withs == {i \in DOMAIN stack : stack[i].ctx # None}
<1>1. stack \in Seq(Frame) /\ n \in Nat /\ DOMAIN stack = 1..n /\ (n + 1) - 1 = n
  BY DEF TypeOK
<1>2. ActiveBefore(n + 1) /\ Before(n + 1) = current
  BY <1>1 DEF StackInv, Before
<1>3. Idle => current = Root
  BY <1>1, <1>2 DEF Idle, ActiveBefore
<1>4. CASE current = Root /\ \A j \in 1..n : stack[j].ctx = None
  BY <1>1, <1>3, <1>4 DEF InnermostWith, ResumeInv
<1>5. ASSUME NEW j \in 1..n, stack[j].ctx # None,
             \A k \in j + 1..n : stack[k].ctx = None, enabled => current = stack[j].ctx
      PROVE  InnermostWith
  <2>1. j \in withs /\ \A k \in withs : k <= j
    BY <1>1, <1>5
  <2>2. ASSUME NEW m \in withs, \A k \in withs : k <= m
        PROVE  m = j
    BY <1>1, <2>1, <2>2
  <2>. HIDE DEF withs
  <2>3. (CHOOSE i \in withs : \A k \in withs : k <= i) = j
    BY <2>1, <2>2
  <2>4. withs # {}
    BY <2>1
  <2>5. enabled => current = IF withs = {} THEN Root
                     ELSE stack[CHOOSE i \in withs : \A k \in withs : k <= i].ctx
    BY <1>5, <2>3, <2>4
  <2>. QED  BY <1>3, <2>5 DEF withs, InnermostWith, ResumeInv
<1>. QED  BY <1>1, <1>2, <1>4, <1>5 DEF ActiveBefore

\* The active context is that of the innermost with, and a callback runs in the
\* context it was handed over in (SplunkContextManager.ts:99-136, 144-276, 751-783).
THEOREM InnermostIsActive == Spec => []InnermostWith
<1>1. Init => TypeOK /\ CountInv /\ StackInv /\ ResumeInv
  BY InitType, InitStack
<1>2. (TypeOK /\ CountInv /\ StackInv /\ ResumeInv) /\ [Next]_vars
        => (TypeOK /\ CountInv /\ StackInv /\ ResumeInv)'
  BY StepType, StepStack
<1>3. TypeOK /\ CountInv /\ StackInv /\ ResumeInv => InnermostWith
  BY StackAgrees
<1>. QED  BY <1>1, <1>2, <1>3, PTL DEF Spec

-----------------------------------------------------------------------------
(* The port and the hash.                                                  *)

LEMMA StepCleanup ==
  ASSUME TypeOK, ContextsTakenOff, [Next]_vars
  PROVE  ContextsTakenOff'
<1>1. ASSUME UNCHANGED <<attached, hashCtx, cleanups>>
      PROVE  ContextsTakenOff'
  BY <1>1 DEF ContextsTakenOff
<1>2. cleanups \in [{"port", "hash"} \X Contexts -> Nat] /\ current \in Contexts
      /\ attached \in Maybe /\ hashCtx \in Maybe
  BY DEF TypeOK
<1>3. ASSUME NEW k \in {"port", "hash"}, NEW c \in Contexts,
             cleanups' = [cleanups EXCEPT ![<<k, c>>] = @ + 1]
      PROVE  /\ cleanups'[<<k, c>>] > 0
             /\ \A x \in {"port", "hash"} \X Contexts : cleanups[x] > 0 => cleanups'[x] > 0
  BY <1>2, <1>3
<1>4. CASE Leave
  <2>1. CASE UNCHANGED <<hashCtx, cleanups>>
    BY <1>1, <1>4, <2>1 DEF Leave, portVars
  <2>2. CASE /\ Last(stack).ctx # None
             /\ hashCtx' = Last(stack).ctx
             /\ cleanups' = [cleanups EXCEPT ![<<"hash", Last(stack).ctx>>] = @ + 1]
    <3>1. Last(stack).ctx \in Contexts
      <4>1. Last(stack) \in Frame
        BY <1>4, FrontFacts DEF Leave, Idle, TypeOK
      <4>. QED  BY <2>2, <4>1 DEF Frame, Maybe
    <3>2. attached' = attached
      BY <1>4 DEF Leave, portVars
    <3>3. attached # None => <<"port", attached>> \in {"port", "hash"} \X Contexts
      BY <1>2 DEF Maybe
    <3>. QED  BY <1>3, <2>2, <3>1, <3>2, <3>3 DEF ContextsTakenOff
  <2>. QED  BY <1>4, <2>1, <2>2 DEF Leave
<1>5. CASE PostMessage
  <2>1. CASE enabled
    <3>1. /\ attached' = current /\ hashCtx' = hashCtx
          /\ cleanups' = [cleanups EXCEPT ![<<"port", current>>] = @ + 1]
      BY <1>5, <2>1 DEF PostMessage, hashVars
    <3>2. hashCtx # None => <<"hash", hashCtx>> \in {"port", "hash"} \X Contexts
      BY <1>2 DEF Maybe
    <3>. QED  BY <1>2, <1>3, <3>1, <3>2 DEF ContextsTakenOff
  <2>2. CASE ~enabled
    BY <1>1, <1>5, <2>2 DEF PostMessage, hashVars
  <2>. QED  BY <2>1, <2>2
<1>6. ASSUME NEW k \in {"port", "hash"}, NEW c \in Contexts,
             cleanups' = [cleanups EXCEPT ![<<k, c>>] = @ - 1]
      PROVE  \A x \in {"port", "hash"} \X Contexts : x # <<k, c>> => cleanups'[x] = cleanups[x]
  BY <1>2, <1>6
<1>7. ASSUME NEW ctx \in Contexts, CleanPort(ctx)
      PROVE  ContextsTakenOff'
  <2>1. /\ attached' = IF attached = ctx THEN None ELSE attached
        /\ hashCtx' = hashCtx
        /\ cleanups' = [cleanups EXCEPT ![<<"port", ctx>>] = @ - 1]
    BY <1>7 DEF CleanPort, hashVars
  <2>2. /\ attached' # None => /\ attached' = attached
                               /\ <<"port", attached>> \in {"port", "hash"} \X Contexts
                               /\ <<"port", attached>> # <<"port", ctx>>
        /\ hashCtx # None => /\ <<"hash", hashCtx>> \in {"port", "hash"} \X Contexts
                             /\ <<"hash", hashCtx>> # <<"port", ctx>>
    BY <1>2, <2>1 DEF Maybe
  <2>. QED  BY <1>6, <2>1, <2>2 DEF ContextsTakenOff
<1>8. ASSUME NEW ctx \in Contexts, CleanHash(ctx)
      PROVE  ContextsTakenOff'
  <2>1. /\ hashCtx' = IF hashCtx = ctx THEN None ELSE hashCtx
        /\ attached' = attached
        /\ cleanups' = [cleanups EXCEPT ![<<"hash", ctx>>] = @ - 1]
    BY <1>8 DEF CleanHash, portVars
  <2>2. /\ hashCtx' # None => /\ hashCtx' = hashCtx
                              /\ <<"hash", hashCtx>> \in {"port", "hash"} \X Contexts
                              /\ <<"hash", hashCtx>> # <<"hash", ctx>>
        /\ attached # None => /\ <<"port", attached>> \in {"port", "hash"} \X Contexts
                              /\ <<"port", attached>> # <<"hash", ctx>>
    BY <1>2, <2>1 DEF Maybe
  <2>. QED  BY <1>6, <2>1, <2>2 DEF ContextsTakenOff
<1>9. CASE UNCHANGED vars
  BY <1>1, <1>9 DEF vars, portVars, hashVars
<1>10. CASE \/ Task \/ \E ctx \in Contexts : With(ctx)
            \/ Defer \/ DeferLong \/ DeferFrame \/ \E c \in callbacks : RunCallback(c)
            \/ \E l \in Listeners : AddListener(l) \/ RemoveListener(l)
            \/ Fire \/ FireNext \/ DeliverMessage \/ SetData \/ Observe
            \/ SetHash \/ Navigate \/ HashChange \/ Disable
  BY <1>1, <1>10 DEF Task, With, Defer, DeferLong, DeferFrame, RunCallback, AddListener,
     RemoveListener, Fire, FireNext, DeliverMessage, SetData, Observe, SetHash, Navigate,
     HashChange, Disable, portVars, hashVars
<1>. QED
  BY <1>4, <1>5, <1>7, <1>8, <1>9, <1>10 DEF Next

\* No context stays on the port or the hash for good: whoever attached it left a
\* timer that takes it off (SplunkContextManager.ts:616-620, 773-781).
THEOREM NoContextIsLeft == Spec => []ContextsTakenOff
<1>1. Init => TypeOK /\ CountInv /\ ContextsTakenOff
  BY InitType DEF Init, ContextsTakenOff
<1>2. (TypeOK /\ CountInv /\ ContextsTakenOff) /\ [Next]_vars
        => (TypeOK /\ CountInv /\ ContextsTakenOff)'
  BY StepType, StepCleanup
<1>. QED  BY <1>1, <1>2, PTL DEF Spec

LEMMA StepPosts ==
  ASSUME TypeOK, CountInv, NeverEarlierPost, [Next]_vars
  PROVE  NeverEarlierPost'
<1>1. ASSUME enabled' => enabled, UNCHANGED <<messages, latest>>,
             attached' = attached \/ attached' = None
      PROVE  NeverEarlierPost'
  BY <1>1 DEF NeverEarlierPost
<1>2. CASE PostMessage
  <2>1. CASE enabled
    <3>1. calls \in Nat /\ messages \in Seq(1..MaxCalls)
      BY DEF TypeOK
    <3>2. calls' = calls + 1 /\ latest' = calls' /\ messages' = Append(messages, calls')
      BY <1>2, <2>1 DEF PostMessage, AppCall
    <3>3. calls' \in 1..MaxCalls
      BY <1>2, ConstAssumption DEF PostMessage, AppCall, TypeOK
    <3>4. /\ messages' \in Seq(1..MaxCalls) /\ Len(messages') = Len(messages) + 1
          /\ \A i \in 1..Len(messages) + 1 :
               messages'[i] = IF i <= Len(messages) THEN messages[i] ELSE calls'
      BY <3>1, <3>2, <3>3, AppendFacts
    <3>5. \A i \in 1..Len(messages) : messages[i] \in Nat /\ messages[i] <= calls
      BY <3>1, ConstAssumption DEF CountInv
    <3>6. \A i \in DOMAIN messages' : messages'[i] <= latest'
      BY <3>1, <3>2, <3>4, <3>5
    <3>. QED  BY <3>6 DEF NeverEarlierPost
  <2>2. CASE ~enabled
    BY <1>2, <2>2 DEF PostMessage, NeverEarlierPost
  <2>. QED  BY <2>1, <2>2
<1>3. CASE DeliverMessage
  <2>1. messages \in Seq(1..MaxCalls) /\ messages # <<>> /\ messages' = Tail(messages)
    BY <1>3 DEF DeliverMessage, TypeOK
  <2>2. \A i \in DOMAIN messages' : i + 1 \in DOMAIN messages /\ messages'[i] = messages[i + 1]
    BY <2>1, TailFacts
  <2>3. enabled' = enabled /\ attached' = attached /\ latest' = latest
    BY <1>3 DEF DeliverMessage
  <2>. QED  BY <2>2, <2>3 DEF NeverEarlierPost
<1>4. ASSUME NEW ctx \in Contexts, CleanPort(ctx)
      PROVE  NeverEarlierPost'
  BY <1>1, <1>4 DEF CleanPort
<1>5. CASE Disable
  BY <1>5 DEF Disable, NeverEarlierPost
<1>6. CASE UNCHANGED vars
  BY <1>1, <1>6 DEF vars, portVars
<1>7. CASE \/ Task \/ Leave \/ Defer \/ DeferLong \/ DeferFrame
           \/ Fire \/ FireNext \/ SetData \/ Observe \/ SetHash \/ Navigate \/ HashChange
  BY <1>1, <1>7 DEF Task, Leave, Defer, DeferLong, DeferFrame, Fire, FireNext, SetData,
     Observe, SetHash, Navigate, HashChange, portVars
<1>8. ASSUME NEW ctx \in Contexts, With(ctx) \/ CleanHash(ctx)
      PROVE  NeverEarlierPost'
  BY <1>1, <1>8 DEF With, CleanHash, portVars
<1>9. ASSUME NEW c \in callbacks, RunCallback(c)
      PROVE  NeverEarlierPost'
  BY <1>1, <1>9 DEF RunCallback, portVars
<1>10. ASSUME NEW l \in Listeners, AddListener(l) \/ RemoveListener(l)
       PROVE  NeverEarlierPost'
  BY <1>1, <1>10 DEF AddListener, RemoveListener, portVars
<1>. QED
  BY <1>2, <1>3, <1>4, <1>5, <1>6, <1>7, <1>8, <1>9, <1>10 DEF Next

\* A message never runs in the context of an earlier post
\* (SplunkContextManager.ts:600-625).
THEOREM PostsInOrder == Spec => []NeverEarlierPost
<1>1. Init => TypeOK /\ CountInv /\ NeverEarlierPost
  BY InitType DEF Init, NeverEarlierPost
<1>2. (TypeOK /\ CountInv /\ NeverEarlierPost) /\ [Next]_vars
        => (TypeOK /\ CountInv /\ NeverEarlierPost)'
  BY StepType, StepPosts
<1>. QED  BY <1>1, <1>2, PTL DEF Spec

-----------------------------------------------------------------------------
(* The listeners of the request.                                           *)

\* Nothing is wanted twice.
WantedOnce == \A i, j \in DOMAIN wanted : wanted[i] = wanted[j] => i = j

\* While the manager is enabled, what the request has is wrapped, and the wrapper is
\* the one that would be found again.
WrappedInv ==
  enabled => \A i \in DOMAIN request :
               request[i].ctx # None /\ known[request[i].listener] # None

\* RequestAsPlain, element by element
ListenersInv ==
  enabled => /\ Len(request) = Len(wanted)
             /\ \A i \in DOMAIN request : request[i].listener = wanted[i]

RequestInv == WantedOnce /\ WrappedInv /\ ListenersInv

LEMMA AddKeepsRequest ==
  ASSUME TypeOK, RequestInv, NEW l \in Listeners, AddListener(l)
  PROVE  RequestInv'
<1>. DEFINE ctx == IF ~enabled THEN None
                   ELSE IF known[l] # None THEN known[l] ELSE current
            e == [listener |-> l, ctx |-> ctx, reg |-> current]
<1>1. /\ request \in Seq(Entry) /\ wanted \in Seq(Listeners)
      /\ known \in [Listeners -> Maybe] /\ current \in Contexts
      /\ current # None
  BY ConstAssumption DEF TypeOK
<1>2. e \in Entry
  BY <1>1 DEF Entry, Maybe
<1>3. enabled' = enabled
  BY DEF AddListener
<1>4. wanted' = IF Contains(wanted, l) THEN wanted ELSE Append(wanted, l)
  BY DEF AddListener
<1>5. WantedOnce'
  <2>1. CASE Contains(wanted, l)
    BY <1>4, <2>1 DEF RequestInv, WantedOnce
  <2>2. CASE ~Contains(wanted, l)
    <3>1. /\ Len(wanted) \in Nat /\ wanted' \in Seq(Listeners)
          /\ Len(wanted') = Len(wanted) + 1
          /\ \A i \in 1..Len(wanted) + 1 :
               wanted'[i] = IF i <= Len(wanted) THEN wanted[i] ELSE l
      BY <1>1, <1>4, <2>2, AppendFacts
    <3>2. \A i \in 1..Len(wanted) : wanted[i] # l
      BY <2>2 DEF Contains
    <3>. QED  BY <1>1, <3>1, <3>2 DEF RequestInv, WantedOnce
  <2>. QED  BY <2>1, <2>2
<1>6. CASE ~enabled
  BY <1>3, <1>5, <1>6 DEF RequestInv, WrappedInv, ListenersInv
<1>7. CASE enabled
  <2>1. ctx # None
    BY <1>1, <1>7
  <2>2. known' = [known EXCEPT ![l] = ctx]
    BY <1>7 DEF AddListener
  <2>3. request' = IF Installed(request, l, ctx) THEN request ELSE Append(request, e)
    BY DEF AddListener
  <2>4. e.listener = l /\ e.ctx = ctx
    OBVIOUS
  <2>. HIDE DEF e, ctx
  <2>5. \A m \in Listeners : known[m] # None => known'[m] # None
    BY <1>1, <2>1, <2>2
  <2>6. known'[l] # None
    BY <1>1, <2>1, <2>2
  <2>7. Installed(request, l, ctx) <=> \E i \in DOMAIN request : request[i].listener = l
    BY <1>7, <2>1 DEF Installed, IsFunction, RequestInv, WrappedInv
  <2>8. Installed(request, l, ctx) <=> Contains(wanted, l)
    BY <1>1, <1>7, <2>7 DEF Contains, RequestInv, ListenersInv
  <2>9. CASE Contains(wanted, l)
    <3>1. request' = request /\ wanted' = wanted
      BY <1>4, <2>3, <2>8, <2>9
    <3>2. \A i \in DOMAIN request : request[i].listener \in Listeners
      <4>1. \A i \in DOMAIN request : request[i] \in Entry
        BY <1>1
      <4>. QED  BY <4>1 DEF Entry
    <3>. QED  BY <1>3, <1>5, <1>7, <2>5, <3>1, <3>2 DEF RequestInv, WrappedInv, ListenersInv
  <2>10. CASE ~Contains(wanted, l)
    <3>1. /\ Len(request') = Len(request) + 1
          /\ \A i \in 1..Len(request) + 1 :
               request'[i] = IF i <= Len(request) THEN request[i] ELSE e
          /\ request' \in Seq(Entry)
      BY <1>1, <1>2, <2>3, <2>8, <2>10, AppendFacts
    <3>2. /\ Len(wanted') = Len(wanted) + 1
          /\ \A i \in 1..Len(wanted) + 1 :
               wanted'[i] = IF i <= Len(wanted) THEN wanted[i] ELSE l
      BY <1>1, <1>4, <2>10, AppendFacts
    <3>3. /\ Len(request) = Len(wanted) /\ Len(request) \in Nat
          /\ \A i \in 1..Len(request) :
               /\ request[i].listener = wanted[i] /\ request[i].listener \in Listeners
               /\ request[i].ctx # None /\ known[request[i].listener] # None
      BY <1>1, <1>7 DEF Entry, RequestInv, WrappedInv, ListenersInv
    <3>4. WrappedInv'
      BY <2>1, <2>4, <2>5, <2>6, <3>1, <3>3 DEF WrappedInv
    <3>5. ListenersInv'
      BY <2>4, <3>1, <3>2, <3>3 DEF ListenersInv
    <3>. QED  BY <1>5, <3>4, <3>5 DEF RequestInv
  <2>. QED  BY <2>9, <2>10
<1>. QED  BY <1>6, <1>7

LEMMA RemoveKeepsRequest ==
  ASSUME TypeOK, RequestInv, NEW l \in Listeners, RemoveListener(l)
  PROVE  RequestInv'
<1>1. request \in Seq(Entry) /\ wanted \in Seq(Listeners)
  BY DEF TypeOK
<1>2. enabled' = enabled /\ known' = known
  BY DEF RemoveListener
<1>3. \/ ~Contains(wanted, l) /\ wanted' = wanted
      \/ \E i \in DOMAIN wanted : wanted[i] = l /\ wanted' = RemoveAt(wanted, i)
  BY DEF RemoveListener
<1>4. ASSUME NEW n \in DOMAIN wanted, wanted' = RemoveAt(wanted, n)
      PROVE  /\ Len(wanted) \in Nat /\ Len(wanted') = Len(wanted) - 1
             /\ wanted' \in Seq(Listeners)
             /\ \A i \in 1..Len(wanted) - 1 :
                  wanted'[i] = IF i < n THEN wanted[i] ELSE wanted[i + 1]
  <2>1. /\ Len(RemoveAt(wanted, n)) = Len(wanted) - 1
        /\ RemoveAt(wanted, n) \in Seq(Listeners)
        /\ \A i \in 1..Len(wanted) - 1 :
             RemoveAt(wanted, n)[i] = IF i < n THEN wanted[i] ELSE wanted[i + 1]
    BY <1>1, RemoveAtFacts
  <2>2. Len(wanted) \in Nat
    BY <1>1
  <2>. QED  BY <1>4, <2>1, <2>2
<1>5. WantedOnce'
  <2>1. CASE wanted' = wanted
    BY <2>1 DEF RequestInv, WantedOnce
  <2>2. ASSUME NEW n \in DOMAIN wanted, wanted' = RemoveAt(wanted, n)
        PROVE  WantedOnce'
    <3>1. /\ Len(wanted) \in Nat /\ n \in 1..Len(wanted)
          /\ DOMAIN wanted' = 1..Len(wanted) - 1
          /\ \A i \in 1..Len(wanted) - 1 :
               wanted'[i] = IF i < n THEN wanted[i] ELSE wanted[i + 1]
      BY <1>1, <1>4, <2>2
    <3>2. \A i, j \in 1..Len(wanted) : wanted[i] = wanted[j] => i = j
      BY <1>1 DEF RequestInv, WantedOnce
    <3>. QED  BY <3>1, <3>2 DEF WantedOnce
  <2>. QED  BY <1>3, <2>1, <2>2
<1>6. CASE ~enabled
  BY <1>2, <1>5, <1>6 DEF RequestInv, WrappedInv, ListenersInv
<1>7. CASE enabled
  <2>1. /\ Len(request) = Len(wanted) /\ Len(request) \in Nat
        /\ \A i \in 1..Len(request) :
             /\ request[i].listener = wanted[i]
             /\ request[i].ctx # None /\ known[request[i].listener] # None
    BY <1>1, <1>7 DEF RequestInv, WrappedInv, ListenersInv
  <2>2. \A i \in DOMAIN request :
          IsFunction(request[i], l, known[l]) <=> request[i].listener = l
    BY <1>1, <2>1 DEF IsFunction
  <2>3. \/ ~Installed(request, l, known[l]) /\ request' = request
        \/ \E i \in DOMAIN request :
             IsFunction(request[i], l, known[l]) /\ request' = RemoveAt(request, i)
    BY <1>7 DEF RemoveListener
  <2>4. Installed(request, l, known[l]) <=> Contains(wanted, l)
    BY <1>1, <2>1, <2>2 DEF Installed, Contains
  <2>5. CASE ~Contains(wanted, l)
    <3>1. request' = request /\ wanted' = wanted
      BY <1>1, <1>3, <2>3, <2>4, <2>5 DEF Contains, Installed
    <3>. QED  BY <1>2, <1>5, <3>1 DEF RequestInv, WrappedInv, ListenersInv
  <2>6. CASE Contains(wanted, l)
    <3>1. PICK n \in DOMAIN wanted : wanted[n] = l /\ wanted' = RemoveAt(wanted, n)
      BY <1>3, <2>6
    <3>2. n \in DOMAIN request /\ request' = RemoveAt(request, n)
      <4>1. PICK m \in DOMAIN request :
              IsFunction(request[m], l, known[l]) /\ request' = RemoveAt(request, m)
        BY <2>3, <2>4, <2>6
      <4>2. m \in DOMAIN wanted /\ wanted[m] = l
        BY <1>1, <2>1, <2>2, <4>1
      <4>. QED  BY <3>1, <4>1, <4>2 DEF RequestInv, WantedOnce
    <3>3. /\ Len(request') = Len(request) - 1 /\ request' \in Seq(Entry)
          /\ \A i \in 1..Len(request) - 1 :
               request'[i] = IF i < n THEN request[i] ELSE request[i + 1]
      BY <1>1, <3>2, RemoveAtFacts
    <3>4. /\ Len(wanted') = Len(wanted) - 1
          /\ \A i \in 1..Len(wanted) - 1 :
               wanted'[i] = IF i < n THEN wanted[i] ELSE wanted[i + 1]
      BY <1>4, <3>1
    <3>5. \A i \in 1..Len(request) - 1 :
            /\ request'[i].listener = wanted'[i]
            /\ request'[i].ctx # None /\ known[request'[i].listener] # None
      BY <2>1, <3>3, <3>4
    <3>. QED  BY <1>2, <1>5, <2>1, <3>3, <3>4, <3>5 DEF RequestInv, WrappedInv, ListenersInv
  <2>. QED  BY <2>5, <2>6
<1>. QED  BY <1>6, <1>7

LEMMA StepRequest ==
  ASSUME TypeOK, RequestInv, [Next]_vars
  PROVE  RequestInv'
<1>1. ASSUME enabled' => enabled, UNCHANGED <<request, known, wanted>>
      PROVE  RequestInv'
  BY <1>1 DEF RequestInv, WantedOnce, WrappedInv, ListenersInv
<1>2. ASSUME NEW l \in Listeners, AddListener(l) \/ RemoveListener(l)
      PROVE  RequestInv'
  BY <1>2, AddKeepsRequest, RemoveKeepsRequest
<1>3. CASE UNCHANGED vars
  BY <1>1, <1>3 DEF vars, requestVars
<1>4. CASE \/ Task \/ Leave
           \/ \E ctx \in Contexts : With(ctx) \/ CleanPort(ctx) \/ CleanHash(ctx)
           \/ Defer \/ DeferLong \/ DeferFrame \/ \E c \in callbacks : RunCallback(c)
           \/ Fire \/ FireNext \/ PostMessage \/ DeliverMessage \/ SetData \/ Observe
           \/ SetHash \/ Navigate \/ HashChange \/ Disable
  BY <1>1, <1>4 DEF Task, Leave, With, CleanPort, CleanHash, Defer, DeferLong, DeferFrame,
     RunCallback, Fire, FireNext, PostMessage, DeliverMessage, SetData, Observe, SetHash,
     Navigate, HashChange, Disable, requestVars
<1>. QED  BY <1>2, <1>3, <1>4 DEF Next

LEMMA InitRequest == Init => RequestInv
BY DEF Init, RequestInv, WantedOnce, WrappedInv, ListenersInv

LEMMA RequestAgrees ==
  ASSUME TypeOK, RequestInv
  PROVE  RequestAsPlain
<1>. SUFFICES ASSUME enabled
              PROVE  [i \in DOMAIN request |-> request[i].listener] = wanted
  BY DEF RequestAsPlain
<1>1. request \in Seq(Entry) /\ wanted \in Seq(Listeners)
  BY DEF TypeOK
<1>2. Len(request) = Len(wanted) /\ \A i \in DOMAIN request : request[i].listener = wanted[i]
  BY DEF RequestInv, ListenersInv
<1>3. DOMAIN request = 1..Len(wanted) /\ wanted = [i \in 1..Len(wanted) |-> wanted[i]]
  BY <1>1, <1>2
<1>. QED  BY <1>2, <1>3

\* The listeners of a request are those a plain request would have
\* (SplunkContextManager.ts:400-446).
THEOREM RequestIsPlain == Spec => []RequestAsPlain
<1>1. Init => TypeOK /\ CountInv /\ RequestInv
  BY InitType, InitRequest
<1>2. (TypeOK /\ CountInv /\ RequestInv) /\ [Next]_vars
        => (TypeOK /\ CountInv /\ RequestInv)'
  BY StepType, StepRequest
<1>3. TypeOK /\ CountInv /\ RequestInv => RequestAsPlain
  BY RequestAgrees
<1>. QED  BY <1>1, <1>2, <1>3, PTL DEF Spec

\* No message or hashchange resumes a context that another call has replaced or a timer
\* has taken off (SplunkContextManager.ts:600-625, 773-781).
THEOREM ContextsAreFresh == Spec => []NoStaleContext
<1>1. NeverEarlierPost /\ ContextsTakenOff => NoStaleContext
  BY DEF NoStaleContext
<1>. QED  BY <1>1, PostsInOrder, NoContextIsLeft, PTL

=============================================================================
