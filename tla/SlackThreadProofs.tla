------------------------- MODULE SlackThreadProofs -------------------------
(***************************************************************************)
(* Theorems of SlackThread, for any deliveries, threads, users, tools and  *)
(* rules, any length of a reply and any number of stops.                   *)
(*                                                                         *)
(* Three parties act on a delivery: the handler of the event, the worker   *)
(* of its task, and whoever presses a button.  StageInv says how far the   *)
(* handler may be for a state of the task, ReplyInv what it has shown by   *)
(* then, UpdateInv whose update of the placeholder may be in flight, and   *)
(* AskInv what the messages with the buttons, the presses in flight, the   *)
(* future and the agent know of one another.                               *)
(***************************************************************************)
EXTENDS SlackThread, SequenceTheorems, FiniteSetTheorems, TLAPS

\* Where the handler is, the task is: not submitted, owed to it, or over.
StageInv(d) ==
    /\ handler[d] \in {"idle", "placeholder"} => state[d] = "absent" /\ reply[d] = "none"
    /\ caller[d] \in {"waiting", "woken"} => handler[d] = "waiting"
    /\ handler[d] \in {"final", "say", "done", "refused"} => state[d] \in Life!Over

\* The chunks up to the next one are said, the first of them perhaps in the
\* placeholder, where an update that the timeout left in flight may undo it.
Shown(d) ==
    \/ posts[d] = [i \in 1..(next[d] - 1) |-> i]
    \/ /\ next[d] >= 2
       /\ posts[d] = [i \in 1..(next[d] - 2) |-> i + 1]
       /\ reply[d] = "final" \/ state[d] = "timeout"

ReplyInv(d) ==
    /\ reply[d] = "final" => handler[d] \in {"say", "done", "refused"}
    /\ handler[d] \in {"idle", "placeholder", "waiting", "final"} => next[d] = 1 /\ posts[d] = <<>>
    /\ handler[d] = "say" => next[d] <= Chunks
    /\ handler[d] = "done" => next[d] = Chunks + 1
    /\ Shown(d)

\* An update of the placeholder is in flight while its worker awaits it, or
\* because the timeout of the task has cancelled the worker.
UpdateInv(d) ==
    /\ update[d] = "flying" => state[d] = "running"
    /\ update[d] = "late" => state[d] = "timeout"

\* A button of the interrupt was pressed with verdict v.
Decided(d, x, v) == <<d, x, v>> \in pressing \/ label[d][x] = v

\* The agent was told v of the interrupt, or is about to be, or never will.
Heard(d, x, v) ==
    \/ verdict[d][x] = v
    \/ answer[d] # NoAnswer /\ answer[d].tool = x /\ answer[d].verdict = v
    \/ state[d] = "timeout"

AskInv(d) ==
    /\ state[d] = "interrupted" <=> wait[d] # "no"
    /\ stops[d] = 0 => wait[d] = "no"
    /\ answer[d] # NoAnswer =>
          /\ wait[d] = "future" /\ label[d][answer[d].tool] # "none"
          /\ open[d] # <<>> => CanApprove(answer[d].by, Head(open[d]))
    /\ \A x \in Gated :
          /\ stops[d] = 0 => verdict[d][x] = "none" /\ label[d][x] = "none"
          /\ stops[d] = 1 /\ wait[d] # "no" => verdict[d][x] = "none"
          /\ state[d] \notin Life!Over /\ label[d][x] # "none"
                => x \in ToSet(open[d]) \/ verdict[d][x] # "none"
          /\ \A v \in Verdict :
                /\ <<d, x, v>> \in pressing => label[d][x] # "none"
                /\ stops[d] = 1 /\ Decided(d, x, v) => Heard(d, x, v)

ThreadInv ==
    /\ TypeOK /\ ContextsAreLive
    /\ \A d \in Delivery : StageInv(d) /\ ReplyInv(d) /\ UpdateInv(d) /\ AskInv(d)

-----------------------------------------------------------------------------
\* A dict without one of its keys, and a list of interrupts without one.
LEMMA Removed ==
  ASSUME NEW S, NEW q \in Seq(S), IsInjective(q), NEW e
  PROVE  /\ RemoveFirst(q, e) \in Seq(S)
         /\ IsInjective(RemoveFirst(q, e))
         /\ ToSet(RemoveFirst(q, e)) = ToSet(q) \ {e}
  <1>0. Len(q) \in Nat /\ DOMAIN q = 1..Len(q) /\ \A i \in 1..Len(q) : q[i] \in S
    BY LenProperties, ElementOfSeq
  <1>1. CASE ~ \E i \in 1..Len(q) : q[i] = e
    <2>1. RemoveFirst(q, e) = q
      BY <1>1 DEF RemoveFirst
    <2> QED
      BY <1>0, <1>1, <2>1 DEF ToSet
  <1>2. CASE \E i \in 1..Len(q) : q[i] = e
    <2>1. PICK k \in 1..Len(q) : q[k] = e
      BY <1>2
    <2>2. \A i \in 1..Len(q) : q[i] = e <=> i = k
      BY <1>0, <2>1 DEF IsInjective
    <2>3. {i \in 1..Len(q) : q[i] = e} = {k}
      BY <2>1, <2>2
    <2>4. Min({k}) = k
      BY <2>1 DEF Min
    <2>5. SelectInSeq(q, LAMBDA v : v = e) = k
      BY <2>3, <2>4 DEF SelectInSeq
    <2>6. RemoveFirst(q, e) = SubSeq(q, 1, k - 1) \o SubSeq(q, k + 1, Len(q))
      BY <1>2, <2>5 DEF RemoveFirst, RemoveAt
    <2> DEFINE a == SubSeq(q, 1, k - 1)
               b == SubSeq(q, k + 1, Len(q))
               r == a \o b
    <2>7. /\ a \in Seq(S) /\ Len(a) = k - 1 /\ \A i \in 1..(k - 1) : a[i] = q[i]
      <3>1. \A i \in 1..(k - 1) : q[i] \in S
        BY <1>0
      <3> QED
        BY <1>0, <3>1, SubSeqProperties
    <2>8. /\ b \in Seq(S) /\ Len(b) = Len(q) - k
          /\ \A i \in 1..(Len(q) - k) : b[i] = q[k + i]
      <3>1. \A i \in (k + 1)..Len(q) : q[i] \in S
        BY <1>0
      <3> QED
        BY <1>0, <3>1, SubSeqProperties
    <2> HIDE DEF a, b
    <2>9. /\ r \in Seq(S) /\ Len(r) = Len(q) - 1
          /\ \A i \in 1..(Len(q) - 1) : r[i] = IF i < k THEN q[i] ELSE q[i + 1]
      <3>1. /\ r \in Seq(S) /\ Len(r) = Len(a) + Len(b)
            /\ \A i \in 1..(Len(a) + Len(b)) :
                  r[i] = IF i <= Len(a) THEN a[i] ELSE b[i - Len(a)]
        BY <2>7, <2>8, ConcatProperties
      <3> HIDE DEF r
      <3>2. Len(a) = k - 1 /\ Len(b) = Len(q) - k
        BY <2>7, <2>8
      <3>3. ASSUME NEW i \in 1..(Len(q) - 1)
            PROVE  r[i] = IF i < k THEN q[i] ELSE q[i + 1]
        <4>1. CASE i < k
          <5>1. i \in 1..(k - 1) /\ i <= k - 1 /\ i \in 1..((k - 1) + (Len(q) - k))
            BY <1>0, <4>1
          <5> QED
            BY <2>7, <3>1, <3>2, <4>1, <5>1
        <4>2. CASE ~(i < k)
          <5>1. /\ i - (k - 1) \in 1..(Len(q) - k) /\ k + (i - (k - 1)) = i + 1
                /\ ~(i <= k - 1) /\ i \in 1..((k - 1) + (Len(q) - k))
            BY <1>0, <4>2
          <5>2. r[i] = b[i - (k - 1)]
            BY <3>1, <3>2, <5>1
          <5> QED
            BY <2>8, <4>2, <5>1, <5>2
        <4> QED
          BY <4>1, <4>2
      <3> QED
        BY <1>0, <3>1, <3>2, <3>3
    <2> HIDE DEF r
    <2>10. DOMAIN r = 1..(Len(q) - 1)
      BY <2>9, LenProperties
    <2>11. IsInjective(r)
      BY <1>0, <2>9, <2>10 DEF IsInjective
    <2>12. ASSUME NEW i \in 1..Len(q), i # k
           PROVE  q[i] \in ToSet(r)
      <3>1. CASE i < k
        BY <1>0, <2>9, <2>10, <3>1 DEF ToSet
      <3>2. CASE i > k
        <4>1. i - 1 \in 1..(Len(q) - 1) /\ ~(i - 1 < k) /\ (i - 1) + 1 = i
          BY <1>0, <3>2
        <4> QED
          BY <2>9, <2>10, <4>1 DEF ToSet
      <3> QED
        BY <2>12, <3>1, <3>2
    <2>13. ASSUME NEW i \in 1..(Len(q) - 1)
           PROVE  r[i] \in ToSet(q) \ {e}
      <3>1. PICK j \in 1..Len(q) : j # k /\ r[i] = q[j]
        <4>1. i \in 1..Len(q) /\ i + 1 \in 1..Len(q)
          BY <1>0
        <4> QED
          BY <1>0, <2>9, <4>1
      <3> QED
        BY <1>0, <2>2, <3>1 DEF ToSet
    <2>14. ToSet(r) = ToSet(q) \ {e}
      BY <1>0, <2>2, <2>10, <2>12, <2>13 DEF ToSet
    <2> QED
      BY <2>6, <2>9, <2>11, <2>14 DEF r, a, b
  <1> QED
    BY <1>1, <1>2

\* A dict with a new key at its end.
LEMMA Added ==
  ASSUME NEW S, NEW q \in Seq(S), IsInjective(q), NEW e \in S, e \notin ToSet(q)
  PROVE  /\ Append(q, e) \in Seq(S)
         /\ IsInjective(Append(q, e))
         /\ ToSet(Append(q, e)) = ToSet(q) \cup {e}
  <1>1. Len(q) \in Nat /\ DOMAIN q = 1..Len(q)
    BY LenProperties
  <1> DEFINE r == Append(q, e)
  <1>2. /\ r \in Seq(S) /\ Len(r) = Len(q) + 1
        /\ \A i \in 1..Len(q) : r[i] = q[i]
        /\ r[Len(q) + 1] = e
    BY AppendProperties
  <1> HIDE DEF r
  <1>3. DOMAIN r = 1..(Len(q) + 1)
    BY <1>2, LenProperties
  <1>4. \A i \in DOMAIN r : i = Len(q) + 1 \/ i \in 1..Len(q)
    BY <1>1, <1>3
  <1>5. \A i \in 1..Len(q) : q[i] # e /\ q[i] \in ToSet(q)
    BY <1>1 DEF ToSet
  <1>6. IsInjective(r)
    BY <1>1, <1>2, <1>4, <1>5 DEF IsInjective
  <1>7. 1..Len(q) \subseteq DOMAIN r /\ Len(q) + 1 \in DOMAIN r
    BY <1>1, <1>3
  <1>8. ToSet(r) = ToSet(q) \cup {e}
    BY <1>1, <1>2, <1>4, <1>7 DEF ToSet
  <1> QED
    BY <1>2, <1>6, <1>8 DEF r

\* The chunks said so far, and one more.
LEMMA OneMore ==
  ASSUME NEW m \in Nat, NEW c \in Nat
  PROVE  Append([i \in 1..m |-> i + c], m + 1 + c) = [i \in 1..(m + 1) |-> i + c]
  <1> DEFINE q == [i \in 1..m |-> i + c]
             r == [i \in 1..(m + 1) |-> i + c]
  <1>1. q \in Seq(Nat) /\ Len(q) = m /\ \A i \in 1..m : q[i] = i + c
    <2>1. q \in [1..m -> Nat]
      OBVIOUS
    <2>2. q \in Seq(Nat)
      BY <2>1, SeqDef
    <2> QED
      BY <2>2
  <1>2. r \in Seq(Nat) /\ Len(r) = m + 1 /\ \A i \in 1..(m + 1) : r[i] = i + c
    <2>1. r \in [1..(m + 1) -> Nat]
      OBVIOUS
    <2>2. r \in Seq(Nat)
      BY <2>1, SeqDef
    <2> QED
      BY <2>2
  <1> HIDE DEF q, r
  <1>3. /\ Append(q, m + 1 + c) \in Seq(Nat) /\ Len(Append(q, m + 1 + c)) = m + 1
        /\ \A i \in 1..m : Append(q, m + 1 + c)[i] = q[i]
        /\ Append(q, m + 1 + c)[m + 1] = m + 1 + c
    BY <1>1, AppendProperties
  <1>4. \A i \in 1..(m + 1) : Append(q, m + 1 + c)[i] = r[i]
    <2> SUFFICES ASSUME NEW i \in 1..(m + 1)
                 PROVE  Append(q, m + 1 + c)[i] = r[i]
      OBVIOUS
    <2>1. i \in 1..m \/ i = m + 1
      OBVIOUS
    <2> QED
      BY <1>1, <1>2, <1>3, <2>1
  <1>5. Append(q, m + 1 + c) = r
    BY <1>2, <1>3, <1>4, SeqEqual
  <1> QED
    BY <1>5 DEF q, r

-----------------------------------------------------------------------------
\* The upload contexts.

\* A context lives as long as its handler stays where it was.
LEMMA ContextsStay ==
  ASSUME ContextsAreLive, UNCHANGED contexts,
         \A d \in Delivery : handler[d] \in {"placeholder", "waiting"}
                                => handler'[d] \in {"placeholder", "waiting"}
  PROVE  ContextsAreLive'
  BY DEF ContextsAreLive

\* A handler that leaves takes the context with it; another handler of the
\* thread may still need it, but none is left behind.
LEMMA ContextCleared ==
  ASSUME TypeOK, ContextsAreLive, NEW d \in Delivery, Clear(d.thread),
         \A e \in Delivery \ {d} : handler'[e] = handler[e]
  PROVE  ContextsAreLive'
  <1>1. ToSet(contexts') = ToSet(contexts) \ {d.thread}
    BY Removed DEF TypeOK, UploadTypeOK, Clear
  <1> QED
    BY <1>1 DEF ContextsAreLive

\* Every step leaves contexts only to replies that still need them.
LEMMA ContextsStep ==
  ASSUME TypeOK, ContextsAreLive, [Next]_vars
  PROVE  ContextsAreLive'
  <1>0. handler \in [Delivery -> {"idle", "placeholder", "waiting", "final", "say", "done", "refused"}]
    BY DEF TypeOK
  <1>1. ASSUME NEW d \in Delivery, Arrive(d)
        PROVE  ContextsAreLive'
    <2>1. d.thread \in Thread
      BY ThreadAssumption DEF DeliveryType
    <2>2. ToSet(contexts') \subseteq ToSet(contexts) \cup {d.thread}
      BY <1>1, <2>1, Added DEF Arrive, Register, TypeOK, UploadTypeOK
    <2>3. /\ handler'[d] = "placeholder"
          /\ \A e \in Delivery \ {d} : handler'[e] = handler[e]
      BY <1>0, <1>1 DEF Arrive, Goes
    <2> QED
      BY <2>2, <2>3 DEF ContextsAreLive
  <1>2. ASSUME NEW d \in Delivery, Submit(d)
        PROVE  ContextsAreLive'
    <2>1. CASE Goes(d, "placeholder", "waiting") /\ UNCHANGED contexts
      BY <1>0, <2>1, ContextsStay DEF Goes
    <2>2. CASE /\ Clear(d.thread)
               /\ handler' = [handler EXCEPT ![d] = IF reply'[d] = "none" THEN "say" ELSE "final"]
      BY <1>0, <2>2, ContextCleared
    <2> QED
      BY <1>2, <2>1, <2>2 DEF Submit
  <1>3. ASSUME NEW d \in Delivery, Told(d)
        PROVE  ContextsAreLive'
    BY <1>0, <1>3, ContextCleared DEF Told, ReplyStarts
  <1>4. ASSUME NEW d \in Delivery,
               FinalFails(d) \/ FinalLands(d) \/ SayChunk(d) \/ SayRaises(d)
        PROVE  ContextsAreLive'
    BY <1>0, <1>4, ContextsStay
       DEF FinalFails, FinalLands, SayChunk, SayRaises, Goes, At, uploadVars
  <1>5. ASSUME UNCHANGED <<handler, contexts>>
        PROVE  ContextsAreLive'
    BY <1>5, ContextsStay
  <1>6. ASSUME NEW d \in Delivery, Worker(d) \/ Ends(d) \/ UpdateEnds(d)
        PROVE  UNCHANGED <<handler, contexts>>
    BY <1>6 DEF Worker, Ends, UpdateEnds, Start, Progress, CreateFile, WriteFile, Interrupt,
                PostButtons, Posted, Resume, StreamEnds, AskEnds, replyVars, uploadVars
  <1>7. ASSUME NEW d \in Delivery, NEW x \in Gated, NEW v \in Verdict,
               PressEnds(d, x, v) \/ \E user \in User : Press(d, x, v, user)
        PROVE  UNCHANGED <<handler, contexts>>
    BY <1>7 DEF PressEnds, Press, replyVars, uploadVars
  <1>8. CASE UNCHANGED vars
    BY <1>5, <1>8 DEF vars, replyVars, uploadVars
  <1> QED
    BY <1>1, <1>2, <1>3, <1>4, <1>5, <1>6, <1>7, <1>8 DEF Next, Handle

-----------------------------------------------------------------------------
\* The reply.

ReplySide(d) == StageInv(d) /\ ReplyInv(d) /\ UpdateInv(d)

\* What a step does to the reply of delivery d: nothing.
SameReply(d) ==
    /\ state'[d] = state[d] /\ caller'[d] = caller[d]
    /\ handler'[d] = handler[d] /\ reply'[d] = reply[d]
    /\ posts'[d] = posts[d] /\ next'[d] = next[d] /\ update'[d] = update[d]

\* What a step leaves alone of a reply stays as the invariant says.
LEMMA SameReplyKept ==
  ASSUME NEW d \in Delivery, ReplySide(d), SameReply(d)
  PROVE  ReplySide(d)'
  BY DEF ReplySide, SameReply, StageInv, ReplyInv, UpdateInv, Shown

\* What was shown stays shown.
LEMMA ShownKept ==
  ASSUME NEW d \in Delivery, Shown(d), posts'[d] = posts[d], next'[d] = next[d],
         reply[d] = "final" => reply'[d] = "final" \/ state'[d] = "timeout",
         state[d] = "timeout" => state'[d] = "timeout"
  PROVE  Shown(d)'
  BY DEF Shown

\* The handler answers: the task is over and its reply is on its way.
LEMMA ReplyStarted ==
  ASSUME TypeOK, NEW d \in Delivery, ReplySide(d), handler[d] \in {"placeholder", "waiting"},
         handler'[d] = IF reply'[d] = "none" THEN "say" ELSE "final",
         state'[d] \in Life!Over, caller'[d] \notin {"waiting", "woken"},
         state[d] = "timeout" => state'[d] = "timeout",
         reply'[d] # "final", posts'[d] = posts[d], next'[d] = next[d],
         update'[d] = update[d], update[d] = "flying" => state'[d] = "running",
         update[d] = "late" => state'[d] = "timeout"
  PROVE  ReplySide(d)'
  <1>1. Shown(d)'
    BY ShownKept DEF ReplySide, ReplyInv
  <1>2. next'[d] = 1 /\ posts'[d] = <<>> /\ 1 <= Chunks
    BY ThreadAssumption DEF ReplySide, ReplyInv
  <1> QED
    BY <1>1, <1>2, ThreadAssumption DEF ReplySide, StageInv, ReplyInv, UpdateInv, Life!Over

\* The steps of the handler.
LEMMA HandleReplies ==
  ASSUME TypeOK, NEW d \in Delivery, ReplySide(d), Handle(d)
  PROVE  /\ \A e \in Delivery \ {d} : SameReply(e)
         /\ ReplySide(d)'
  <1>0. /\ \A v \in {state, caller, handler, reply, posts, next, update} : DOMAIN v = Delivery
        /\ Shown(d) /\ StageInv(d) /\ ReplyInv(d) /\ UpdateInv(d)
        /\ Chunks \in Nat /\ Chunks >= 1 /\ next[d] \in Nat
    BY ThreadAssumption DEF TypeOK, ReplySide, ReplyInv
  <1>1. CASE Arrive(d)
    <2>1. /\ UNCHANGED <<state, caller, reply, posts, next, update>>
          /\ handler[d] = "idle" /\ handler' = [handler EXCEPT ![d] = "placeholder"]
      BY <1>1 DEF Arrive, Goes, At
    <2>2. Shown(d)'
      BY <1>0, <2>1, ShownKept
    <2> QED
      BY <1>0, <2>1, <2>2 DEF SameReply, ReplySide, StageInv, ReplyInv, UpdateInv
  <1>2. CASE Submit(d)
    <2>1. /\ handler[d] = "placeholder" /\ UNCHANGED <<posts, next, update>>
      BY <1>2 DEF Submit, At
    <2>2. PICK r \in {"thinking", "none"} : reply' = [reply EXCEPT ![d] = r]
      BY <1>2 DEF Submit
    <2>3. CASE Life!Accept(d) /\ caller'[d] = "waiting" /\ Goes(d, "placeholder", "waiting")
      <3>1. /\ state[d] = "absent" /\ state' = [state EXCEPT ![d] = "queued"]
            /\ handler' = [handler EXCEPT ![d] = "waiting"]
            /\ \E c : caller' = [caller EXCEPT ![d] = c]
        BY <2>3 DEF Life!Accept, Life!Move, Goes
      <3>2. Shown(d)'
        BY <1>0, <2>1, <3>1, ShownKept DEF StageInv
      <3>3. \A e \in Delivery \ {d} : SameReply(e)
        BY <1>0, <2>1, <2>2, <3>1 DEF SameReply
      <3> QED
        BY <1>0, <2>1, <2>2, <3>1, <3>2, <3>3 DEF ReplySide, StageInv, ReplyInv, UpdateInv
    <2>4. CASE /\ Life!Refuse(d) /\ caller'[d] = "rejected"
               /\ handler' = [handler EXCEPT ![d] = IF reply'[d] = "none" THEN "say" ELSE "final"]
      <3>1. /\ state[d] = "absent" /\ state' = [state EXCEPT ![d] = "failed"]
            /\ \E c : caller' = [caller EXCEPT ![d] = c]
        BY <2>4 DEF Life!Refuse, Life!Move
      <3>2. \A e \in Delivery \ {d} : SameReply(e)
        BY <1>0, <2>1, <2>2, <2>4, <3>1 DEF SameReply
      <3>3. update[d] \notin {"flying", "late"}
        BY <1>0, <3>1 DEF UpdateInv
      <3>4. ReplySide(d)'
        BY <1>0, <2>1, <2>2, <2>4, <3>1, <3>3, ReplyStarted DEF Life!Over
      <3> QED
        BY <3>2, <3>4
    <2> QED
      BY <1>2, <2>3, <2>4 DEF Submit
  <1>3. CASE Told(d)
    <2>1. /\ state[d] \in Life!Over /\ caller[d] = "woken" /\ UNCHANGED state
          /\ \E c \in {"returned", "keyerror"} : caller' = [caller EXCEPT ![d] = c]
          /\ UNCHANGED <<reply, posts, next, update>>
          /\ handler' = [handler EXCEPT ![d] = IF reply[d] = "none" THEN "say" ELSE "final"]
      BY <1>3 DEF Told, Life!Tell, ReplyStarts
    <2>2. \A e \in Delivery \ {d} : SameReply(e)
      BY <1>0, <2>1 DEF SameReply
    <2>3. handler[d] = "waiting" /\ reply[d] # "final"
      BY <1>0, <2>1 DEF StageInv, ReplyInv
    <2>4. ReplySide(d)'
      BY <1>0, <2>1, <2>3, ReplyStarted DEF UpdateInv
    <2> QED
      BY <2>2, <2>4
  <1>4. CASE FinalFails(d)
    <2>1. /\ handler[d] = "final" /\ handler' = [handler EXCEPT ![d] = "say"]
          /\ \E r \in {reply[d], "final"} : reply' = [reply EXCEPT ![d] = r]
          /\ UNCHANGED <<state, caller, posts, next, update>>
      BY <1>4 DEF FinalFails, Goes, At
    <2>2. Shown(d)'
      BY <1>0, <2>1, ShownKept
    <2> QED
      BY <1>0, <2>1, <2>2 DEF SameReply, ReplySide, StageInv, ReplyInv, UpdateInv
  <1>5. CASE FinalLands(d)
    <2>1. /\ handler[d] = "final"
          /\ handler' = [handler EXCEPT ![d] = IF Chunks = 1 THEN "done" ELSE "say"]
          /\ reply' = [reply EXCEPT ![d] = "final"] /\ next' = [next EXCEPT ![d] = 2]
          /\ UNCHANGED <<state, caller, posts, update>>
      BY <1>5 DEF FinalLands, Goes, At
    <2>2. Shown(d)'
      <3>1. posts'[d] = <<>> /\ next'[d] = 2 /\ reply'[d] = "final"
        BY <1>0, <2>1 DEF ReplyInv
      <3>2. <<>> = [i \in 1..(2 - 2) |-> i + 1]
        OBVIOUS
      <3> QED
        BY <3>1, <3>2 DEF Shown
    <2> QED
      BY <1>0, <2>1, <2>2 DEF SameReply, ReplySide, StageInv, ReplyInv, UpdateInv
  <1>6. CASE SayChunk(d)
    <2>1. /\ handler[d] = "say"
          /\ handler' = [handler EXCEPT ![d] = IF next[d] = Chunks THEN "done" ELSE "say"]
          /\ posts' = [posts EXCEPT ![d] = Append(posts[d], next[d])]
          /\ next' = [next EXCEPT ![d] = next[d] + 1]
          /\ UNCHANGED <<state, caller, reply, update>>
      BY <1>6 DEF SayChunk, Goes, At
    <2>2. posts'[d] = Append(posts[d], next[d]) /\ next'[d] = next[d] + 1
      BY <1>0, <2>1
    <2>3. next[d] \in 1..(Chunks + 1)
      BY DEF TypeOK
    <2>4. Shown(d)'
      <3>1. CASE posts[d] = [i \in 1..(next[d] - 1) |-> i]
        <4>1. posts[d] = [i \in 1..(next[d] - 1) |-> i + 0]
          BY <3>1
        <4>2. next[d] - 1 \in Nat /\ (next[d] - 1) + 1 + 0 = next[d]
              /\ (next[d] - 1) + 1 = next[d] /\ (next[d] + 1) - 1 = next[d]
          BY <2>3, ThreadAssumption
        <4>3. Append(posts[d], (next[d] - 1) + 1 + 0) = [i \in 1..((next[d] - 1) + 1) |-> i + 0]
          BY <4>1, <4>2, OneMore
        <4>4. posts'[d] = [i \in 1..next[d] |-> i + 0]
          BY <2>2, <4>2, <4>3
        <4>5. [i \in 1..next[d] |-> i + 0] = [i \in 1..next[d] |-> i]
          OBVIOUS
        <4> QED
          BY <2>2, <4>2, <4>4, <4>5 DEF Shown
      <3>2. CASE /\ next[d] >= 2 /\ posts[d] = [i \in 1..(next[d] - 2) |-> i + 1]
                 /\ reply[d] = "final" \/ state[d] = "timeout"
        <4>1. next[d] - 2 \in Nat /\ (next[d] - 2) + 1 + 1 = next[d]
              /\ (next[d] - 2) + 1 = next[d] - 1 /\ (next[d] + 1) - 2 = next[d] - 1
              /\ next[d] + 1 >= 2
          BY <2>3, <3>2, ThreadAssumption
        <4>2. Append(posts[d], (next[d] - 2) + 1 + 1) = [i \in 1..((next[d] - 2) + 1) |-> i + 1]
          BY <3>2, <4>1, OneMore
        <4>3. posts'[d] = [i \in 1..(next[d] - 1) |-> i + 1]
          BY <2>2, <4>1, <4>2
        <4>4. reply'[d] = reply[d] /\ state'[d] = state[d]
          BY <2>1
        <4> QED
          BY <2>2, <3>2, <4>1, <4>3, <4>4 DEF Shown
      <3> QED
        BY <1>0, <3>1, <3>2 DEF Shown
    <2>5. next[d] <= Chunks
      BY <1>0, <2>1 DEF ReplyInv
    <2>6. ReplyInv(d)'
      BY <1>0, <2>1, <2>3, <2>4, <2>5 DEF ReplyInv
    <2> QED
      BY <1>0, <2>1, <2>6 DEF SameReply, ReplySide, StageInv, UpdateInv
  <1>7. CASE SayRaises(d)
    <2>1. /\ handler[d] = "say" /\ handler' = [handler EXCEPT ![d] = "refused"]
          /\ UNCHANGED <<state, caller, reply, posts, next, update>>
      BY <1>7 DEF SayRaises, Goes, At
    <2>2. Shown(d)'
      BY <1>0, <2>1, ShownKept
    <2> QED
      BY <1>0, <2>1, <2>2 DEF SameReply, ReplySide, StageInv, ReplyInv, UpdateInv
  <1> QED
    BY <1>1, <1>2, <1>3, <1>4, <1>5, <1>6, <1>7 DEF Handle

\* The steps of the worker: they leave the reply alone, but for the updates of
\* the placeholder while it is not final.
LEMMA WorkerReplies ==
  ASSUME TypeOK, NEW d \in Delivery, ReplySide(d), AskInv(d),
         Worker(d) \/ Ends(d) \/ UpdateEnds(d)
  PROVE  /\ \A e \in Delivery \ {d} : SameReply(e)
         /\ ReplySide(d)'
  <1>0. /\ \A v \in {state, caller, handler, reply, posts, next, update} : DOMAIN v = Delivery
        /\ Shown(d) /\ StageInv(d) /\ ReplyInv(d) /\ UpdateInv(d)
    BY DEF TypeOK, ReplySide, ReplyInv
  <1>1. ASSUME Life!Work(d), UNCHANGED replyVars, state[d] = "running" => update[d] = "none"
        PROVE  /\ \A e \in Delivery \ {d} : SameReply(e)
               /\ ReplySide(d)'
    <2>1. PICK from, to \in {"queued", "running", "interrupted"} :
             state[d] = from /\ state' = [state EXCEPT ![d] = to]
      BY <1>1 DEF Life!Work, Life!Move
    <2>2. UNCHANGED <<caller, handler, reply, posts, next, update>>
      BY <1>1 DEF Life!Work, replyVars
    <2>3. Shown(d)'
      BY <1>0, <2>1, <2>2, ShownKept
    <2>4. update[d] \notin {"flying", "late"}
      BY <1>0, <1>1, <2>1 DEF UpdateInv
    <2> QED
      BY <1>0, <2>1, <2>2, <2>3, <2>4
         DEF SameReply, ReplySide, StageInv, ReplyInv, UpdateInv, Life!Over
  <1>2. CASE Start(d)
    BY <1>1, <1>2 DEF Start
  <1>3. CASE Interrupt(d)
    BY <1>1, <1>3 DEF Interrupt
  <1>4. CASE Resume(d)
    <2>1. state[d] = "interrupted"
      BY <1>4 DEF Resume, AskInv
    <2> QED
      BY <1>1, <1>4, <2>1 DEF Resume
  <1>5. CASE Progress(d)
    <2>1. /\ state[d] = "running" /\ update' = [update EXCEPT ![d] = "flying"]
          /\ UNCHANGED <<state, caller, handler, reply, posts, next>>
      BY <1>5 DEF Progress, Streaming
    <2>2. Shown(d)'
      BY <1>0, <2>1, ShownKept
    <2> QED
      BY <1>0, <2>1, <2>2 DEF SameReply, ReplySide, StageInv, ReplyInv, UpdateInv
  <1>6. CASE CreateFile(d) \/ PostButtons(d) \/ Posted(d)
    <2>1. UNCHANGED <<state, caller, handler, reply, posts, next, update>>
      BY <1>6 DEF CreateFile, PostButtons, Posted, replyVars
    <2>2. \A e \in Delivery : SameReply(e)
      BY <2>1 DEF SameReply
    <2> QED
      BY <1>0, <2>2, SameReplyKept DEF ReplySide
  <1>7. ASSUME Life!Finish(d), UNCHANGED <<handler, reply, posts, next>>,
               update' = [update EXCEPT ![d] = IF update[d] = "flying" THEN "late" ELSE update[d]],
               update[d] # "none" => state'[d] = "timeout"
        PROVE  /\ \A e \in Delivery \ {d} : SameReply(e)
               /\ ReplySide(d)'
    <2>1. PICK s \in Life!Over : /\ state[d] \in {"running", "interrupted"}
                                 /\ state' = [state EXCEPT ![d] = s]
      BY <1>7 DEF Life!Finish, Life!Move, Life!Over
    <2>2. caller' = [caller EXCEPT ![d] = IF caller[d] = "waiting" THEN "woken" ELSE caller[d]]
      BY <1>7 DEF Life!Finish
    <2>3. Shown(d)'
      BY <1>0, <1>7, <2>1, ShownKept
    <2>4. handler'[d] = handler[d] /\ reply'[d] = reply[d] /\ posts'[d] = posts[d] /\ next'[d] = next[d]
      BY <1>7
    <2>5. state'[d] = s
      BY <1>0, <2>1
    <2>6. UpdateInv(d)'
      <3>1. update'[d] = IF update[d] = "flying" THEN "late" ELSE update[d]
        BY <1>0, <1>7
      <3>2. update[d] # "none" => s = "timeout"
        BY <1>7, <2>5
      <3> QED
        BY <2>5, <3>1, <3>2 DEF UpdateInv
    <2>7. StageInv(d)'
      BY <1>0, <2>1, <2>2, <2>4, <2>5 DEF StageInv
    <2>8. ReplyInv(d)'
      BY <1>0, <2>3, <2>4 DEF ReplyInv
    <2>9. \A e \in Delivery \ {d} : SameReply(e)
      BY <1>0, <1>7, <2>1, <2>2 DEF SameReply
    <2> QED
      BY <2>6, <2>7, <2>8, <2>9 DEF ReplySide
  <1>8. CASE StreamEnds(d)
    BY <1>7, <1>8 DEF StreamEnds
  <1>9. CASE AskEnds(d)
    <2>1. /\ state[d] = "interrupted" /\ Life!Finish(d) /\ UNCHANGED replyVars
      BY <1>9 DEF AskEnds
    <2>2. update[d] \notin {"flying", "late"} /\ update[d] \in {"none", "flying", "late"}
      BY <1>0, <2>1 DEF UpdateInv, TypeOK
    <2>3. update' = [update EXCEPT ![d] = IF update[d] = "flying" THEN "late" ELSE update[d]]
      BY <1>0, <2>1, <2>2 DEF replyVars, TypeOK
    <2> QED
      BY <1>7, <2>1, <2>2, <2>3 DEF replyVars
  <1>10. CASE UpdateEnds(d)
    <2>1. /\ update[d] # "none" /\ update' = [update EXCEPT ![d] = "none"]
          /\ \E r \in {reply[d], "partial"} : reply' = [reply EXCEPT ![d] = r]
          /\ UNCHANGED <<state, caller, handler, posts, next>>
      BY <1>10 DEF UpdateEnds
    <2>2. update[d] \in {"flying", "late"} /\ (reply[d] = "final" => state[d] \in Life!Over)
      BY <1>0, <2>1 DEF TypeOK, StageInv, ReplyInv
    <2>3. reply[d] = "final" => state[d] = "timeout"
      BY <1>0, <2>2 DEF UpdateInv, Life!Over
    <2>4. Shown(d)'
      BY <1>0, <2>1, <2>3, ShownKept
    <2>5. handler[d] \notin {"idle", "placeholder"}
      BY <1>0, <2>2 DEF UpdateInv, StageInv, Life!Over
    <2> QED
      BY <1>0, <2>1, <2>4, <2>5 DEF SameReply, ReplySide, StageInv, ReplyInv, UpdateInv
  <1> QED
    BY <1>2, <1>3, <1>4, <1>5, <1>6, <1>8, <1>9, <1>10 DEF Worker, Ends

\* The presses of buttons are not about the reply.
LEMMA PressReplies ==
  ASSUME NEW d \in Delivery, ReplySide(d),
         NEW c \in Delivery, NEW x \in Gated, NEW v \in Verdict,
         PressEnds(c, x, v) \/ \E user \in User : Press(c, x, v, user)
  PROVE  ReplySide(d)'
  <1>1. UNCHANGED <<state, caller, handler, reply, posts, next, update>>
    BY DEF PressEnds, Press, replyVars
  <1> QED
    BY <1>1, SameReplyKept DEF SameReply

\* Every step preserves the invariant of the replies.
LEMMA ReplyStep ==
  ASSUME TypeOK, \A d \in Delivery : ReplySide(d) /\ AskInv(d), [Next]_vars
  PROVE  \A d \in Delivery : ReplySide(d)'
  <1> TAKE e \in Delivery
  <1>1. ASSUME NEW d \in Delivery, Handle(d)
        PROVE  ReplySide(e)'
    BY <1>1, HandleReplies, SameReplyKept
  <1>2. ASSUME NEW d \in Delivery, Worker(d) \/ Ends(d) \/ UpdateEnds(d)
        PROVE  ReplySide(e)'
    BY <1>2, WorkerReplies, SameReplyKept
  <1>3. CASE UNCHANGED vars
    BY <1>3, SameReplyKept DEF vars, replyVars, SameReply
  <1> QED
    BY <1>1, <1>2, <1>3, PressReplies DEF Next

-----------------------------------------------------------------------------
\* The approvals.

\* What a step does to the approvals of delivery d: nothing, or move its task
\* between states that are the same to them.
SameAsk(d) ==
    /\ state'[d] = "interrupted" <=> state[d] = "interrupted"
    /\ state[d] \in Life!Over => state'[d] \in Life!Over
    /\ state[d] = "timeout" => state'[d] = "timeout"
    /\ stops'[d] = stops[d] /\ open'[d] = open[d] /\ wait'[d] = wait[d]
    /\ answer'[d] = answer[d] /\ verdict'[d] = verdict[d] /\ label'[d] = label[d]
    /\ \A x \in Gated, v \in Verdict : <<d, x, v>> \in pressing' <=> <<d, x, v>> \in pressing

\* What a step leaves alone of an approval message stays as the invariant says.
LEMMA SameAskKept ==
  ASSUME NEW d \in Delivery, AskInv(d), SameAsk(d)
  PROVE  AskInv(d)'
  BY DEF SameAsk, AskInv, Decided, Heard

\* The handler and the stream do not touch the approvals.
LEMMA HandleAsks ==
  ASSUME TypeOK, NEW d \in Delivery,
         Handle(d) \/ Start(d) \/ Progress(d) \/ CreateFile(d) \/ UpdateEnds(d)
  PROVE  \A e \in Delivery : SameAsk(e)
  <1>1. UNCHANGED askVars
    BY DEF Handle, Arrive, Submit, Told, FinalFails, FinalLands, SayChunk, SayRaises,
           Start, Progress, CreateFile, UpdateEnds
  <1>2. \/ UNCHANGED state
        \/ state[d] = "absent" /\ \E s \in {"queued", "failed"} : state' = [state EXCEPT ![d] = s]
        \/ state[d] = "queued" /\ state' = [state EXCEPT ![d] = "running"]
    <2>1. CASE Submit(d)
      BY <2>1 DEF Submit, Life!Accept, Life!Refuse, Life!Move
    <2>2. CASE Start(d)
      BY <2>2 DEF Start, Life!Work, Life!Move
    <2>3. CASE Told(d)
      BY <2>3 DEF Told, Life!Tell
    <2> QED
      BY <2>1, <2>2, <2>3
         DEF Handle, Arrive, FinalFails, FinalLands, SayChunk, SayRaises, Progress, CreateFile, UpdateEnds
  <1>3. \A e \in Delivery : /\ state'[e] = "interrupted" <=> state[e] = "interrupted"
                            /\ state[e] \in Life!Over => state'[e] \in Life!Over
                            /\ state[e] = "timeout" => state'[e] = "timeout"
    BY <1>2 DEF TypeOK, Life!Over
  <1> QED
    BY <1>1, <1>3 DEF SameAsk, askVars

\* The worker stops, posts the buttons, and goes on with the answer.
LEMMA WorkerAsks ==
  ASSUME TypeOK, NEW d \in Delivery, AskInv(d),
         Interrupt(d) \/ PostButtons(d) \/ Posted(d) \/ Resume(d)
  PROVE  /\ \A e \in Delivery \ {d} : SameAsk(e)
         /\ AskInv(d)'
  <1>0. /\ \A v \in {state, stops, open, wait, answer, verdict, label} : DOMAIN v = Delivery
        /\ stops[d] \in Nat /\ open[d] \in Seq(Gated) /\ IsInjective(open[d])
        /\ wait[d] \in {"no", "posting", "future"} /\ answer[d] \in Answer \cup {NoAnswer}
        /\ verdict[d] \in [Gated -> Verdict \cup {"none"}]
        /\ label[d] \in [Gated -> Verdict \cup {"none", "buttons"}]
    BY ThreadAssumption DEF TypeOK
  <1>1. "none" \notin Verdict /\ "buttons" \notin Verdict
    BY DEF Verdict
  <1>2. CASE Interrupt(d)
    <2>1. /\ state[d] = "running" /\ state' = [state EXCEPT ![d] = "interrupted"]
          /\ stops' = [stops EXCEPT ![d] = stops[d] + 1]
          /\ wait' = [wait EXCEPT ![d] = IF stops[d] = 0 THEN "posting" ELSE "future"]
          /\ UNCHANGED <<answer, verdict, label, pressing>>
      BY <1>2 DEF Interrupt, Life!Work, Life!Move
    <2>2. \E asked : /\ open' = [open EXCEPT ![d] = asked]
                     /\ open[d] # <<>> => asked = open[d]
      <3>1. CASE open[d] # <<>>
        <4>1. open' = open
          BY <1>2, <3>1 DEF Interrupt
        <4>2. open' = [open EXCEPT ![d] = open[d]]
          BY <4>1 DEF TypeOK
        <4> QED
          BY <4>2
      <3>2. CASE open[d] = <<>>
        BY <1>2, <3>2 DEF Interrupt
      <3> QED
        BY <3>1, <3>2
    <2>3. ToSet(<<>>) = {}
      BY DEF ToSet
    <2>4. /\ state'[d] = "interrupted" /\ stops'[d] = stops[d] + 1 /\ wait'[d] # "no"
          /\ open[d] # <<>> => open'[d] = open[d]
          /\ answer'[d] = NoAnswer /\ verdict'[d] = verdict[d] /\ label'[d] = label[d]
          /\ pressing' = pressing
      BY <1>0, <2>1, <2>2 DEF AskInv
    <2>5. stops[d] + 1 # 0 /\ (stops[d] + 1 = 1 => stops[d] = 0)
      BY <1>0
    <2>6. \A x \in Gated : label[d][x] # "none" => x \in ToSet(open'[d]) \/ verdict[d][x] # "none"
      BY <2>1, <2>3, <2>4 DEF AskInv, Life!Over
    <2>7. stops[d] = 0 => \A x \in Gated : /\ verdict[d][x] = "none"
                                           /\ \A v \in Verdict : ~Decided(d, x, v)
      BY <1>1 DEF AskInv, Decided
    <2>8. \A x \in Gated, v \in Verdict : <<d, x, v>> \in pressing => label[d][x] # "none"
      BY DEF AskInv
    <2>9. AskInv(d)'
      BY <2>4, <2>5, <2>6, <2>7, <2>8 DEF AskInv, Decided, Heard
    <2>10. \A e \in Delivery \ {d} : SameAsk(e)
      BY <1>0, <2>1, <2>2 DEF SameAsk
    <2> QED
      BY <2>9, <2>10
  <1>3. CASE PostButtons(d)
    <2>1. PICK i \in DOMAIN open[d] : /\ label[d][open[d][i]] = "none"
                                      /\ label' = [label EXCEPT ![d][open[d][i]] = "buttons"]
      BY <1>3 DEF PostButtons, Unposted
    <2>2. /\ wait[d] = "posting"
          /\ UNCHANGED <<state, stops, open, wait, answer, verdict, pressing>>
      BY <1>3 DEF PostButtons
    <2>3. open[d][i] \in Gated /\ open[d][i] \in ToSet(open[d])
      BY <1>0, ElementOfSeq, LenProperties DEF ToSet
    <2>4. \A x \in Gated : label'[d][x] = IF x = open[d][i] THEN "buttons" ELSE label[d][x]
      BY <1>0, <2>1, <2>3
    <2>5. answer[d] = NoAnswer
      BY <2>2 DEF AskInv
    <2>6. AskInv(d)'
      BY <1>1, <2>1, <2>2, <2>3, <2>4, <2>5 DEF AskInv, Decided, Heard
    <2>7. \A e \in Delivery \ {d} : SameAsk(e)
      BY <1>0, <2>1, <2>2 DEF SameAsk
    <2> QED
      BY <2>6, <2>7
  <1>4. CASE Posted(d)
    <2>1. /\ wait[d] = "posting" /\ wait' = [wait EXCEPT ![d] = "future"]
          /\ UNCHANGED <<state, stops, open, answer, verdict, label, pressing>>
      BY <1>4 DEF Posted
    <2>2. AskInv(d)'
      BY <1>0, <2>1 DEF AskInv, Decided, Heard
    <2>3. \A e \in Delivery \ {d} : SameAsk(e)
      BY <1>0, <2>1 DEF SameAsk
    <2> QED
      BY <2>2, <2>3
  <1>5. CASE Resume(d)
    <2>1. /\ answer[d] # NoAnswer /\ state[d] = "interrupted" /\ wait[d] # "no"
          /\ answer[d].tool \in Gated /\ answer[d].verdict \in Verdict
      BY <1>0, <1>5 DEF Resume, AskInv, Answer
    <2>2. /\ state' = [state EXCEPT ![d] = "running"]
          /\ open' = [open EXCEPT ![d] = RemoveFirst(open[d], answer[d].tool)]
          /\ wait' = [wait EXCEPT ![d] = "no"]
          /\ answer' = [answer EXCEPT ![d] = NoAnswer]
          /\ UNCHANGED <<stops, label, pressing>>
      BY <1>5, <2>1 DEF Resume, Life!Work, Life!Move
    <2>3. verdict' = [verdict EXCEPT ![d][answer[d].tool] =
                         IF @ = "none" THEN answer[d].verdict ELSE @]
      BY <1>5 DEF Resume
    <2>4. \A x \in Gated : verdict'[d][x] =
             IF x = answer[d].tool /\ verdict[d][x] = "none" THEN answer[d].verdict ELSE verdict[d][x]
      BY <1>0, <2>1, <2>3
    <2>5. ToSet(open'[d]) = ToSet(open[d]) \ {answer[d].tool}
      BY <1>0, <2>2, Removed
    <2>6. /\ state'[d] = "running" /\ wait'[d] = "no" /\ answer'[d] = NoAnswer
          /\ stops'[d] = stops[d] /\ label'[d] = label[d] /\ pressing' = pressing
      BY <1>0, <2>2
    <2>7. ASSUME NEW x \in Gated
          PROVE  /\ stops[d] = 0 => verdict'[d][x] = "none" /\ label[d][x] = "none"
                 /\ label[d][x] # "none" => x \in ToSet(open'[d]) \/ verdict'[d][x] # "none"
                 /\ \A v \in Verdict : stops[d] = 1 /\ Decided(d, x, v) => verdict'[d][x] = v
      <3>1. stops[d] # 0
        BY <2>1 DEF AskInv
      <3>2. label[d][x] # "none" => x \in ToSet(open[d]) \/ verdict[d][x] # "none"
        BY <2>1 DEF AskInv, Life!Over
      <3>3. ASSUME NEW v \in Verdict, stops[d] = 1, Decided(d, x, v)
            PROVE  answer[d].tool = x /\ answer[d].verdict = v /\ verdict[d][x] = "none"
        BY <1>1, <2>1, <3>3 DEF AskInv, Heard
      <3> QED
        BY <1>1, <2>1, <2>4, <2>5, <3>1, <3>2, <3>3
    <2>8. \A x \in Gated, v \in Verdict : <<d, x, v>> \in pressing => label[d][x] # "none"
      BY DEF AskInv
    <2>9. AskInv(d)'
      BY <2>6, <2>7, <2>8 DEF AskInv, Decided, Heard
    <2>10. \A e \in Delivery \ {d} : SameAsk(e)
      BY <1>0, <2>2, <2>3 DEF SameAsk
    <2> QED
      BY <2>9, <2>10
  <1> QED
    BY <1>2, <1>3, <1>4, <1>5

\* The end of the task: whoever pressed a button that the agent did not hear
\* of learns of the timeout.
LEMMA EndsAsks ==
  ASSUME TypeOK, NEW d \in Delivery, AskInv(d), Ends(d)
  PROVE  /\ \A e \in Delivery \ {d} : SameAsk(e)
         /\ AskInv(d)'
  <1>0. \A v \in {state, stops, open, wait, answer, verdict, label} : DOMAIN v = Delivery
    BY DEF TypeOK
  <1>1. Life!Finish(d) /\ AskOver(d)
    BY DEF Ends, StreamEnds, AskEnds
  <1>2. PICK s \in Life!Over : state' = [state EXCEPT ![d] = s]
    BY <1>1 DEF Life!Finish, Life!Move, Life!Over
  <1>3. state[d] # "timeout"
    BY <1>1 DEF Life!Finish, Life!Move
  <1>4. answer[d] # NoAnswer => s = "timeout"
    BY <1>0, <1>2 DEF Ends, StreamEnds, AskEnds, AskInv
  <1>5. /\ open' = [open EXCEPT ![d] = <<>>] /\ wait' = [wait EXCEPT ![d] = "no"]
        /\ answer' = [answer EXCEPT ![d] = NoAnswer]
        /\ UNCHANGED <<stops, verdict, label, pressing>>
    BY <1>1 DEF AskOver
  <1>6. AskInv(d)'
    BY <1>0, <1>2, <1>3, <1>4, <1>5 DEF AskInv, Decided, Heard, Life!Over
  <1>7. \A e \in Delivery \ {d} : SameAsk(e)
    BY <1>0, <1>2, <1>5 DEF SameAsk
  <1> QED
    BY <1>6, <1>7

\* A press: only the first one of a stop reaches the agent, and it counts as
\* heard from then on.
LEMMA PressAsks ==
  ASSUME TypeOK, NEW d \in Delivery, AskInv(d), NEW x \in Gated, NEW v \in Verdict,
         PressEnds(d, x, v) \/ \E user \in User : Press(d, x, v, user)
  PROVE  /\ \A e \in Delivery \ {d} : SameAsk(e)
         /\ AskInv(d)'
  <1>0. /\ \A f \in {state, stops, open, wait, answer, verdict, label} : DOMAIN f = Delivery
        /\ label[d] \in [Gated -> Verdict \cup {"none", "buttons"}]
    BY DEF TypeOK
  <1>1. "none" \notin Verdict /\ "buttons" \notin Verdict
    BY DEF Verdict
  <1>2. CASE PressEnds(d, x, v)
    <2>1. /\ <<d, x, v>> \in pressing /\ pressing' = pressing \ {<<d, x, v>>}
          /\ UNCHANGED <<state, stops, open, wait, answer, verdict>>
      BY <1>2 DEF PressEnds
    <2>2. PICK shown \in {label[d][x], v} : label' = [label EXCEPT ![d][x] = shown]
      BY <1>2 DEF PressEnds
    <2>3. label[d][x] # "none"
      BY <2>1 DEF AskInv
    <2>4. \A y \in Gated : label'[d][y] = IF y = x THEN shown ELSE label[d][y]
      BY <1>0, <2>2
    <2>5. \A y \in Gated : (label'[d][y] = "none") <=> (label[d][y] = "none")
      BY <1>1, <2>2, <2>3, <2>4
    <2>6. \A y \in Gated, u \in Verdict : Decided(d, y, u)' => Decided(d, y, u)
      BY <2>1, <2>2, <2>4 DEF Decided
    <2>7. AskInv(d)'
      <3>1. answer[d] # NoAnswer => answer[d].tool \in Gated
        BY DEF TypeOK, Answer
      <3>2. ASSUME NEW y \in Gated, NEW u \in Verdict, stops[d] = 1, Decided(d, y, u)'
            PROVE  Heard(d, y, u)'
        BY <2>1, <2>6, <3>2 DEF AskInv, Heard
      <3> QED
        BY <2>1, <2>5, <3>1, <3>2 DEF AskInv
    <2>8. \A e \in Delivery \ {d} : SameAsk(e)
      BY <1>0, <2>1, <2>2 DEF SameAsk
    <2> QED
      BY <2>7, <2>8
  <1>3. ASSUME NEW user \in User, Press(d, x, v, user)
        PROVE  /\ \A e \in Delivery \ {d} : SameAsk(e)
               /\ AskInv(d)'
    <2> DEFINE a == [tool |-> x, verdict |-> v, by |-> user]
    <2>1. /\ label[d][x] = "buttons" /\ wait[d] = "future" /\ answer[d] = NoAnswer
          /\ open[d] # <<>> => CanApprove(user, Head(open[d]))
          /\ answer' = [answer EXCEPT ![d] = a]
          /\ pressing' = pressing \cup {<<d, x, v>>}
          /\ UNCHANGED <<state, stops, open, wait, verdict, label>>
      BY <1>3 DEF Press
    <2>2. a # NoAnswer /\ a.tool = x /\ a.verdict = v /\ a.by = user
      <3>1. a \in Answer
        BY DEF Answer
      <3> QED
        BY <3>1, ThreadAssumption
    <2>3. answer'[d] = a
      BY <1>0, <2>1
    <2> HIDE DEF a
    <2>4. ASSUME NEW y \in Gated, NEW u \in Verdict, stops[d] = 1, Decided(d, y, u)'
          PROVE  Heard(d, y, u)'
      <3>1. ~Decided(d, y, u)
        BY <1>1, <2>1, <2>4 DEF AskInv, Heard
      <3>2. y = x /\ u = v
        BY <2>1, <2>4, <3>1 DEF Decided
      <3> QED
        BY <2>2, <2>3, <3>2 DEF Heard
    <2>5. AskInv(d)'
      BY <2>1, <2>2, <2>3, <2>4 DEF AskInv
    <2>6. \A e \in Delivery \ {d} : SameAsk(e)
      BY <1>0, <2>1 DEF SameAsk
    <2> QED
      BY <2>5, <2>6
  <1> QED
    BY <1>2, <1>3

\* Every step preserves the invariant of the approval messages.
LEMMA AskStep ==
  ASSUME TypeOK, \A d \in Delivery : AskInv(d), [Next]_vars
  PROVE  \A d \in Delivery : AskInv(d)'
  <1> TAKE e \in Delivery
  <1>1. ASSUME NEW d \in Delivery, Handle(d) \/ Worker(d) \/ UpdateEnds(d)
        PROVE  AskInv(e)'
    BY <1>1, HandleAsks, WorkerAsks, SameAskKept DEF Worker
  <1>2. ASSUME NEW d \in Delivery, Ends(d)
        PROVE  AskInv(e)'
    BY <1>2, EndsAsks, SameAskKept
  <1>3. ASSUME NEW d \in Delivery, NEW x \in Gated, NEW v \in Verdict,
               PressEnds(d, x, v) \/ \E user \in User : Press(d, x, v, user)
        PROVE  AskInv(e)'
    BY <1>3, PressAsks, SameAskKept
  <1>4. CASE UNCHANGED vars
    BY <1>4, SameAskKept DEF vars, askVars, SameAsk
  <1> QED
    BY <1>1, <1>2, <1>3, <1>4 DEF Next

-----------------------------------------------------------------------------
\* Types.

\* Every step keeps the types.
LEMMA TypeStep ==
  ASSUME TypeOK, \A d \in Delivery : ReplySide(d) /\ AskInv(d), [Next]_vars
  PROVE  TypeOK'
  <1> USE DEF TypeOK, UploadTypeOK
  <1>0. Chunks \in Nat /\ Chunks >= 1
    BY ThreadAssumption
  <1>1. ASSUME NEW d \in Delivery, Arrive(d)
        PROVE  TypeOK'
    <2>1. d.thread \in Thread
      BY ThreadAssumption DEF DeliveryType
    <2>2. contexts' \in Seq(Thread) /\ IsInjective(contexts')
      BY <1>1, <2>1, Added DEF Arrive, Register
    <2> QED
      BY <1>1, <2>2 DEF Arrive, Goes, askVars
  <1>2. ASSUME NEW d \in Delivery, Clear(d.thread) \/ UNCHANGED contexts
        PROVE  contexts' \in Seq(Thread) /\ IsInjective(contexts')
    BY <1>2, Removed DEF Clear
  <1>3. ASSUME NEW d \in Delivery, Submit(d)
        PROVE  TypeOK'
    <2>1. contexts' \in Seq(Thread) /\ IsInjective(contexts') /\ UNCHANGED files
      BY <1>2, <1>3 DEF Submit
    <2>2. /\ state' \in [Delivery -> {"absent", "queued", "running", "interrupted"} \cup Life!Over]
          /\ caller' \in [Delivery -> {"none", "waiting", "woken", "returned", "rejected", "keyerror"}]
      <3>1. PICK s \in {"queued", "failed"} : state' = [state EXCEPT ![d] = s]
        BY <1>3 DEF Submit, Life!Accept, Life!Refuse, Life!Move
      <3>2. PICK c \in {"none", "waiting", "rejected"} : caller' = [caller EXCEPT ![d] = c]
        BY <1>3 DEF Submit, Life!Accept, Life!Refuse
      <3> QED
        BY <3>1, <3>2 DEF Life!Over
    <2>3. /\ handler' \in [Delivery -> {"idle", "placeholder", "waiting", "final", "say", "done", "refused"}]
          /\ reply' \in [Delivery -> {"none", "thinking", "partial", "final"}]
      <3>1. PICK r \in {"thinking", "none"} : reply' = [reply EXCEPT ![d] = r]
        BY <1>3 DEF Submit
      <3>2. PICK h \in {"waiting", "say", "final"} : handler' = [handler EXCEPT ![d] = h]
        BY <1>3 DEF Submit, Goes
      <3> QED
        BY <3>1, <3>2
    <2> QED
      BY <1>3, <2>1, <2>2, <2>3 DEF Submit, askVars
  <1>4. ASSUME NEW d \in Delivery, Told(d)
        PROVE  TypeOK'
    <2>1. contexts' \in Seq(Thread) /\ IsInjective(contexts') /\ UNCHANGED files
      BY <1>2, <1>4 DEF Told, ReplyStarts
    <2> QED
      BY <1>4, <2>1 DEF Told, Life!Tell, ReplyStarts, askVars
  <1>5. ASSUME NEW d \in Delivery, FinalFails(d)
        PROVE  TypeOK'
    <2>1. PICK r \in {reply[d], "final"} : reply' = [reply EXCEPT ![d] = r]
      BY <1>5 DEF FinalFails
    <2>2. reply' \in [Delivery -> {"none", "thinking", "partial", "final"}]
      BY <2>1
    <2> QED
      BY <1>5, <2>2 DEF FinalFails, Goes, askVars, uploadVars
  <1>6. ASSUME NEW d \in Delivery, FinalLands(d)
        PROVE  TypeOK'
    BY <1>0, <1>6 DEF FinalLands, Goes, askVars, uploadVars
  <1>7. ASSUME NEW d \in Delivery, SayChunk(d)
        PROVE  TypeOK'
    <2>1. next[d] <= Chunks /\ next[d] \in 1..Chunks /\ next[d] + 1 \in 1..(Chunks + 1)
      BY <1>0, <1>7 DEF SayChunk, Goes, At, ReplySide, ReplyInv
    <2>2. Len(posts[d]) <= next[d] - 1
      <3>1. \A m \in Nat : \A c \in Nat : Len([i \in 1..m |-> i + c]) = m
        <4> TAKE m \in Nat
        <4> TAKE c \in Nat
        <4>1. [i \in 1..m |-> i + c] \in [1..m -> Nat]
          OBVIOUS
        <4>2. [i \in 1..m |-> i + c] \in Seq(Nat)
          BY <4>1, SeqDef
        <4> QED
          BY <4>2
      <3>2. [i \in 1..(next[d] - 1) |-> i] = [i \in 1..(next[d] - 1) |-> i + 0]
        BY <2>1
      <3>3. next[d] - 1 \in Nat /\ (next[d] >= 2 => next[d] - 2 \in Nat)
        BY <2>1
      <3> QED
        BY <2>1, <3>1, <3>2, <3>3 DEF ReplySide, ReplyInv, Shown
    <2>3. /\ Append(posts[d], next[d]) \in Seq(1..Chunks)
          /\ Len(Append(posts[d], next[d])) = Len(posts[d]) + 1
      BY <2>1, AppendProperties
    <2>4. Len(posts[d]) \in Nat
      BY LenProperties
    <2>5. Len(Append(posts[d], next[d])) <= Chunks
      BY <1>0, <2>1, <2>2, <2>3, <2>4
    <2> QED
      BY <1>7, <2>1, <2>3, <2>5 DEF SayChunk, Goes, askVars, uploadVars
  <1>8. ASSUME NEW d \in Delivery, SayRaises(d)
        PROVE  TypeOK'
    BY <1>8 DEF SayRaises, Goes, askVars, uploadVars
  <1>work. ASSUME NEW d \in Delivery, Life!Work(d)
         PROVE  state' \in [Delivery -> {"absent", "queued", "running", "interrupted"} \cup Life!Over]
    <2>1. PICK s \in {"running", "interrupted"} : state' = [state EXCEPT ![d] = s]
      BY <1>work DEF Life!Work, Life!Move
    <2> QED
      BY <2>1
  <1>9. ASSUME NEW d \in Delivery, Start(d)
        PROVE  TypeOK'
    BY <1>9, <1>work DEF Start, Life!Work, replyVars, askVars, uploadVars
  <1>10. ASSUME NEW d \in Delivery, Progress(d) \/ UpdateEnds(d)
         PROVE  TypeOK'
    <2>1. PICK u \in {"none", "flying"} : update' = [update EXCEPT ![d] = u]
      BY <1>10 DEF Progress, UpdateEnds
    <2>2. reply' \in [Delivery -> {"none", "thinking", "partial", "final"}]
      <3>1. UNCHANGED reply \/ \E r \in {reply[d], "partial"} : reply' = [reply EXCEPT ![d] = r]
        BY <1>10 DEF Progress, UpdateEnds
      <3> QED
        BY <3>1
    <2> QED
      BY <1>10, <2>1, <2>2 DEF Progress, UpdateEnds, askVars, uploadVars
  <1>11. ASSUME NEW d \in Delivery, CreateFile(d)
         PROVE  TypeOK'
    <2>1. d.thread \in Thread
      BY ThreadAssumption DEF DeliveryType
    <2> QED
      BY <1>11, <2>1 DEF CreateFile, WriteFile, replyVars, askVars
  <1>12. ASSUME NEW d \in Delivery, Life!Finish(d)
         PROVE  /\ state' \in [Delivery -> {"absent", "queued", "running", "interrupted"} \cup Life!Over]
                /\ caller' \in [Delivery -> {"none", "waiting", "woken", "returned", "rejected", "keyerror"}]
    <2>1. PICK s \in Life!Over : state' = [state EXCEPT ![d] = s]
      BY <1>12 DEF Life!Finish, Life!Move, Life!Over
    <2>2. caller' = [caller EXCEPT ![d] = IF caller[d] = "waiting" THEN "woken" ELSE caller[d]]
      BY <1>12 DEF Life!Finish
    <2> QED
      BY <2>1, <2>2
  <1>13. ASSUME NEW d \in Delivery, AskOver(d)
         PROVE  /\ open' \in [Delivery -> Seq(Gated)]
                /\ \A e \in Delivery : IsInjective(open'[e])
                /\ wait' \in [Delivery -> {"no", "posting", "future"}]
                /\ answer' \in [Delivery -> Answer \cup {NoAnswer}]
    <2>1. <<>> \in Seq(Gated) /\ IsInjective(<<>>)
      BY EmptySeq DEF IsInjective
    <2> QED
      BY <1>13, <2>1 DEF AskOver
  <1>14. ASSUME NEW d \in Delivery, StreamEnds(d)
         PROVE  TypeOK'
    BY <1>12, <1>13, <1>14 DEF StreamEnds, AskOver, uploadVars
  <1>15. ASSUME NEW d \in Delivery, AskEnds(d)
         PROVE  TypeOK'
    BY <1>12, <1>13, <1>15 DEF AskEnds, AskOver, replyVars, uploadVars
  <1>16. ASSUME NEW d \in Delivery, Interrupt(d)
         PROVE  TypeOK'
    <2>1. ASSUME NEW asked \in CallsThatAsk
          PROVE  asked \in Seq(Gated) /\ IsInjective(asked)
      <3>1. PICK m \in 0..Cardinality(Gated) : asked \in [1..m -> {x \in Gated : NeedsApproval(x)}]
        BY DEF CallsThatAsk, SeqOf
      <3>2. m \in Nat /\ asked \in [1..m -> Gated]
        BY <3>1
      <3> QED
        BY <3>2, SeqDef DEF CallsThatAsk
    <2>2. open' \in [Delivery -> Seq(Gated)] /\ \A e \in Delivery : IsInjective(open'[e])
      <3>1. CASE open[d] # <<>>
        BY <1>16, <3>1 DEF Interrupt
      <3>2. CASE open[d] = <<>>
        <4>1. PICK asked \in CallsThatAsk : open' = [open EXCEPT ![d] = asked]
          BY <1>16, <3>2 DEF Interrupt
        <4> QED
          BY <2>1, <4>1
      <3> QED
        BY <3>1, <3>2
    <2>3. state' \in [Delivery -> {"absent", "queued", "running", "interrupted"} \cup Life!Over]
      BY <1>16, <1>work DEF Interrupt
    <2>4. stops' \in [Delivery -> 0..MaxStops]
      BY <1>16, ThreadAssumption DEF Interrupt
    <2> QED
      BY <1>16, <2>2, <2>3, <2>4 DEF Interrupt, Life!Work, replyVars, uploadVars
  <1>17. ASSUME NEW d \in Delivery, PostButtons(d)
         PROVE  TypeOK'
    BY <1>17 DEF PostButtons, Unposted, replyVars, uploadVars
  <1>18. ASSUME NEW d \in Delivery, Posted(d)
         PROVE  TypeOK'
    BY <1>18 DEF Posted, replyVars, uploadVars
  <1>19. ASSUME NEW d \in Delivery, Resume(d)
         PROVE  TypeOK'
    <2>1. answer[d] \in Answer /\ answer[d].tool \in Gated /\ answer[d].verdict \in Verdict
      BY <1>19 DEF Resume, Answer
    <2>2. open' \in [Delivery -> Seq(Gated)] /\ \A e \in Delivery : IsInjective(open'[e])
      <3>1. /\ RemoveFirst(open[d], answer[d].tool) \in Seq(Gated)
            /\ IsInjective(RemoveFirst(open[d], answer[d].tool))
        BY Removed
      <3> QED
        BY <1>19, <3>1 DEF Resume
    <2>3. verdict' \in [Delivery -> [Gated -> Verdict \cup {"none"}]]
      BY <1>19, <2>1 DEF Resume
    <2>4. state' \in [Delivery -> {"absent", "queued", "running", "interrupted"} \cup Life!Over]
      BY <1>19, <1>work DEF Resume
    <2> QED
      BY <1>19, <2>2, <2>3, <2>4 DEF Resume, Life!Work, replyVars, uploadVars
  <1>20. ASSUME NEW d \in Delivery, NEW x \in Gated, NEW v \in Verdict,
                PressEnds(d, x, v) \/ \E user \in User : Press(d, x, v, user)
         PROVE  TypeOK'
    <2>1. CASE PressEnds(d, x, v)
      BY <2>1 DEF PressEnds, replyVars, uploadVars
    <2>2. ASSUME NEW user \in User, Press(d, x, v, user)
          PROVE  TypeOK'
      BY <2>2 DEF Press, Answer, replyVars, uploadVars
    <2> QED
      BY <1>20, <2>1, <2>2
  <1>21. CASE UNCHANGED vars
    BY <1>21 DEF vars, replyVars, askVars, uploadVars
  <1> QED
    BY <1>1, <1>3, <1>4, <1>5, <1>6, <1>7, <1>8, <1>9, <1>10, <1>11, <1>14, <1>15, <1>16,
       <1>17, <1>18, <1>19, <1>20, <1>21 DEF Next, Handle, Worker, Ends

-----------------------------------------------------------------------------
\* The invariant.

\* The initial states satisfy the invariant.
LEMMA ThreadInitInv == Init => ThreadInv
  <1> SUFFICES ASSUME Init
               PROVE  ThreadInv
    OBVIOUS
  <1> USE DEF Init, Life!Init, UploadInit
  <1>1. <<>> \in Seq(Gated) /\ <<>> \in Seq(1..Chunks) /\ <<>> \in Seq(Thread)
        /\ Len(<<>>) = 0 /\ IsInjective(<<>>) /\ ToSet(<<>>) = {}
    BY EmptySeq DEF IsInjective, ToSet
  <1>2. Chunks \in Nat /\ Chunks >= 1 /\ MaxStops \in Nat
    BY ThreadAssumption
  <1>3. TypeOK
    BY <1>1, <1>2 DEF TypeOK, UploadTypeOK
  <1>4. ContextsAreLive
    BY <1>1 DEF ContextsAreLive
  <1>5. ASSUME NEW d \in Delivery
        PROVE  ReplySide(d)
    <2>1. <<>> = [i \in 1..(1 - 1) |-> i]
      OBVIOUS
    <2>2. Shown(d)
      BY <2>1 DEF Shown
    <2> QED
      BY <2>2 DEF ReplySide, StageInv, ReplyInv, UpdateInv
  <1>6. ASSUME NEW d \in Delivery
        PROVE  AskInv(d)
    BY DEF AskInv, Decided, Heard, Verdict
  <1> QED
    BY <1>3, <1>4, <1>5, <1>6 DEF ThreadInv, ReplySide

\* Every step preserves it.
LEMMA ThreadInvStep == ThreadInv /\ [Next]_vars => ThreadInv'
  BY TypeStep, ContextsStep, ReplyStep, AskStep DEF ThreadInv, ReplySide

\* So it holds in every behaviour of the channel.
THEOREM ThreadInvariant == Spec => []ThreadInv
  BY ThreadInitInv, ThreadInvStep, PTL DEF Spec

\* The types are right in every behaviour of the channel.
THEOREM ThreadTypeCorrect == Spec => []TypeOK
  <1>1. ThreadInv => TypeOK
    BY DEF ThreadInv
  <1> QED
    BY <1>1, ThreadInvariant, PTL

\* No handler leaves an upload context behind, however it ends and however
\* many handlers a thread has.
THEOREM NoContextIsLeft == Spec => []ContextsAreLive
  <1>1. ThreadInv => ContextsAreLive
    BY DEF ThreadInv
  <1> QED
    BY <1>1, ThreadInvariant, PTL

\* A handler that is done has shown the whole reply, of any number of chunks,
\* whichever of its calls Slack refused or lost.
THEOREM RepliesAreShown == Spec => []RepliesAreWhole
  <1>1. ThreadInv => RepliesAreWhole
    <2> SUFFICES ASSUME ThreadInv, NEW d \in Delivery, handler[d] = "done"
                 PROVE  \/ posts[d] = [i \in 1..Chunks |-> i]
                        \/ /\ posts[d] = [i \in 1..(Chunks - 1) |-> i + 1]
                           /\ reply[d] = "final" \/ state[d] = "timeout"
      BY DEF RepliesAreWhole
    <2>1. next[d] = Chunks + 1 /\ Shown(d)
      BY DEF ThreadInv, ReplyInv
    <2>2. (Chunks + 1) - 1 = Chunks /\ (Chunks + 1) - 2 = Chunks - 1
      BY ThreadAssumption
    <2> QED
      BY <2>1, <2>2 DEF Shown
  <1> QED
    BY <1>1, ThreadInvariant, PTL

\* A message that says approved or denied says what the agent hears, for a
\* task that has stopped once, though the message is updated after the press.
THEOREM ResolutionsAreHeard == Spec => []ResolutionsAreTrue
  <1>1. ThreadInv => ResolutionsAreTrue
    <2> SUFFICES ASSUME ThreadInv, NEW d \in Delivery, NEW x \in Gated,
                        stops[d] = 1, label[d][x] \in Verdict
                 PROVE  Heard(d, x, label[d][x])
      BY DEF ResolutionsAreTrue, Heard
    <2> QED
      BY DEF ThreadInv, AskInv, Decided
  <1> QED
    BY <1>1, ThreadInvariant, PTL

-----------------------------------------------------------------------------
\* The action properties.

\* The final reply is overwritten by nothing but the update that the timeout
\* of its task left in flight.
THEOREM FinalRepliesStay == Spec => RepliesStay
  <1> DEFINE Stay == \A d \in Delivery :
                        reply[d] = "final" /\ state[d] # "timeout" => reply'[d] = "final"
  <1>1. ThreadInv /\ [Next]_vars => [Stay]_vars
    <2> SUFFICES ASSUME ThreadInv, [Next]_vars, NEW d \in Delivery,
                        reply[d] = "final", state[d] # "timeout"
                 PROVE  reply'[d] = "final"
      OBVIOUS
    <2>0. /\ reply \in [Delivery -> {"none", "thinking", "partial", "final"}]
          /\ ReplySide(d)
      BY DEF ThreadInv, TypeOK, ReplySide
    <2>1. handler[d] \in {"say", "done", "refused"} /\ update[d] \notin {"flying", "late"}
      BY <2>0 DEF ReplySide, ReplyInv, StageInv, UpdateInv, Life!Over
    <2>2. update[d] = "none"
      BY <2>1 DEF ThreadInv, TypeOK
    <2>3. ASSUME NEW e \in Delivery, Submit(e)
          PROVE  reply'[d] = "final"
      <3>1. e # d
        BY <2>1, <2>3 DEF Submit, At
      <3> QED
        BY <2>0, <2>3, <3>1 DEF Submit
    <2>4. ASSUME NEW e \in Delivery, FinalFails(e) \/ FinalLands(e)
          PROVE  reply'[d] = "final"
      BY <2>0, <2>4 DEF FinalFails, FinalLands
    <2>5. ASSUME NEW e \in Delivery, UpdateEnds(e)
          PROVE  reply'[d] = "final"
      BY <2>0, <2>2, <2>5 DEF UpdateEnds
    <2>6. ASSUME NEW e \in Delivery,
                 Arrive(e) \/ Told(e) \/ SayChunk(e) \/ SayRaises(e) \/ Worker(e) \/ Ends(e)
          PROVE  reply' = reply
      BY <2>6 DEF Arrive, Told, SayChunk, SayRaises, Worker, Ends, Start, Progress, CreateFile,
                  Interrupt, PostButtons, Posted, Resume, StreamEnds, AskEnds, replyVars
    <2>7. ASSUME NEW e \in Delivery, NEW x \in Gated, NEW v \in Verdict,
                 PressEnds(e, x, v) \/ \E user \in User : Press(e, x, v, user)
          PROVE  reply' = reply
      BY <2>7 DEF PressEnds, Press, replyVars
    <2>8. CASE UNCHANGED vars
      BY <2>8 DEF vars, replyVars
    <2> QED
      BY <2>3, <2>4, <2>5, <2>6, <2>7, <2>8 DEF Next, Handle
  <1> QED
    BY <1>1, ThreadInvariant, PTL DEF Spec, RepliesStay

\* A gated call that was asked for alone goes on only as a user decided whom
\* the rules let decide it: the permission is looked at when the button is
\* pressed, and still holds for that tool when the worker reads the answer.
THEOREM OnlyApproversDecide == Spec => ApproversDecide
  <1> DEFINE Right == \A d \in Delivery, x \in Gated :
                         verdict'[d][x] # verdict[d][x] /\ Len(open[d]) = 1
                            => CanApprove(answer[d].by, x)
  <1>1. ThreadInv /\ [Next]_vars => [Right]_vars
    <2> SUFFICES ASSUME ThreadInv, [Next]_vars, NEW d \in Delivery, NEW x \in Gated,
                        verdict'[d][x] # verdict[d][x], Len(open[d]) = 1
                 PROVE  CanApprove(answer[d].by, x)
      OBVIOUS
    <2>0. TypeOK /\ AskInv(d)
      BY DEF ThreadInv
    <2>1. ASSUME NEW e \in Delivery, Resume(e)
          PROVE  CanApprove(answer[d].by, x)
      <3>1. answer[e] # NoAnswer /\ answer[e].tool \in Gated
        BY <2>0, <2>1 DEF Resume, TypeOK, Answer
      <3>2. verdict' = [verdict EXCEPT ![e][answer[e].tool] =
                           IF @ = "none" THEN answer[e].verdict ELSE @]
        BY <2>1 DEF Resume
      <3>3. e = d /\ x = answer[d].tool /\ verdict[d][x] = "none"
        BY <2>0, <3>1, <3>2 DEF TypeOK
      <3>4. state[d] = "interrupted" /\ label[d][x] # "none"
        BY <2>0, <3>1, <3>3 DEF AskInv
      <3>5. x \in ToSet(open[d])
        BY <2>0, <3>3, <3>4 DEF AskInv, Life!Over
      <3>6. open[d] # <<>> /\ Head(open[d]) = x
        <4>1. open[d] \in Seq(Gated) /\ DOMAIN open[d] = 1..1
          BY <2>0, LenProperties DEF TypeOK
        <4>2. x = open[d][1]
          BY <3>5, <4>1 DEF ToSet
        <4>3. open[d] # <<>>
          <5>1. Len(<<>>) = 0
            OBVIOUS
          <5>2. Len(open[d]) # Len(<<>>)
            BY <5>1
          <5> QED
            BY <5>2
        <4> QED
          BY <4>1, <4>2, <4>3
      <3> QED
        BY <2>0, <3>1, <3>3, <3>6 DEF AskInv
    <2>2. ASSUME NEW e \in Delivery,
                 \/ Handle(e) \/ Start(e) \/ Progress(e) \/ CreateFile(e) \/ Interrupt(e)
                 \/ PostButtons(e) \/ Posted(e) \/ Ends(e) \/ UpdateEnds(e)
          PROVE  verdict' = verdict
      BY <2>2 DEF Handle, Arrive, Submit, Told, FinalFails, FinalLands, SayChunk, SayRaises,
                  Start, Progress, CreateFile, Interrupt, PostButtons, Posted, Ends, StreamEnds,
                  AskEnds, AskOver, UpdateEnds, askVars
    <2>3. ASSUME NEW e \in Delivery, NEW y \in Gated, NEW v \in Verdict,
                 PressEnds(e, y, v) \/ \E user \in User : Press(e, y, v, user)
          PROVE  verdict' = verdict
      BY <2>3 DEF PressEnds, Press
    <2>4. CASE UNCHANGED vars
      BY <2>4 DEF vars, askVars
    <2> QED
      BY <2>1, <2>2, <2>3, <2>4 DEF Next, Worker
  <1> QED
    BY <1>1, ThreadInvariant, PTL DEF Spec, ApproversDecide
=============================================================================
