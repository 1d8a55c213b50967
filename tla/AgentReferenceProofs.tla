------------------------ MODULE AgentReferenceProofs ------------------------
(***************************************************************************)
(* Theorems of AgentReference, for any finite set of agents and any files. *)
(*                                                                         *)
(* An agent is settled when nothing it names is missing or on a cycle.  A  *)
(* frame's references are still to be loaded, under construction, or       *)
(* settled, and then name nothing of the stack below the frame, for that   *)
(* would have been found to be a cycle.  So a frame whose references are   *)
(* all loaded is of a settled agent.                                       *)
(***************************************************************************)
EXTENDS AgentReference, SequenceTheorems, FiniteSetTheorems, TLAPS

\* Distinct positions hold distinct names.
Distinct(s) == \A i, j \in DOMAIN s : s[i] = s[j] => i = j

\* No name is twice on the stack, which is one frame shorter than the
\* construction, and empty between two.
StackInv ==
    /\ ReferenceTypeOK
    /\ Distinct(stack)
    /\ IF outcome = "building" THEN Len(todo) = Len(stack) + 1 ELSE stack = <<>>

\* RefsOf and Named, of files F.
FilesOK(F) == DOMAIN F \subseteq Agent /\ \A a \in DOMAIN F : F[a] \subseteq Agent
RefsIn(F, S) == UNION {F[a] : a \in S \cap DOMAIN F}
NamedIn(F, S) ==
    {a \in Agent : \A T \in SUBSET Agent : S \subseteq T /\ RefsIn(F, T) \subseteq T => a \in T}

\* Agent b names nothing that is missing, on a cycle, or in the set under.
Settled(F, b, under) ==
    /\ NamedIn(F, {b}) \subseteq DOMAIN F
    /\ NamedIn(F, {b}) \cap under = {}
    /\ \A a \in NamedIn(F, {b}) : a \notin NamedIn(F, RefsIn(F, {a}))

\* The references of frame k of the construction with config C and stack s, and
\* the names on the stack below it.
FrameRefs(F, C, s, k) == IF k = 1 THEN C ELSE F[s[k - 1]]
Under(s, k) == {s[i] : i \in 1..(k - 1)}

\* The stack is a path of references, and the references of a frame that are
\* not left to load are under construction or settled.
Construction(F, C, s, t) ==
    /\ \A i \in 1..Len(s) : s[i] \in DOMAIN F /\ s[i] \in NamedIn(F, C)
    /\ \A i, j \in 1..Len(s) : i < j => s[j] \in NamedIn(F, RefsIn(F, {s[i]}))
    /\ \A k \in 1..(Len(s) + 1) :
          /\ t[k] \subseteq FrameRefs(F, C, s, k)
          /\ \A b \in FrameRefs(F, C, s, k) \ t[k] :
                (k <= Len(s) /\ b = s[k]) \/ Settled(F, b, Under(s, k))

\* The invariant: the types, the stack, the construction while one runs, and what
\* the outcome says.
ReferenceInv ==
    /\ StackInv
    /\ outcome = "building" => Construction(files, config, stack, todo)
    /\ OutcomesAreTrue

-----------------------------------------------------------------------------
\* What is named.

\* The operators of the model are those of the files that there are.
LEMMA NamedIsNamedIn ==
  ASSUME NEW S
  PROVE  RefsOf(S) = RefsIn(files, S) /\ Named(S) = NamedIn(files, S)
  BY DEF RefsOf, RefsIn, Named, NamedIn

\* What is named holds its seeds and is closed under references.
LEMMA NamedCloses ==
  ASSUME NEW F, FilesOK(F), NEW S \in SUBSET Agent
  PROVE  /\ S \subseteq NamedIn(F, S)
         /\ NamedIn(F, S) \subseteq Agent
         /\ RefsIn(F, NamedIn(F, S)) \subseteq NamedIn(F, S)
         /\ RefsIn(F, S) \subseteq NamedIn(F, S)
         /\ RefsIn(F, S) \subseteq Agent
  <1>1. S \subseteq NamedIn(F, S) /\ NamedIn(F, S) \subseteq Agent
    BY DEF NamedIn
  <1>2. ASSUME NEW b \in RefsIn(F, NamedIn(F, S)) PROVE b \in NamedIn(F, S)
    <2>1. PICK a \in NamedIn(F, S) \cap DOMAIN F : b \in F[a]
      BY <1>2 DEF RefsIn
    <2>2. b \in Agent
      BY <2>1 DEF FilesOK
    <2>3. ASSUME NEW T \in SUBSET Agent, S \subseteq T, RefsIn(F, T) \subseteq T PROVE b \in T
      <3>1. a \in T
        BY <2>1, <2>3 DEF NamedIn
      <3> QED
        BY <2>1, <2>3, <3>1 DEF RefsIn
    <2> QED
      BY <2>2, <2>3 DEF NamedIn
  <1>3. RefsIn(F, S) \subseteq RefsIn(F, NamedIn(F, S))
    BY <1>1 DEF RefsIn
  <1> QED
    BY <1>1, <1>2, <1>3

\* It is in every closed set that holds the seeds.
LEMMA NamedIsLeast ==
  ASSUME NEW F, NEW S, NEW T \in SUBSET Agent, S \subseteq T, RefsIn(F, T) \subseteq T
  PROVE  NamedIn(F, S) \subseteq T
  BY DEF NamedIn

\* What is named of named agents is named.
LEMMA NamedTwice ==
  ASSUME NEW F, FilesOK(F), NEW S \in SUBSET Agent, NEW R \in SUBSET NamedIn(F, S)
  PROVE  NamedIn(F, R) \subseteq NamedIn(F, S)
  BY NamedCloses, NamedIsLeast

\* What a set names, one of it names.
LEMMA NamedByOne ==
  ASSUME NEW F, FilesOK(F), NEW S \in SUBSET Agent, NEW a \in NamedIn(F, S)
  PROVE  \E b \in S : a \in NamedIn(F, {b})
  <1> DEFINE T == {x \in Agent : \E b \in S : x \in NamedIn(F, {b})}
  <1>1. \A b \in S : /\ b \in NamedIn(F, {b})
                     /\ NamedIn(F, {b}) \subseteq Agent
                     /\ RefsIn(F, NamedIn(F, {b})) \subseteq NamedIn(F, {b})
    BY NamedCloses
  <1>2. S \subseteq T
    BY <1>1
  <1>3. ASSUME NEW y \in RefsIn(F, T) PROVE y \in T
    <2>1. PICK x \in T \cap DOMAIN F : y \in F[x]
      BY <1>3 DEF RefsIn
    <2>2. PICK b \in S : x \in NamedIn(F, {b})
      BY <2>1
    <2>3. y \in RefsIn(F, NamedIn(F, {b}))
      BY <2>1, <2>2 DEF RefsIn
    <2> QED
      BY <1>1, <2>2, <2>3
  <1>4. NamedIn(F, S) \subseteq T
    BY <1>2, <1>3, NamedIsLeast
  <1> QED
    BY <1>4

\* An agent names itself and what its references name.
LEMMA NamedOfOne ==
  ASSUME NEW F, FilesOK(F), NEW x \in Agent, NEW a \in NamedIn(F, {x}), a # x
  PROVE  a \in NamedIn(F, RefsIn(F, {x}))
  <1> DEFINE R == RefsIn(F, {x})
             T == {x} \cup NamedIn(F, R)
  <1>1. R \in SUBSET Agent
    BY NamedCloses
  <1>2. /\ R \subseteq NamedIn(F, R) /\ NamedIn(F, R) \subseteq Agent
        /\ RefsIn(F, NamedIn(F, R)) \subseteq NamedIn(F, R)
    BY <1>1, NamedCloses
  <1>3. RefsIn(F, T) \subseteq R \cup RefsIn(F, NamedIn(F, R))
    BY DEF RefsIn
  <1>4. NamedIn(F, {x}) \subseteq T
    BY <1>2, <1>3, NamedIsLeast
  <1> QED
    BY <1>4

\* An agent is settled when its references are, and name it not.
LEMMA ReferencesSettle ==
  ASSUME NEW F, FilesOK(F), NEW x \in DOMAIN F, NEW under, x \notin under,
         \A b \in F[x] : Settled(F, b, under \cup {x})
  PROVE  Settled(F, x, under)
  <1>1. x \in Agent /\ RefsIn(F, {x}) = F[x] /\ F[x] \in SUBSET Agent
    BY DEF FilesOK, RefsIn
  <1>2. ASSUME NEW a \in NamedIn(F, F[x])
        PROVE  /\ a \in DOMAIN F /\ a \notin under /\ a # x
               /\ a \notin NamedIn(F, RefsIn(F, {a}))
    <2>1. PICK b \in F[x] : a \in NamedIn(F, {b})
      BY <1>1, NamedByOne
    <2> QED
      BY <2>1 DEF Settled
  <1>3. \A a \in NamedIn(F, {x}) : a = x \/ a \in NamedIn(F, F[x])
    BY <1>1, NamedOfOne
  <1> QED
    BY <1>1, <1>2, <1>3 DEF Settled

-----------------------------------------------------------------------------
\* The stack and the frames.

\* A sequence without repetitions is no longer than its names are many.
LEMMA NamesBoundDepth ==
  ASSUME NEW s \in Seq(Agent), Distinct(s)
  PROVE  Len(s) <= Cardinality(Agent)
  <1>1. Len(s) \in Nat /\ s \in [1..Len(s) -> Agent] /\ DOMAIN s = 1..Len(s)
    BY LenProperties
  <1>2. s \in Injection(1..Len(s), Agent)
    BY <1>1 DEF Injection, IsInjective, Distinct
  <1>3. Cardinality(1..Len(s)) = Len(s)
    BY <1>1, FS_Interval
  <1> QED
    BY <1>2, <1>3, ReferenceAssumption, FS_Injection

\* An element pushed, and one popped.
LEMMA Pushed ==
  ASSUME NEW S, NEW s \in Seq(S), NEW a \in S
  PROVE  /\ Append(s, a) \in Seq(S)
         /\ Len(Append(s, a)) = Len(s) + 1
         /\ Distinct(s) /\ a \notin ToSet(s) => Distinct(Append(s, a))
  <1>1. Len(s) \in Nat /\ DOMAIN s = 1..Len(s)
    BY LenProperties
  <1>2. /\ Append(s, a) \in Seq(S) /\ Len(Append(s, a)) = Len(s) + 1
        /\ DOMAIN Append(s, a) = 1..(Len(s) + 1)
        /\ \A i \in 1..Len(s) : Append(s, a)[i] = s[i]
        /\ Append(s, a)[Len(s) + 1] = a
    BY <1>1, AppendProperties, LenProperties
  <1>3. ASSUME a \notin ToSet(s), NEW i \in 1..Len(s) PROVE s[i] # a
    BY <1>1, <1>3 DEF ToSet
  <1> QED
    BY <1>1, <1>2, <1>3 DEF Distinct

\* The entries of a longer sequence.
LEMMA Appended ==
  ASSUME NEW S, NEW s \in Seq(S), NEW a \in S, NEW n \in Nat, Len(s) = n
  PROVE  /\ Append(s, a)[n + 1] = a
         /\ \A k \in 1..n : Append(s, a)[k] = s[k]
  BY AppendProperties

\* The entries of a shorter one.
LEMMA Popped ==
  ASSUME NEW S, NEW s \in Seq(S), s # <<>>
  PROVE  /\ Front(s) \in Seq(S)
         /\ Len(Front(s)) = Len(s) - 1
         /\ Last(s) \in S
         /\ Distinct(s) => Distinct(Front(s))
  <1>1. Len(s) \in Nat \ {0} /\ DOMAIN s = 1..Len(s)
    BY LenProperties, EmptySeq
  <1>2. /\ Front(s) \in Seq(S) /\ Len(Front(s)) = Len(s) - 1
        /\ \A i \in 1..(Len(s) - 1) : Front(s)[i] = s[i]
    BY <1>1, SubSeqProperties DEF Front
  <1>3. DOMAIN Front(s) = 1..(Len(s) - 1)
    BY <1>2, LenProperties
  <1> QED
    BY <1>1, <1>2, <1>3 DEF Last, Distinct

\* At first no construction runs.
LEMMA StackInit == ReferenceInit => StackInv
  BY DEF ReferenceInit, Distinct, StackInv, ReferenceTypeOK

\* Every step keeps the stack without repetitions, and one list to load for each
\* frame.
LEMMA StackKept == StackInv /\ [ReferenceNext]_referenceVars => StackInv'
  <1> SUFFICES ASSUME StackInv, [ReferenceNext]_referenceVars PROVE StackInv'
    OBVIOUS
  <1>t. /\ stack \in Seq(Agent) /\ todo \in Seq(SUBSET Agent)
        /\ Len(stack) \in Nat /\ Len(todo) \in Nat
    BY LenProperties DEF StackInv, ReferenceTypeOK
  <1>e. <<>> \in Seq(SUBSET Agent) /\ <<>> \in Seq(Agent) /\ DOMAIN <<>> = {}
    OBVIOUS
  <1>f. ASSUME NEW how \in {"cycle", "missing", "error"}, outcome = "building", Fails(how)
        PROVE  StackInv'
    <2>1. Len(todo) = Len(stack) + 1
      BY <1>f DEF StackInv
    <2>2. stack' = SubSeq(stack, 1, 0)
      BY <1>f, <1>t, <2>1 DEF Fails
    <2>3. stack' = <<>>
      BY <1>t, <2>2, SubSeqProperties, EmptySeq
    <2> QED
      BY <1>f, <2>3, <1>e DEF Fails, Distinct, StackInv, ReferenceTypeOK
  <1>1. CASE Configured
    BY <1>1 DEF Configured, StackInv, ReferenceTypeOK
  <1>2. CASE BuildStarts
    <2>1. /\ stack = <<>> /\ stack' = stack /\ todo' = <<config>> /\ config' = config
          /\ files' = files /\ outcome' = "building" /\ config \subseteq Agent
      BY <1>2 DEF BuildStarts, StackInv, ReferenceTypeOK
    <2>2. todo' \in Seq(SUBSET Agent) /\ Len(todo') = 1 /\ Len(stack') = 0
      BY <2>1
    <2> QED
      BY <2>1, <2>2 DEF StackInv, ReferenceTypeOK
  <1>3. CASE FrameEnds
    <2>1. outcome = "building" /\ Len(todo) = Len(stack) + 1
      BY <1>3 DEF FrameEnds, StackInv
    <2>2. CASE Len(todo) = 1
      <3>1. stack = <<>>
        BY <2>1, <2>2, <1>t, EmptySeq
      <3> QED
        BY <1>3, <1>e, <2>2, <3>1 DEF FrameEnds, Distinct, StackInv, ReferenceTypeOK
    <2>3. CASE Len(todo) # 1
      <3>1. stack # <<>> /\ todo # <<>>
        BY <2>1, <2>3, <1>t, EmptySeq
      <3>2. todo' = Front(todo) /\ stack' = Front(stack) /\ outcome' = outcome
            /\ UNCHANGED <<files, config>>
        BY <1>3, <2>3 DEF FrameEnds
      <3>3. /\ stack' \in Seq(Agent) /\ Len(stack') = Len(stack) - 1
            /\ Distinct(stack')
        BY <1>t, <3>1, <3>2, Popped DEF StackInv
      <3>4. todo' \in Seq(SUBSET Agent) /\ Len(todo') = Len(todo) - 1
        BY <1>t, <3>1, <3>2, Popped
      <3> QED
        BY <1>t, <2>1, <3>2, <3>3, <3>4 DEF StackInv, ReferenceTypeOK
    <2> QED
      BY <2>2, <2>3
  <1>4. ASSUME NEW a \in Agent, FileWritten(a) PROVE StackInv'
    <2>1. DOMAIN files' \subseteq Agent /\ \A b \in DOMAIN files' : files'[b] \subseteq Agent
      BY <1>4 DEF FileWritten, StackInv, ReferenceTypeOK
    <2> QED
      BY <1>4, <2>1 DEF FileWritten, StackInv, ReferenceTypeOK
  <1>5. ASSUME NEW a \in Agent, Refer(a) PROVE StackInv'
    <2>1. outcome = "building" /\ Len(todo) = Len(stack) + 1 /\ todo # <<>>
      BY <1>5, <1>t, EmptySeq DEF Refer, StackInv
    <2>2. ASSUME NEW how \in {"cycle", "missing"}, Fails(how) PROVE StackInv'
      BY <1>f, <2>1, <2>2
    <2>3. CASE a \notin ToSet(stack) /\ a \in DOMAIN files
      <3>1. /\ stack' = Append(stack, a)
            /\ todo' = Append(Front(todo) \o <<Last(todo) \ {a}>>, files[a])
            /\ UNCHANGED <<files, config, outcome>>
        BY <1>5, <2>3 DEF Refer
      <3>2. files[a] \in SUBSET Agent
        BY <2>3 DEF StackInv, ReferenceTypeOK
      <3>3. /\ stack' \in Seq(Agent) /\ Len(stack') = Len(stack) + 1
            /\ Distinct(stack')
        BY <1>t, <2>3, <3>1, Pushed DEF StackInv
      <3>4. Front(todo) \in Seq(SUBSET Agent) /\ Len(Front(todo)) = Len(todo) - 1
            /\ Last(todo) \in SUBSET Agent
        BY <1>t, <2>1, Popped
      <3>5. LET t == Front(todo) \o <<Last(todo) \ {a}>>
            IN  t \in Seq(SUBSET Agent) /\ Len(t) = Len(todo)
        <4>1. <<Last(todo) \ {a}>> \in Seq(SUBSET Agent) /\ Len(<<Last(todo) \ {a}>>) = 1
          BY <3>4
        <4> QED
          BY <1>t, <3>4, <4>1, ConcatProperties
      <3>6. todo' \in Seq(SUBSET Agent) /\ Len(todo') = Len(todo) + 1
        BY <3>1, <3>2, <3>5, AppendProperties
      <3> QED
        BY <1>t, <2>1, <3>1, <3>3, <3>6 DEF StackInv, ReferenceTypeOK
    <2> QED
      BY <1>5, <2>2, <2>3 DEF Refer
  <1>6. CASE Raises
    BY <1>6, <1>f DEF Raises
  <1>7. CASE UNCHANGED referenceVars
    BY <1>7 DEF referenceVars, StackInv, ReferenceTypeOK
  <1> QED
    BY <1>1, <1>2, <1>3, <1>4, <1>5, <1>6, <1>7 DEF ReferenceNext

-----------------------------------------------------------------------------
\* The construction.

\* A cycle, and a missing file, among what configuration C names.
Cyclic(F, C) == \E a \in NamedIn(F, C) : a \in NamedIn(F, RefsIn(F, {a}))
Missing(F, C) == NamedIn(F, C) \ DOMAIN F # {}

\* A construction, with its types.
Building(F, C, s, t) ==
    /\ FilesOK(F) /\ C \subseteq Agent
    /\ s \in Seq(Agent) /\ t \in Seq(SUBSET Agent)
    /\ Len(t) = Len(s) + 1
    /\ Distinct(s)
    /\ Construction(F, C, s, t)

\* When all references of the configuration are settled, nothing is wrong.
LEMMA SettledIsWhole ==
  ASSUME NEW F, FilesOK(F), NEW C \in SUBSET Agent, \A b \in C : Settled(F, b, {})
  PROVE  ~Cyclic(F, C) /\ ~Missing(F, C)
  <1>1. \A a \in NamedIn(F, C) : \E b \in C : a \in NamedIn(F, {b})
    BY NamedByOne
  <1> QED
    BY <1>1 DEF Settled, Cyclic, Missing

\* A reference of the innermost frame is named by the configuration, and by the
\* references of every agent on the stack.
LEMMA LoadedIsNamed ==
  ASSUME NEW F, NEW C, NEW s, NEW t, Building(F, C, s, t), NEW a \in Last(t)
  PROVE  /\ a \in NamedIn(F, C)
         /\ \A i \in 1..Len(s) : a \in NamedIn(F, RefsIn(F, {s[i]}))
  <1> PICK n \in Nat : n = Len(s)
    BY LenProperties DEF Building
  <1>1. /\ FilesOK(F) /\ C \in SUBSET Agent
        /\ \A i \in 1..n : s[i] \in DOMAIN F /\ s[i] \in Agent /\ s[i] \in NamedIn(F, C)
        /\ \A i, j \in 1..n : i < j => s[j] \in NamedIn(F, RefsIn(F, {s[i]}))
    BY LenProperties DEF Building, Construction, FilesOK
  <1>2. a \in FrameRefs(F, C, s, n + 1)
    BY DEF Building, Construction, Last
  <1>3. CASE n = 0
    <2>1. a \in C /\ 1..Len(s) = {}
      BY <1>2, <1>3 DEF FrameRefs
    <2>2. a \in NamedIn(F, C)
      <3>1. C \subseteq NamedIn(F, C)
        BY <1>1, NamedCloses
      <3> QED
        BY <2>1, <3>1
    <2> QED
      BY <2>1, <2>2
  <1>4. CASE n # 0
    <2>1. n \in 1..n /\ a \in F[s[n]]
      BY <1>2, <1>4 DEF FrameRefs
    <2>2. \A S \in SUBSET Agent : s[n] \in NamedIn(F, S) => a \in NamedIn(F, S)
      <3> TAKE S \in SUBSET Agent
      <3> HAVE s[n] \in NamedIn(F, S)
      <3>1. a \in RefsIn(F, NamedIn(F, S))
        BY <1>1, <2>1 DEF RefsIn
      <3> QED
        BY <1>1, <3>1, NamedCloses
    <2>3. ASSUME NEW i \in 1..n PROVE a \in NamedIn(F, RefsIn(F, {s[i]}))
      <3>1. RefsIn(F, {s[i]}) \in SUBSET Agent /\ RefsIn(F, {s[n]}) \subseteq NamedIn(F, RefsIn(F, {s[n]}))
        <4>1. {s[i]} \in SUBSET Agent /\ {s[n]} \in SUBSET Agent
          BY <1>1, <2>1
        <4> QED
          BY <1>1, <4>1, NamedCloses
      <3>2. CASE i = n
        <4>1. a \in RefsIn(F, {s[n]})
          BY <1>1, <2>1 DEF RefsIn
        <4> QED
          BY <3>1, <3>2, <4>1
      <3>3. CASE i < n
        BY <1>1, <2>1, <2>2, <3>1, <3>3
      <3> QED
        BY <3>2, <3>3
    <2> QED
      BY <1>1, <2>1, <2>2, <2>3
  <1> QED
    BY <1>3, <1>4

\* A name that is on the stack closes a cycle, and one without a file is missing.
LEMMA ErrorsAreTrue ==
  ASSUME NEW F, NEW C, NEW s, NEW t, Building(F, C, s, t), NEW a \in Last(t)
  PROVE  /\ a \in ToSet(s) => Cyclic(F, C)
         /\ a \notin DOMAIN F => Missing(F, C)
  <1>1. DOMAIN s = 1..Len(s)
    BY LenProperties DEF Building
  <1> QED
    BY <1>1, LoadedIsNamed DEF ToSet, Cyclic, Missing

\* The construction goes on into a reference.
LEMMA PushKeeps ==
  ASSUME NEW F, NEW C, NEW s, NEW t, Building(F, C, s, t),
         NEW a \in Last(t), a \in DOMAIN F, a \notin ToSet(s),
         NEW p \in Seq(Agent), p = Append(s, a),
         NEW q \in Seq(SUBSET Agent), q = Append(Front(t) \o <<Last(t) \ {a}>>, F[a])
  PROVE  Construction(F, C, p, q)
  <1> PICK n \in Nat : n = Len(s)
    BY LenProperties DEF Building
  <1>1. /\ s \in Seq(Agent) /\ t \in Seq(SUBSET Agent) /\ Len(t) = n + 1 /\ a \in Agent
        /\ Construction(F, C, s, t) /\ F[a] \in SUBSET Agent /\ t # <<>>
    BY EmptySeq DEF Building, FilesOK
  <1>2. Len(p) = n + 1 /\ p[n + 1] = a /\ \A i \in 1..n : p[i] = s[i]
    BY <1>1, AppendProperties
  <1>3. /\ Len(Front(t)) = n /\ Front(t) \in Seq(SUBSET Agent)
        /\ \A i \in 1..n : Front(t)[i] = t[i]
        /\ Last(t) = t[n + 1] /\ Last(t) \in SUBSET Agent
    <2>1. DOMAIN t = 1..(n + 1) /\ \A i \in 1..n : t[i] \in SUBSET Agent
      BY <1>1, LenProperties
    <2> QED
      BY <1>1, <2>1, Popped, SubSeqProperties DEF Front, Last
  <1>4. /\ \A k \in 1..n : q[k] = t[k]
        /\ q[n + 1] = Last(t) \ {a}
        /\ q[n + 2] = F[a]
    <2> PICK rest \in SUBSET Agent : rest = Last(t) \ {a}
      BY <1>3
    <2> PICK front \in Seq(SUBSET Agent) : front = Front(t)
      BY <1>3
    <2> PICK refs \in SUBSET Agent : refs = F[a]
      BY <1>1
    <2>0. Len(front) = n
      BY <1>3
    <2> DEFINE m == front \o <<rest>>
    <2>1. /\ m \in Seq(SUBSET Agent) /\ Len(m) = n + 1 /\ m[n + 1] = rest
          /\ \A k \in 1..n : m[k] = front[k]
      <3>1. m = Append(front, rest)
        BY AppendIsConcat
      <3> HIDE DEF m
      <3> QED
        BY <2>0, <3>1, AppendProperties
    <2>2. q = Append(m, refs)
      OBVIOUS
    <2> HIDE DEF m
    <2>4. q[n + 2] = refs /\ \A k \in 1..(n + 1) : q[k] = m[k]
      <3>1. n + 1 \in Nat /\ (n + 1) + 1 = n + 2
        OBVIOUS
      <3>2. q[(n + 1) + 1] = refs /\ \A k \in 1..(n + 1) : q[k] = m[k]
        <4>1. /\ Append(m, refs)[(n + 1) + 1] = refs
              /\ \A k \in 1..(n + 1) : Append(m, refs)[k] = m[k]
          BY <2>1, <3>1, Appended
        <4> QED
          BY <2>2, <4>1
      <3> QED
        BY <3>1, <3>2
    <2>5. \A k \in 1..n : q[k] = t[k]
      BY <1>3, <2>1, <2>4
    <2>6. q[n + 1] = Last(t) \ {a}
      <3>1. n + 1 \in 1..(n + 1)
        OBVIOUS
      <3>2. q[n + 1] = m[n + 1]
        BY <2>4, <3>1
      <3> QED
        BY <2>1, <3>2
    <2> QED
      BY <2>4, <2>5, <2>6
  <1>5. \A k \in 1..(n + 1) : Under(p, k) = Under(s, k) /\ FrameRefs(F, C, p, k) = FrameRefs(F, C, s, k)
    BY <1>2 DEF Under, FrameRefs
  <1>6. \A i \in 1..(n + 1) : p[i] \in DOMAIN F /\ p[i] \in NamedIn(F, C)
    BY <1>1, <1>2, LoadedIsNamed DEF Construction
  <1>7. ASSUME NEW i \in 1..(n + 1), NEW j \in 1..(n + 1), i < j
        PROVE  p[j] \in NamedIn(F, RefsIn(F, {p[i]}))
    <2>1. i \in 1..n /\ p[i] = s[i]
      BY <1>2, <1>7
    <2>2. CASE j = n + 1
      BY <1>2, <2>1, <2>2, LoadedIsNamed
    <2>3. CASE j \in 1..n
      BY <1>1, <1>2, <1>7, <2>1, <2>3 DEF Construction
    <2>4. j = n + 1 \/ j \in 1..n
      OBVIOUS
    <2> QED
      BY <2>2, <2>3, <2>4
  <1>8. ASSUME NEW k \in 1..(n + 2)
        PROVE  /\ q[k] \subseteq FrameRefs(F, C, p, k)
               /\ \A b \in FrameRefs(F, C, p, k) \ q[k] :
                     (k <= n + 1 /\ b = p[k]) \/ Settled(F, b, Under(p, k))
    <2>1. CASE k \in 1..n
      <3>0. k \in 1..(n + 1) /\ k <= n + 1
        BY <2>1
      <3>1. /\ k \in 1..(n + 1) /\ k <= n + 1 /\ p[k] = s[k] /\ q[k] = t[k]
        BY <1>2, <1>4, <2>1, <3>0
      <3>2. /\ t[k] \subseteq FrameRefs(F, C, s, k)
            /\ \A b \in FrameRefs(F, C, s, k) \ t[k] : b = s[k] \/ Settled(F, b, Under(s, k))
        BY <1>1, <3>1 DEF Construction
      <3> QED
        BY <1>5, <3>1, <3>2
    <2>2. CASE k = n + 1
      <3>1. /\ t[k] \subseteq FrameRefs(F, C, s, k)
            /\ \A b \in FrameRefs(F, C, s, k) \ t[k] : Settled(F, b, Under(s, k))
        BY <1>1, <2>2 DEF Construction
      <3>0. k \in 1..(n + 1) /\ k <= n + 1
        BY <2>2
      <3>2. /\ k \in 1..(n + 1) /\ k <= n + 1 /\ p[k] = a /\ q[k] = t[k] \ {a}
        BY <1>2, <1>3, <1>4, <2>2, <3>0
      <3> QED
        BY <1>5, <3>1, <3>2
    <2>3. CASE k = n + 2
      <3>1. FrameRefs(F, C, p, k) = F[a]
        BY <1>2, <2>3 DEF FrameRefs
      <3> QED
        BY <1>4, <2>3, <3>1
    <2>4. k \in 1..n \/ k = n + 1 \/ k = n + 2
      OBVIOUS
    <2> QED
      BY <2>1, <2>2, <2>3, <2>4
  <1>9. Len(p) = n + 1 /\ Len(p) + 1 = n + 2
    BY <1>2
  <1> QED
    BY <1>6, <1>7, <1>8, <1>9 DEF Construction

\* The innermost agent is built, and is settled.
LEMMA PopKeeps ==
  ASSUME NEW F, NEW C, NEW s, NEW t, Building(F, C, s, t), s # <<>>, Last(t) = {},
         NEW p \in Seq(Agent), p = Front(s), NEW q \in Seq(SUBSET Agent), q = Front(t)
  PROVE  Construction(F, C, p, q)
  <1> PICK n \in Nat : n + 1 = Len(s)
    <2>1. Len(s) \in Nat \ {0}
      BY EmptySeq DEF Building
    <2>2. Len(s) - 1 \in Nat /\ (Len(s) - 1) + 1 = Len(s)
      BY <2>1
    <2> QED
      BY <2>2
  <1>1. /\ FilesOK(F)
        /\ s \in Seq(Agent) /\ t \in Seq(SUBSET Agent) /\ Len(t) = n + 2
        /\ Construction(F, C, s, t) /\ t # <<>> /\ Distinct(s)
    BY EmptySeq DEF Building
  <1>c. /\ \A i \in 1..(n + 1) : s[i] \in DOMAIN F /\ s[i] \in NamedIn(F, C)
        /\ \A i, j \in 1..(n + 1) : i < j => s[j] \in NamedIn(F, RefsIn(F, {s[i]}))
        /\ \A k \in 1..(n + 2) :
              /\ t[k] \subseteq FrameRefs(F, C, s, k)
              /\ \A b \in FrameRefs(F, C, s, k) \ t[k] :
                    (k <= n + 1 /\ b = s[k]) \/ Settled(F, b, Under(s, k))
    <2>1. Len(s) = n + 1 /\ Len(s) + 1 = n + 2
      OBVIOUS
    <2> QED
      BY <1>1, <2>1 DEF Construction
  <1>2. Len(p) = n /\ \A i \in 1..n : p[i] = s[i]
    <2>1. DOMAIN s = 1..(n + 1) /\ \A i \in 1..n : s[i] \in Agent
      BY <1>1, LenProperties
    <2> QED
      BY <1>1, <2>1, SubSeqProperties DEF Front
  <1>3. \A i \in 1..(n + 1) : q[i] = t[i]
    <2>1. DOMAIN t = 1..(n + 2) /\ \A i \in 1..(n + 1) : t[i] \in SUBSET Agent
      BY <1>1, LenProperties
    <2> QED
      BY <1>1, <2>1, SubSeqProperties DEF Front
  <1>4. \A k \in 1..(n + 1) : Under(p, k) = Under(s, k) /\ FrameRefs(F, C, p, k) = FrameRefs(F, C, s, k)
    BY <1>2 DEF Under, FrameRefs
  <1> PICK x \in DOMAIN F : x = s[n + 1]
    BY <1>c
  <1>5. Settled(F, x, Under(s, n + 1))
    <2>1. t[n + 2] = {}
      BY <1>1 DEF Last
    <2>2. FrameRefs(F, C, s, n + 2) = F[x]
      BY DEF FrameRefs
    <2>3. \A b \in F[x] : Settled(F, b, Under(s, n + 2))
      BY <1>c, <2>1, <2>2
    <2>4. Under(s, n + 2) = Under(s, n + 1) \cup {x}
      BY DEF Under
    <2>5. x \notin Under(s, n + 1)
      BY <1>1, LenProperties DEF Under, Distinct
    <2>6. \A b \in F[x] : Settled(F, b, Under(s, n + 1) \cup {x})
      BY <2>3, <2>4
    <2> QED
      BY <1>1, <2>5, <2>6, ReferencesSettle
  <1>6. \A i \in 1..n : p[i] \in DOMAIN F /\ p[i] \in NamedIn(F, C)
    BY <1>c, <1>2
  <1>7. \A i, j \in 1..n : i < j => p[j] \in NamedIn(F, RefsIn(F, {p[i]}))
    BY <1>c, <1>2
  <1>8. ASSUME NEW k \in 1..(n + 1)
        PROVE  /\ q[k] \subseteq FrameRefs(F, C, p, k)
               /\ \A b \in FrameRefs(F, C, p, k) \ q[k] :
                     (k <= n /\ b = p[k]) \/ Settled(F, b, Under(p, k))
    <2>1. /\ t[k] \subseteq FrameRefs(F, C, s, k)
          /\ \A b \in FrameRefs(F, C, s, k) \ t[k] :
                b = s[k] \/ Settled(F, b, Under(s, k))
      BY <1>c
    <2>2. CASE k \in 1..n
      BY <1>2, <1>3, <1>4, <2>1, <2>2
    <2>3. CASE k = n + 1
      BY <1>3, <1>4, <1>5, <2>1, <2>3
    <2> QED
      BY <2>2, <2>3
  <1> QED
    BY <1>2, <1>6, <1>7, <1>8 DEF Construction

-----------------------------------------------------------------------------
\* The invariant.

\* What the outcome says of the files and the configuration.
ToldTrue == /\ outcome = "built" => ~Cyclic(files, config) /\ ~Missing(files, config)
            /\ outcome = "cycle" => Cyclic(files, config)
            /\ outcome = "missing" => Missing(files, config)

\* The invariant that the run checks, in the words of this module.
LEMMA OutcomesTell == OutcomesAreTrue <=> ToldTrue
  <1>1. Cyclic(files, config) <=> \E a \in Named(config) : a \in Named(RefsOf({a}))
    BY NamedIsNamedIn DEF Cyclic
  <1>2. Missing(files, config) <=> Named(config) \ DOMAIN files # {}
    BY NamedIsNamedIn DEF Missing
  <1> QED
    BY <1>1, <1>2 DEF OutcomesAreTrue, ToldTrue

\* The initial states satisfy the invariant.
LEMMA ReferenceInitInv == ReferenceInit => ReferenceInv
  <1> SUFFICES ASSUME ReferenceInit PROVE ReferenceInv
    OBVIOUS
  <1>1. StackInv /\ outcome = "idle"
    BY StackInit DEF ReferenceInit
  <1>2. OutcomesAreTrue
    BY <1>1 DEF OutcomesAreTrue
  <1> QED
    BY <1>1, <1>2 DEF ReferenceInv

\* A construction starts with the configuration's frame.
LEMMA StartKeeps ==
  ASSUME NEW F, NEW C
  PROVE  Construction(F, C, <<>>, <<C>>)
  <1>1. 1..Len(<<>>) = {} /\ 1..(Len(<<>>) + 1) = {1} /\ <<C>>[1] = C
    OBVIOUS
  <1> QED
    BY <1>1 DEF Construction, FrameRefs

\* Every step preserves it.
LEMMA ReferenceNextInv == ReferenceInv /\ [ReferenceNext]_referenceVars => ReferenceInv'
  <1> SUFFICES ASSUME ReferenceInv, [ReferenceNext]_referenceVars PROVE ReferenceInv'
    OBVIOUS
  <1>s. StackInv /\ StackInv'
    BY StackKept DEF ReferenceInv
  <1>o. ToldTrue
    BY OutcomesTell DEF ReferenceInv
  <1>b. outcome = "building" => Building(files, config, stack, todo)
    BY <1>s DEF ReferenceInv, StackInv, ReferenceTypeOK, Building, FilesOK
  <1> DEFINE Goal == /\ outcome' = "building" => Construction(files', config', stack', todo')
                     /\ ToldTrue'
  <1>1. ASSUME Configured PROVE Goal
    BY <1>1 DEF Configured, ToldTrue
  <1>2. ASSUME BuildStarts PROVE Goal
    <2>1. /\ stack' = <<>> /\ todo' = <<config>> /\ config' = config /\ files' = files
          /\ outcome' = "building"
      BY <1>2, <1>s DEF BuildStarts, StackInv
    <2> QED
      BY <2>1, StartKeeps DEF ToldTrue
  <1>3. ASSUME FrameEnds PROVE Goal
    <2>1. /\ outcome = "building" /\ Last(todo) = {} /\ files' = files /\ config' = config
          /\ Building(files, config, stack, todo)
          /\ Len(todo) = Len(stack) + 1 /\ Len(stack) \in Nat
      BY <1>3, <1>b, LenProperties DEF FrameEnds, Building
    <2>2. CASE Len(todo) = 1
      <3>1. Len(stack) = 0 /\ stack = <<>>
        BY <2>1, <2>2, EmptySeq DEF Building
      <3>2. \A b \in config : Settled(files, b, {})
        <4>1. todo[1] = {} /\ Under(stack, 1) = {} /\ FrameRefs(files, config, stack, 1) = config
          BY <2>1, <2>2 DEF Last, Under, FrameRefs
        <4>2. \A b \in config \ todo[1] : Settled(files, b, Under(stack, 1))
          BY <2>1, <3>1, <4>1 DEF Building, Construction
        <4> QED
          BY <4>1, <4>2
      <3>3. outcome' = "built"
        BY <1>3, <2>2 DEF FrameEnds
      <3> QED
        BY <2>1, <3>2, <3>3, SettledIsWhole DEF ToldTrue, Building
    <2>3. CASE Len(todo) # 1
      <3>1. stack # <<>> /\ stack' = Front(stack) /\ todo' = Front(todo) /\ outcome' = "building"
        BY <1>3, <2>1, <2>3 DEF FrameEnds
      <3>2. stack' \in Seq(Agent) /\ todo' \in Seq(SUBSET Agent)
        BY <1>s DEF StackInv, ReferenceTypeOK
      <3>3. Construction(files, config, stack', todo')
        BY <2>1, <3>1, <3>2, PopKeeps
      <3> QED
        BY <2>1, <3>1, <3>3 DEF ToldTrue
    <2> QED
      BY <2>2, <2>3
  <1>4. ASSUME NEW a \in Agent, FileWritten(a)
        PROVE  Goal
    BY <1>4 DEF FileWritten, ToldTrue
  <1>5. ASSUME NEW a \in Agent, Refer(a)
        PROVE  Goal
    <2>1. /\ outcome = "building" /\ a \in Last(todo) /\ files' = files /\ config' = config
          /\ Building(files, config, stack, todo)
      BY <1>5, <1>b DEF Refer, Fails
    <2>2. /\ a \in ToSet(stack) => Cyclic(files, config)
          /\ a \notin DOMAIN files => Missing(files, config)
      BY <2>1, ErrorsAreTrue
    <2>3. CASE a \in ToSet(stack)
      BY <1>5, <2>1, <2>2, <2>3 DEF Refer, Fails, ToldTrue
    <2>4. CASE a \notin ToSet(stack) /\ a \notin DOMAIN files
      BY <1>5, <2>1, <2>2, <2>4 DEF Refer, Fails, ToldTrue
    <2>5. CASE a \notin ToSet(stack) /\ a \in DOMAIN files
      <3>1. /\ outcome' = "building" /\ stack' = Append(stack, a)
            /\ todo' = Append(Front(todo) \o <<Last(todo) \ {a}>>, files[a])
        BY <1>5, <2>1, <2>5 DEF Refer
      <3>2. stack' \in Seq(Agent) /\ todo' \in Seq(SUBSET Agent)
        BY <1>s DEF StackInv, ReferenceTypeOK
      <3>3. Construction(files, config, stack', todo')
        BY <2>1, <2>5, <3>1, <3>2, PushKeeps
      <3> QED
        BY <2>1, <3>1, <3>3 DEF ToldTrue
    <2> QED
      BY <2>3, <2>4, <2>5
  <1>6. ASSUME Raises PROVE Goal
    BY <1>6 DEF Raises, Fails, ToldTrue
  <1>7. ASSUME UNCHANGED referenceVars PROVE Goal
    BY <1>7, <1>o DEF referenceVars, ToldTrue, ReferenceInv
  <1>8. Goal
    BY <1>1, <1>2, <1>3, <1>4, <1>5, <1>6, <1>7 DEF ReferenceNext
  <1>9. OutcomesAreTrue'
    BY <1>8, OutcomesTell, PTL
  <1> QED
    BY <1>s, <1>8, <1>9 DEF ReferenceInv

\* So it holds in every behaviour.
LEMMA ReferenceInvariant == ReferenceSpec => []ReferenceInv
  BY ReferenceInitInv, ReferenceNextInv, PTL DEF ReferenceSpec

\* The variables of the model have their types.
THEOREM ReferenceTypeCorrect == ReferenceSpec => []ReferenceTypeOK
  <1>1. ReferenceInv => ReferenceTypeOK
    BY DEF ReferenceInv, StackInv
  <1> QED
    BY <1>1, ReferenceInvariant, PTL

\* A construction recurses no deeper than there are agents, and ends with the
\* stack as it was.
THEOREM ConstructionsAreBounded == ReferenceSpec => []DepthIsBounded
  <1>1. ReferenceInv => DepthIsBounded
    BY NamesBoundDepth DEF ReferenceInv, StackInv, ReferenceTypeOK, DepthIsBounded
  <1> QED
    BY <1>1, ReferenceInvariant, PTL

\* Whatever was built or failed before, a build succeeds only when the files as
\* they are have no cycle and nothing missing, and fails of one only when it is there.
THEOREM BuildsAreTrue == ReferenceSpec => []OutcomesAreTrue
  <1>1. ReferenceInv => OutcomesAreTrue
    BY DEF ReferenceInv
  <1> QED
    BY <1>1, ReferenceInvariant, PTL
=============================================================================
