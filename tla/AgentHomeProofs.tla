--------------------------- MODULE AgentHomeProofs ---------------------------
(***************************************************************************)
(* Theorems of the parts beside the executor and the channels: the bundled *)
(* tools, the service, the usage log and the cutting of texts, and of      *)
(* their composition with the parts that have proofs of their own.         *)
(***************************************************************************)
EXTENDS MCAgentHome, MemoryProofs, SessionForkProofs, AgentReferenceProofs,
        SequenceTheorems, FiniteSetTheorems, WellFoundedInduction, TLAPS

-----------------------------------------------------------------------------
\* RemoteTools.  A call has its effect once because the effect is the last of
\* its requests: before it is sent nothing is applied, and once it is served
\* nothing is sent again.  The invariant says so of the first request of the
\* list, by what became of it.

RemoteCall == [todo : Seq({"read"} \cup Effects), accepts : SUBSET Served,
         at : {"idle", "wait", "ok", "error"},
         sent : {"none", "asked", "4xx"} \cup Served,
         base : 0..MaxVersion, applied : Nat]

\* The requests a tool starts with: at most one effect, at the end.
Plans == {<<"read">>, <<"write">>, <<"spend">>, <<"read", "replace">>}

\* And the rest of them, once some were served.
Rests == Plans \cup {<<"replace">>}

\* What the service has done is told by the first request and its reply.
EffectOf(r) ==
    /\ r.at \in {"wait", "ok"} => r.todo \in Rests
    /\ r.at = "idle" => r.sent = "none"
    /\ r.at = "ok" => r.sent \in Served
    /\ r.sent # "none" => r.todo \in Rests
    /\ r.applied = IF r.sent \in Served /\ Head(r.todo) \in Effects THEN 1 ELSE 0

RemoteInv == RemoteTypeOK /\ \A c \in ToolCall : EffectOf(remote[c])

-----------------------------------------------------------------------------
\* The requests of the tools.

\* Every tool asks for one effect at most, and for it last.
LEMMA EffectsComeLast ==
  \A tools \in Toolsets : \A tool \in DOMAIN tools : tools[tool] \in Plans
  <1>1. \A x \in DOMAIN JiraStatusTools : JiraStatusTools[x] \in Plans
    BY DEF JiraStatusTools, Plans
  <1>2. \A x \in DOMAIN JiraIssueTools : JiraIssueTools[x] \in Plans
    BY DEF JiraIssueTools, Plans
  <1>3. \A x \in DOMAIN ConfluencePageTools : ConfluencePageTools[x] \in Plans
    BY DEF ConfluencePageTools, Plans
  <1>4. \A x \in DOMAIN ConfluenceSearchTools : ConfluenceSearchTools[x] \in Plans
    BY DEF ConfluenceSearchTools, Plans
  <1>5. \A x \in DOMAIN DatadogDataTools : DatadogDataTools[x] \in Plans
    BY DEF DatadogDataTools, Plans
  <1>6. \A x \in DOMAIN DatadogMonitorTools : DatadogMonitorTools[x] \in Plans
    BY DEF DatadogMonitorTools, Plans
  <1>7. \A x \in DOMAIN DatadogEventTools : DatadogEventTools[x] \in Plans
    BY DEF DatadogEventTools, Plans
  <1>8. \A x \in DOMAIN LushaEnrichTools : LushaEnrichTools[x] \in Plans
    BY DEF LushaEnrichTools, Plans
  <1>9. \A x \in DOMAIN LushaSearchTools : LushaSearchTools[x] \in Plans
    BY DEF LushaSearchTools, Plans
  <1>10. \A x \in DOMAIN ApolloPersonTools : ApolloPersonTools[x] \in Plans
    BY DEF ApolloPersonTools, Plans
  <1>11. \A x \in DOMAIN ApolloCompanyTools : ApolloCompanyTools[x] \in Plans
    BY DEF ApolloCompanyTools, Plans
  <1> QED
    BY <1>1, <1>2, <1>3, <1>4, <1>5, <1>6, <1>7, <1>8, <1>9, <1>10, <1>11
    DEF Toolsets, AtlassianTools, OtherTools

\* No status but those of success is taken for one.
LEMMA AcceptedAreServed == \A tools : Accepted(tools) \subseteq Served
  BY DEF Accepted, Served

\* What the plans look like: an effect is their last request.
LEMMA ShapesOfRests ==
  ASSUME NEW plan \in Rests
  PROVE  /\ plan \in Seq({"read"} \cup Effects)
         /\ plan # <<>>
         /\ Head(plan) \in {"read"} \cup Effects
         /\ Len(plan) > 1 => Tail(plan) \in Rests /\ Head(plan) = "read"
  <1> DEFINE Kind == {"read"} \cup Effects
             Long == <<"read", "replace">>
  <1>1. Kind = {"read", "write", "spend", "replace"}
    BY DEF Effects
  <1>2. plan = Long \/ \E x \in Kind : plan = <<x>>
    BY <1>1 DEF Rests, Plans
  <1>3. CASE plan = Long
    <2>1. Long \in Seq(Kind) /\ Head(Long) = "read" /\ Tail(Long) = <<"replace">> /\ Long # <<>>
      BY <1>1
    <2>2. <<"replace">> \in Rests /\ "read" \in Kind
      BY DEF Rests
    <2> HIDE DEF Kind, Long
    <2> QED
      BY <1>3, <2>1, <2>2 DEF Kind
  <1>4. CASE \E x \in Kind : plan = <<x>>
    <2>1. PICK x \in Kind : plan = <<x>>
      BY <1>4
    <2>2. <<x>> \in Seq(Kind) /\ Len(<<x>>) = 1 /\ Head(<<x>>) = x /\ <<x>> # <<>>
      OBVIOUS
    <2>3. ~(Len(plan) > 1)
      BY <2>1, <2>2
    <2> HIDE DEF Kind
    <2> QED
      BY <2>1, <2>2, <2>3 DEF Kind
  <1> QED
    BY <1>2, <1>3, <1>4

-----------------------------------------------------------------------------
\* The invariant.

\* A reply leaves the record of a call of its type.
LEMMA RepliesTyped ==
  ASSUME NEW s \in RemoteCall, NEW status \in Served
  PROVE  /\ \A v \in 0..MaxVersion : [s EXCEPT !.sent = status, !.base = v] \in RemoteCall
         /\ \A n \in Nat : [s EXCEPT !.sent = status, !.applied = n] \in RemoteCall
  BY DEF RemoteCall

\* So does the first request.
LEMMA CallsTyped ==
  ASSUME NEW plan \in Seq({"read"} \cup Effects), NEW accepts \in SUBSET Served
  PROVE  [NoCall EXCEPT !.todo = plan, !.accepts = accepts, !.at = "wait", !.sent = "asked"]
            \in RemoteCall
  <1>1. NoCall \in RemoteCall
    BY RemoteAssumption DEF RemoteCall, NoCall
  <1> QED
    BY <1>1 DEF RemoteCall

\* The initial states satisfy the invariant of the tool calls.
LEMMA RemoteInitInv == RemoteInit => RemoteInv
  BY RemoteAssumption DEF RemoteInit, RemoteInv, RemoteTypeOK, NoCall, EffectOf, Served

\* A step of one call, whose record after it is of its type and true.
LEMMA OneCallSteps ==
  ASSUME RemoteInv, NEW c \in ToolCall, NEW r \in RemoteCall, EffectOf(r),
         remote' = [remote EXCEPT ![c] = r], version' \in 1..MaxVersion
  PROVE  RemoteInv'
  <1>1. /\ remote' \in [ToolCall -> RemoteCall]
        /\ \A d \in ToolCall : remote'[d] = IF d = c THEN r ELSE remote[d]
    BY DEF RemoteInv, RemoteTypeOK, RemoteCall
  <1>2. \A d \in ToolCall : EffectOf(remote'[d])
    BY <1>1 DEF RemoteInv
  <1>3. \A d \in ToolCall : EffectOf(remote[d])'
    BY <1>2 DEF EffectOf
  <1> QED
    BY <1>1, <1>3 DEF RemoteInv, RemoteTypeOK, RemoteCall

\* Every step of a tool call preserves it.
LEMMA RemoteNextInv == RemoteInv /\ [RemoteNext]_remoteVars => RemoteInv'
  <1> SUFFICES ASSUME RemoteInv, [RemoteNext]_remoteVars PROVE RemoteInv'
    OBVIOUS
  <1>v. version \in 1..MaxVersion /\ MaxVersion \in Nat
    BY RemoteAssumption DEF RemoteInv, RemoteTypeOK
  <1>0. ASSUME NEW c \in ToolCall
        PROVE  remote[c] \in RemoteCall /\ EffectOf(remote[c])
    BY DEF RemoteInv, RemoteTypeOK, RemoteCall
  <1>1. ASSUME NEW c \in ToolCall, NEW tools \in Toolsets, NEW tool \in DOMAIN tools,
               CallTool(c, tools, tool)
        PROVE  RemoteInv'
    <2> DEFINE r == [NoCall EXCEPT !.todo = tools[tool], !.accepts = Accepted(tools),
                                   !.at = "wait", !.sent = "asked"]
    <2>1. tools[tool] \in Rests /\ Accepted(tools) \subseteq Served
      BY EffectsComeLast, AcceptedAreServed DEF Rests
    <2>2. tools[tool] \in Seq({"read"} \cup Effects)
      BY <2>1, ShapesOfRests
    <2>3. r \in RemoteCall
      BY <2>1, <2>2, CallsTyped
    <2>4. EffectOf(r)
      BY <2>1 DEF NoCall, EffectOf, Served
    <2>5. remote' = [remote EXCEPT ![c] = r] /\ version' = version
      BY <1>1 DEF CallTool
    <2> HIDE DEF r
    <2> QED
      BY <1>v, <2>3, <2>4, <2>5, OneCallSteps
  <1>2. ASSUME NEW c \in ToolCall, ToolRefused(c) PROVE RemoteInv'
    <2> DEFINE r == [remote[c] EXCEPT !.at = "error"]
    <2>1. r \in RemoteCall
      BY <1>0 DEF RemoteCall
    <2>2. EffectOf(r)
      BY <1>0 DEF EffectOf, RemoteCall
    <2>3. remote' = [remote EXCEPT ![c] = r] /\ version' = version
      BY <1>2 DEF ToolRefused
    <2> HIDE DEF r
    <2> QED
      BY <1>v, <2>1, <2>2, <2>3, OneCallSteps
  <1>3. ASSUME NEW c \in ToolCall, ServeRead(c) PROVE RemoteInv'
    <2> PICK status \in Served :
          remote' = [remote EXCEPT ![c].sent = status, ![c].base = version]
      BY <1>3 DEF ServeRead
    <2> DEFINE r == [remote[c] EXCEPT !.sent = status, !.base = version]
    <2>1. r \in RemoteCall
      <3>1. version \in 0..MaxVersion
        BY <1>v
      <3> QED
        BY <1>0, <3>1, RepliesTyped
    <2>2. EffectOf(r)
      BY <1>0, <1>3 DEF ServeRead, Asks, EffectOf, RemoteCall, Effects, Served
    <2>3. remote' = [remote EXCEPT ![c] = r] /\ version' = version
      BY <1>3, <1>0 DEF ServeRead, RemoteInv, RemoteTypeOK
    <2> HIDE DEF r
    <2> QED
      BY <1>v, <2>1, <2>2, <2>3, OneCallSteps
  <1>4. ASSUME NEW c \in ToolCall, ServeEffect(c) PROVE RemoteInv'
    <2> PICK status \in Served :
          remote' = [remote EXCEPT ![c].sent = status, ![c].applied = @ + 1]
      BY <1>4 DEF ServeEffect
    <2> DEFINE n == remote[c].applied + 1
               r == [remote[c] EXCEPT !.sent = status, !.applied = n]
    <2>1. r \in RemoteCall
      <3>1. n \in Nat
        BY <1>0 DEF RemoteCall
      <3> HIDE DEF n
      <3> QED
        BY <1>0, <3>1, RepliesTyped
    <2>2. EffectOf(r)
      BY <1>0, <1>4 DEF ServeEffect, Asks, EffectOf, RemoteCall, Served
    <2>3. remote' = [remote EXCEPT ![c] = r]
      BY <1>4, <1>0 DEF RemoteInv, RemoteTypeOK
    <2>4. version' \in 1..MaxVersion
      BY <1>v, <1>4 DEF ServeEffect
    <2> HIDE DEF r
    <2> QED
      BY <2>1, <2>2, <2>3, <2>4, OneCallSteps
  <1>5. ASSUME NEW c \in ToolCall, ServeRefusal(c) PROVE RemoteInv'
    <2> DEFINE r == [remote[c] EXCEPT !.sent = "4xx"]
    <2>1. r \in RemoteCall
      BY <1>0 DEF RemoteCall
    <2>2. EffectOf(r)
      BY <1>0, <1>5 DEF ServeRefusal, Asks, EffectOf, RemoteCall, Served
    <2>3. remote' = [remote EXCEPT ![c] = r] /\ version' = version
      BY <1>5 DEF ServeRefusal
    <2> HIDE DEF r
    <2> QED
      BY <1>v, <2>1, <2>2, <2>3, OneCallSteps
  <1>6. ASSUME NEW c \in ToolCall, Replied(c) PROVE RemoteInv'
    <2> DEFINE s == remote[c]
               r == IF s.sent \notin s.accepts THEN [s EXCEPT !.at = "error"]
                    ELSE IF Len(s.todo) > 1 THEN [s EXCEPT !.todo = Tail(s.todo), !.sent = "asked"]
                    ELSE [s EXCEPT !.at = "ok"]
    <2>1. s \in RemoteCall /\ EffectOf(s) /\ s.todo \in Rests /\ s.at = "wait" /\ s.sent # "asked"
      BY <1>0, <1>6 DEF Replied, EffectOf
    <2>2. Len(s.todo) > 1 => Tail(s.todo) \in Rests /\ Head(s.todo) = "read"
                             /\ Tail(s.todo) \in Seq({"read"} \cup Effects)
      BY <2>1, ShapesOfRests
    <2>3. s.accepts \subseteq Served
      BY <2>1 DEF RemoteCall
    <2>4. remote' = [remote EXCEPT ![c] = r] /\ version' = version
      BY <1>6 DEF Replied
    <2> HIDE DEF s
    <2>5. r \in RemoteCall
      BY <2>1, <2>2 DEF RemoteCall
    <2>6. EffectOf(r)
      BY <2>1, <2>2, <2>3 DEF EffectOf, RemoteCall, Served, Effects
    <2> HIDE DEF r
    <2> QED
      BY <1>v, <2>4, <2>5, <2>6, OneCallSteps
  <1>7. ASSUME NEW c \in ToolCall, GivesUp(c) PROVE RemoteInv'
    <2> DEFINE r == [remote[c] EXCEPT !.at = "error"]
    <2>1. r \in RemoteCall
      BY <1>0 DEF RemoteCall
    <2>2. EffectOf(r)
      BY <1>0 DEF EffectOf, RemoteCall
    <2>3. remote' = [remote EXCEPT ![c] = r] /\ version' = version
      BY <1>7 DEF GivesUp
    <2> HIDE DEF r
    <2> QED
      BY <1>v, <2>1, <2>2, <2>3, OneCallSteps
  <1>8. CASE OtherEdit
    BY <1>8, <1>v DEF OtherEdit, RemoteInv, RemoteTypeOK, EffectOf
  <1>9. CASE UNCHANGED remoteVars
    BY <1>9 DEF remoteVars, RemoteInv, RemoteTypeOK, EffectOf
  <1> QED
    BY <1>1, <1>2, <1>3, <1>4, <1>5, <1>6, <1>7, <1>8, <1>9 DEF RemoteNext

\* So it holds in every behaviour.
LEMMA RemoteInvariant == RemoteSpec => []RemoteInv
  BY RemoteInitInv, RemoteNextInv, PTL DEF RemoteSpec

\* The variables of the tools' model have their types.
THEOREM RemoteTypeCorrect == RemoteSpec => []RemoteTypeOK
  <1>1. RemoteInv => RemoteTypeOK
    BY DEF RemoteInv
  <1> QED
    BY <1>1, RemoteInvariant, PTL

\* A tool that reports success has had its effect.
THEOREM SuccessesAreApplied == RemoteSpec => []SuccessIsApplied
  <1>1. RemoteInv => SuccessIsApplied
    BY DEF RemoteInv, EffectOf, SuccessIsApplied
  <1> QED
    BY <1>1, RemoteInvariant, PTL

\* No call has its effect twice, though the service may serve a request whose
\* client gave up.
THEOREM NoEffectTwice == RemoteSpec => []NothingTwice
  <1>1. RemoteInv => NothingTwice
    BY DEF RemoteInv, EffectOf, NothingTwice
  <1> QED
    BY <1>1, RemoteInvariant, PTL

-----------------------------------------------------------------------------
\* ServiceLifecycle.

\* Past gather, every part is over; and no channel is stopped before.
StopInv ==
    /\ ServiceTypeOK
    /\ main \notin {"wait", "gather"} => \A p \in Parts : partState[p] = "over"
    /\ stopped > 0 => main \notin {"wait", "gather"}

\* The initial states satisfy the invariant of the service.
LEMMA ServiceInitInv == ServiceInit => StopInv
  <1> SUFFICES ASSUME ServiceInit PROVE StopInv
    OBVIOUS
  <1>1. Len(Channels) \in Nat
    BY ServiceAssumption, LenProperties
  <1>2. partState \in [Parts -> {"running", "cancelled", "over"}]
    BY DEF ServiceInit
  <1>3. stopped \in 0..Len(Channels) /\ ~(stopped > 0)
    BY <1>1 DEF ServiceInit
  <1> QED
    BY <1>2, <1>3 DEF ServiceInit, StopInv, ServiceTypeOK

\* Every step of the service preserves it.
LEMMA ServiceNextInv == StopInv /\ [ServiceNext]_serviceVars => StopInv'
  <1> SUFFICES ASSUME StopInv, [ServiceNext]_serviceVars PROVE StopInv'
    OBVIOUS
  <1>n. Len(Channels) \in Nat
    BY ServiceAssumption, LenProperties
  <1> USE DEF StopInv, ServiceTypeOK
  <1>1. CASE Signal
    BY <1>1 DEF Signal
  <1>2. CASE Wakes
    BY <1>2, <1>n DEF Wakes
  <1>3. CASE Gathered
    BY <1>3 DEF Gathered
  <1>4. CASE StopNext
    BY <1>4, <1>n DEF StopNext
  <1>5. CASE Returns
    BY <1>5 DEF Returns
  <1>6. CASE LoopEnds
    BY <1>6 DEF LoopEnds
  <1>7. ASSUME NEW p \in Parts, CancelDelivered(p) PROVE StopInv'
    BY <1>7 DEF CancelDelivered
  <1>8. ASSUME NEW p \in Parts, PartEnds(p) PROVE StopInv'
    BY <1>8 DEF PartEnds
  <1>9. CASE UNCHANGED serviceVars
    BY <1>9 DEF serviceVars
  <1> QED
    BY <1>1, <1>2, <1>3, <1>4, <1>5, <1>6, <1>7, <1>8, <1>9 DEF ServiceNext, ServiceStep

\* The variables of the service's model have their types.
THEOREM ServiceTypeCorrect == ServiceSpec => []ServiceTypeOK
  <1>1. StopInv => ServiceTypeOK
    BY DEF StopInv
  <1> QED
    BY <1>1, ServiceInitInv, ServiceNextInv, PTL DEF ServiceSpec

\* A channel is stopped only when the server and every channel have ended.
THEOREM ChannelsStopLast == ServiceSpec => []StopsComeLast
  <1>1. StopInv => StopsComeLast
    BY DEF StopInv, StopsComeLast
  <1> QED
    BY <1>1, ServiceInitInv, ServiceNextInv, PTL DEF ServiceSpec

-----------------------------------------------------------------------------
\* UsageLog.

\* The file ends in a newline, or is empty.
Ended == lines = <<>> \/ Last(Last(lines)) = "whole"

\* What the next record may still cost: the last line, if it is a record that
\* wants its newline, counts until then.
Debt == IF Ended THEN 0 ELSE IF Last(lines) = <<"bare">> THEN 2 ELSE 1

\* A line has a piece at least.
Lines == Seq(Piece) \ {<<>>}

\* As many lines as records at most, and every record counts but two for each
\* torn write, and but for the debt.
UsageInv ==
    /\ UsageTypeOK
    /\ lines \in Seq(Lines)
    /\ Len(lines) <= recorded
    /\ recorded + Debt <= summarize + 2 * torn

\* The lines of a file that summarize counts.
ReadableIn(L) == {i \in DOMAIN L : Readable(L[i])}

\* The readable lines are finitely many, at most as many as the lines.
LEMMA ReadableLines ==
  ASSUME NEW L \in Seq(Lines)
  PROVE  /\ IsFiniteSet(ReadableIn(L))
         /\ Cardinality(ReadableIn(L)) \in Nat
         /\ Cardinality(ReadableIn(L)) <= Len(L)
  <1>1. Len(L) \in Nat /\ DOMAIN L = 1..Len(L)
    BY LenProperties
  <1>2. IsFiniteSet(1..Len(L)) /\ Cardinality(1..Len(L)) = Len(L)
    BY <1>1, FS_Interval
  <1>3. ReadableIn(L) \in SUBSET (1..Len(L))
    BY <1>1 DEF ReadableIn
  <1> QED
    BY <1>2, <1>3, FS_Subset, FS_CardinalityType

\* A new line counts if it can be read.
LEMMA LineAdded ==
  ASSUME NEW L \in Seq(Lines), NEW line \in Lines
  PROVE  /\ Append(L, line) \in Seq(Lines)
         /\ Len(Append(L, line)) = Len(L) + 1
         /\ Last(Append(L, line)) = line
         /\ Cardinality(ReadableIn(Append(L, line))) =
               Cardinality(ReadableIn(L)) + (IF Readable(line) THEN 1 ELSE 0)
  <1> DEFINE M == Append(L, line)
  <1>1. /\ Len(L) \in Nat /\ DOMAIN L = 1..Len(L)
        /\ M \in Seq(Lines) /\ Len(M) = Len(L) + 1 /\ DOMAIN M = 1..(Len(L) + 1)
        /\ \A i \in 1..Len(L) : M[i] = L[i]
        /\ M[Len(L) + 1] = line
    BY LenProperties, AppendProperties
  <1>2. CASE Readable(line)
    <2>1. ReadableIn(M) = ReadableIn(L) \cup {Len(L) + 1} /\ Len(L) + 1 \notin ReadableIn(L)
      BY <1>1, <1>2 DEF ReadableIn
    <2> QED
      BY <1>1, <1>2, <2>1, ReadableLines, FS_AddElement DEF Last
  <1>3. CASE ~Readable(line)
    <2>1. ReadableIn(M) = ReadableIn(L)
      BY <1>1, <1>3 DEF ReadableIn
    <2> QED
      BY <1>1, <1>3, <2>1, ReadableLines DEF Last
  <1> QED
    BY <1>2, <1>3

\* A line that goes on cannot be read, and counted before only if it could.
LEMMA LineContinued ==
  ASSUME NEW L \in Seq(Lines), L # <<>>, NEW piece \in Piece
  PROVE  LET M == Append(Front(L), Append(Last(L), piece))
         IN  /\ M \in Seq(Lines)
             /\ Len(M) = Len(L)
             /\ Last(M) = Append(Last(L), piece)
             /\ Last(Last(M)) = piece
             /\ ~Readable(Last(M))
             /\ Cardinality(ReadableIn(M)) =
                   Cardinality(ReadableIn(L)) - (IF Readable(Last(L)) THEN 1 ELSE 0)
  <1> DEFINE n == Len(L)
             line == Append(Last(L), piece)
             M == Append(Front(L), line)
  <1>1. /\ n \in Nat \ {0} /\ DOMAIN L = 1..n
        /\ Last(L) \in Lines /\ Last(L) = L[n]
    BY LenProperties, EmptySeq DEF Last
  <1>2. /\ line \in Lines /\ Len(line) = Len(Last(L)) + 1 /\ Len(Last(L)) \in Nat \ {0}
        /\ Last(line) = piece
    BY <1>1, LenProperties, AppendProperties, EmptySeq DEF Last, Lines
  <1>3. ~Readable(line)
    <2>1. Len(line) # 1
      BY <1>2
    <2> HIDE DEF line
    <2> QED
      BY <2>1 DEF Readable
  <1>4. /\ Front(L) \in Seq(Lines) /\ Len(Front(L)) = n - 1
        /\ \A i \in 1..(n - 1) : Front(L)[i] = L[i]
    BY <1>1, SubSeqProperties DEF Front
  <1> HIDE DEF n, line
  <1>5. /\ M \in Seq(Lines) /\ Len(M) = n /\ DOMAIN M = 1..n
        /\ \A i \in 1..(n - 1) : M[i] = L[i]
        /\ M[n] = line
    BY <1>1, <1>2, <1>4, LenProperties, AppendProperties
  <1> HIDE DEF M
  <1>6. ReadableIn(M) = ReadableIn(L) \ {n} /\ (n \in ReadableIn(L) <=> Readable(Last(L)))
    BY <1>1, <1>3, <1>5 DEF ReadableIn
  <1>7. Cardinality(ReadableIn(M)) =
                   Cardinality(ReadableIn(L)) - (IF Readable(Last(L)) THEN 1 ELSE 0)
    <2>1. IsFiniteSet(ReadableIn(L)) /\ Cardinality(ReadableIn(L)) \in Nat
      BY ReadableLines
    <2>2. Cardinality(ReadableIn(L) \ {n}) =
             IF n \in ReadableIn(L) THEN Cardinality(ReadableIn(L)) - 1
                                   ELSE Cardinality(ReadableIn(L))
      BY <2>1, FS_RemoveElement
    <2> QED
      BY <1>6, <2>1, <2>2
  <1>8. Last(M) = line
    BY <1>5 DEF Last
  <1> QED
    BY <1>2, <1>3, <1>5, <1>7, <1>8 DEF M, line, n

\* The initial states satisfy the invariant of the usage log.
LEMMA UsageInitInv == UsageInit => UsageInv
  <1> SUFFICES ASSUME UsageInit PROVE UsageInv
    OBVIOUS
  <1>1. lines = <<>> /\ recorded = 0 /\ torn = 0
    BY DEF UsageInit
  <1>2. lines \in Seq(Lines) /\ lines \in Seq(Seq(Piece)) /\ Len(lines) = 0 /\ ReadableIn(lines) = {}
    BY <1>1 DEF ReadableIn
  <1>3. summarize = 0
    BY <1>2, FS_EmptySet DEF summarize, ReadableIn
  <1> QED
    BY <1>1, <1>2, <1>3, UsageAssumption DEF UsageInv, UsageTypeOK, Debt, Ended

\* Every step of a writer preserves it.
LEMMA UsageNextInv == UsageInv /\ [UsageNext]_usageVars => UsageInv'
  <1> SUFFICES ASSUME UsageInv, [UsageNext]_usageVars PROVE UsageInv'
    OBVIOUS
  <1>t. /\ recorded \in Nat /\ torn \in Nat /\ torn <= recorded
        /\ recorded + Debt <= summarize + 2 * torn
        /\ Len(lines) <= recorded /\ lines \in Seq(Lines)
    BY UsageAssumption DEF UsageInv, UsageTypeOK
  <1>s. summarize = Cardinality(ReadableIn(lines)) /\ summarize' = Cardinality(ReadableIn(lines'))
    BY DEF summarize, ReadableIn, Readable
  <1>l. \A L : L \in Seq(Lines) => L \in Seq(Seq(Piece))
    BY DEF Lines
  <1>1. ASSUME NEW piece \in Piece, Record(piece) PROVE UsageInv'
    <2>1. /\ recorded' = recorded + 1 /\ recorded' <= MaxRecords
          /\ torn' = IF piece = "whole" THEN torn ELSE torn + 1
      BY <1>1, <1>t, UsageAssumption DEF Record
    <2>2. CASE Ended
      <3>1. lines' = Append(lines, <<piece>>)
        BY <1>1, <2>2 DEF Record, Ended
      <3>2. <<piece>> \in Lines /\ Last(<<piece>>) = piece /\ (Readable(<<piece>>) <=> piece # "torn")
        BY DEF Lines, Last, Readable, Piece
      <3>3. /\ lines' \in Seq(Lines) /\ Len(lines') = Len(lines) + 1
            /\ Last(lines') = <<piece>>
            /\ summarize' = summarize + (IF piece # "torn" THEN 1 ELSE 0)
        BY <1>t, <1>s, <3>1, <3>2, LineAdded
      <3>4. Debt = 0 /\ (lines' # <<>>)
        BY <1>t, <2>2, <3>3, LenProperties, EmptySeq DEF Debt
      <3>5. Debt' = IF piece = "whole" THEN 0 ELSE IF piece = "bare" THEN 2 ELSE 1
        BY <3>2, <3>3, <3>4 DEF Debt, Ended
      <3> QED
        BY <1>t, <1>l, <1>s, <2>1, <3>3, <3>4, <3>5, ReadableLines, LenProperties, UsageAssumption
        DEF UsageInv, UsageTypeOK, Piece
    <2>3. CASE ~Ended
      <3>1. lines' = Append(Front(lines), Append(Last(lines), piece)) /\ lines # <<>>
        BY <1>1, <2>3 DEF Record, Ended
      <3>2. /\ lines' \in Seq(Lines) /\ Len(lines') = Len(lines)
            /\ Last(Last(lines')) = piece /\ ~Readable(Last(lines'))
            /\ summarize' = summarize - (IF Readable(Last(lines)) THEN 1 ELSE 0)
        BY <1>t, <1>s, <3>1, LineContinued
      <3>3. /\ Readable(Last(lines)) <=> Last(lines) = <<"bare">>
            /\ Debt = IF Readable(Last(lines)) THEN 2 ELSE 1
        <4>1. Last(<<"whole">>) = "whole"
          BY DEF Last
        <4> QED
          BY <2>3, <3>1, <4>1 DEF Debt, Ended, Readable
      <3>4. Debt' = IF piece = "whole" THEN 0 ELSE 1
        <4>1. lines' # <<>>
          BY <1>t, <3>1, <3>2, LenProperties, EmptySeq
        <4> QED
          BY <3>2, <4>1 DEF Debt, Ended, Readable
      <3> QED
        BY <1>t, <1>l, <1>s, <2>1, <3>2, <3>3, <3>4, ReadableLines, LenProperties, UsageAssumption
        DEF UsageInv, UsageTypeOK, Piece
    <2> QED
      BY <2>2, <2>3
  <1>2. CASE UNCHANGED usageVars
    BY <1>2 DEF usageVars, UsageInv, UsageTypeOK, Debt, Ended, summarize, Readable
  <1> QED
    BY <1>1, <1>2 DEF UsageNext

\* The variables of the usage log have their types.
THEOREM UsageTypeCorrect == UsageSpec => []UsageTypeOK
  <1>1. UsageInv => UsageTypeOK
    BY DEF UsageInv
  <1> QED
    BY <1>1, UsageInitInv, UsageNextInv, PTL DEF UsageSpec

\* A write that stops short costs its own record and at most the next one, and
\* no record is counted that was not written.
THEOREM TornRecordsCostTwo == UsageSpec => []TornWritesCostTwo
  <1>1. UsageInv => TornWritesCostTwo
    <2> SUFFICES ASSUME UsageInv PROVE TornWritesCostTwo
      OBVIOUS
    <2>1. summarize = Cardinality(ReadableIn(lines))
      BY DEF summarize, ReadableIn
    <2> QED
      BY <2>1, ReadableLines, LenProperties, UsageAssumption
      DEF UsageInv, UsageTypeOK, TornWritesCostTwo, Debt
  <1> QED
    BY <1>1, UsageInitInv, UsageNextInv, PTL DEF UsageSpec

-----------------------------------------------------------------------------
\* SlackText.

\* The chunks are the text up to where it is cut.
TextInv ==
    /\ SlackTextTypeOK /\ ChunksAreTheText
    /\ \A i \in DOMAIN text.chunks : text.chunks[i][2] < text.rest

\* A set of numbers has its least, and its greatest if it is bounded.
LEMMA LeastOf ==
  ASSUME NEW S \in SUBSET Nat, S # {}
  PROVE  Min(S) \in S /\ \A x \in S : Min(S) <= x
  <1>1. PICK m \in S : \A x \in S : ~ (<<x, m>> \in OpToRel(<, Nat))
    BY WFMin, NatLessThanWellFounded
  <1>2. \A x \in S : ~(x < m)
    BY <1>1 DEF OpToRel
  <1>3. \A x \in S : m <= x
    BY <1>2
  <1> QED
    BY <1>3 DEF Min

\* The greatest of a bounded set of numbers.
LEMMA GreatestOf ==
  ASSUME NEW S \in SUBSET Nat, S # {}, NEW b \in Nat, \A x \in S : x <= b
  PROVE  Max(S) \in S /\ \A x \in S : Max(S) >= x
  <1> DEFINE D == {d \in Nat : b - d \in S}
  <1>1. PICK s \in S : TRUE
    OBVIOUS
  <1>2. b - s \in D
    OBVIOUS
  <1>3. Min(D) \in D /\ \A d \in D : Min(D) <= d
    BY <1>2, LeastOf
  <1>4. \E m \in S : \A x \in S : m >= x
    <2>1. b - Min(D) \in S
      BY <1>3
    <2>2. ASSUME NEW x \in S PROVE b - Min(D) >= x
      <3>1. b - x \in D
        OBVIOUS
      <3> QED
        BY <1>3, <3>1
    <2> QED
      BY <2>1, <2>2
  <1> QED
    BY <1>4 DEF Max

\* A sequence of some values is one of more.
LEMMA SeqOfMore ==
  ASSUME NEW S, NEW T, S \subseteq T, NEW s \in Seq(S)
  PROVE  s \in Seq(T)
  <1>1. Len(s) \in Nat /\ s \in [1..Len(s) -> T]
    BY LenProperties
  <1> QED
    BY <1>1, SeqDef

\* The types of the text's fields.
LEMMA TextFacts ==
  ASSUME SlackTextTypeOK
  PROVE  /\ text.rest \in Nat \ {0} /\ text.max \in Nat \ {0} /\ text.len \in 0..MaxText
         /\ text.len \in Nat /\ MaxText \in Nat /\ text.max \in MaxLens \cup {1}
         /\ text.newlines \in SUBSET (1..MaxText) /\ text.newlines \subseteq 1..text.len
         /\ text.rest <= text.len + 1
         /\ text.chunks \in Seq((1..MaxText) \X (1..MaxText))
  <1>1. /\ text.rest \in 1..(MaxText + 1) /\ text.len \in 0..MaxText
        /\ text.rest <= text.len + 1 /\ text.newlines \subseteq 1..text.len
    BY DEF SlackTextTypeOK
  <1>2. text.max \in MaxLens \cup {1}
    BY DEF SlackTextTypeOK
  <1>3. /\ text.newlines \in SUBSET (1..MaxText)
        /\ text.chunks \in Seq((1..MaxText) \X (1..MaxText))
    BY DEF SlackTextTypeOK
  <1>4. text.max \in Nat \ {0}
    <2>1. CASE text.max = 1
      BY <2>1
    <2>2. CASE text.max \in MaxLens
      BY <2>2, TextAssumption, Zenon
    <2> QED
      BY <1>2, <2>1, <2>2
  <1>5. text.rest \in Nat \ {0} /\ text.len \in Nat /\ MaxText \in Nat
    BY <1>1, TextAssumption
  <1> QED
    BY <1>1, <1>2, <1>3, <1>4, <1>5

\* A chunk has a character at least, and the limit at most.
LEMMA CutFits ==
  ASSUME SlackTextTypeOK, text.rest + text.max <= text.len
  PROVE  /\ Cut(text) \in Nat
         /\ text.rest < Cut(text) /\ Cut(text) <= text.rest + text.max
  <1> DEFINE N == {p \in text.newlines : text.rest < p /\ p < text.rest + text.max}
  <1>1. /\ text.rest \in Nat \ {0} /\ text.max \in Nat \ {0} /\ text.len \in Nat
        /\ text.newlines \subseteq Nat
    BY TextFacts
  <1>2. CASE N = {}
    BY <1>1, <1>2 DEF Cut
  <1>3. CASE N # {}
    <2>1. N \in SUBSET Nat /\ \A p \in N : p <= text.rest + text.max
      BY <1>1
    <2>2. Max(N) \in N
      <3>1. text.rest + text.max \in Nat
        BY <1>1
      <3> HIDE DEF N
      <3> QED
        BY <3>1, <1>3, <2>1, GreatestOf
    <2>3. Cut(text) = Max(N)
      BY <1>3 DEF Cut
    <2> QED
      BY <1>1, <2>2, <2>3
  <1> QED
    BY <1>2, <1>3

\* Between a chunk and the next there are only newlines.
LEMMA SkipsNewlines ==
  ASSUME SlackTextTypeOK, NEW p \in Nat \ {0}, p <= text.len
  PROVE  /\ Skip(text, p) \in p..(text.len + 1)
         /\ \A q \in p..(Skip(text, p) - 1) : q \in text.newlines
  <1> DEFINE Q == {q \in p..(text.len + 1) : q \notin text.newlines}
  <1>1. text.len \in Nat /\ text.newlines \subseteq 1..text.len
    BY TextFacts
  <1>2. Q \in SUBSET Nat /\ text.len + 1 \in Q
    BY <1>1
  <1>3. Skip(text, p) = Min(Q)
    BY DEF Skip
  <1>4. Skip(text, p) \in Q /\ \A q \in Q : Skip(text, p) <= q
    <2> HIDE DEF Q
    <2> QED
      BY <1>2, <1>3, LeastOf
  <1> QED
    BY <1>1, <1>4

\* What is asked of the chunks of a text cut up to r.
WellCut(ch, r, max, newlines) ==
    /\ \A i \in DOMAIN ch : /\ 0 < ch[i][2] + 1 - ch[i][1] /\ ch[i][2] + 1 - ch[i][1] <= max
                             /\ ch[i][2] < r
    /\ \A i, j \in DOMAIN ch : i < j => ch[i][2] < ch[j][1]
    /\ \A p \in 1..(r - 1) \ newlines : \E i \in DOMAIN ch : ch[i][1] <= p /\ p <= ch[i][2]

\* Cutting from f to e, where only newlines are between e and r.
LEMMA ChunkAdded ==
  ASSUME NEW ch \in Seq(Nat \X Nat), NEW f \in Nat, NEW e \in Nat, NEW r \in Nat,
         NEW max \in Nat, NEW newlines, WellCut(ch, f, max, newlines),
         f <= e, e < f + max, e < r, \A q \in (e + 1)..(r - 1) : q \in newlines
  PROVE  WellCut(Append(ch, <<f, e>>), r, max, newlines)
  <1> PICK n \in Nat : n = Len(ch)
    BY LenProperties
  <1>1. DOMAIN ch = 1..n /\ \A i \in 1..n : ch[i][1] \in Nat /\ ch[i][2] \in Nat
    <2>1. DOMAIN ch = 1..n /\ \A i \in 1..n : ch[i] \in Nat \X Nat
      BY LenProperties
    <2> QED
      BY <2>1
  <1> PICK new \in Seq(Nat \X Nat) : new = Append(ch, <<f, e>>)
    BY AppendProperties
  <1>2. DOMAIN new = 1..(n + 1) /\ \A i \in 1..n : new[i] = ch[i]
    BY AppendProperties, LenProperties
  <1>3. new[n + 1][1] = f /\ new[n + 1][2] = e
    <2>1. new[n + 1] = <<f, e>>
      BY AppendProperties
    <2> QED
      BY <2>1
  <1>4. \A i \in DOMAIN new : i \in 1..n \/ i = n + 1
    BY <1>2
  <1>5. ASSUME NEW i \in DOMAIN new
        PROVE  /\ 0 < new[i][2] + 1 - new[i][1] /\ new[i][2] + 1 - new[i][1] <= max
               /\ new[i][2] < r
    <2>1. CASE i \in 1..n
      BY <1>1, <1>2, <2>1 DEF WellCut
    <2>2. CASE i = n + 1
      BY <1>3, <2>2
    <2> QED
      BY <1>4, <2>1, <2>2
  <1>6. ASSUME NEW i \in DOMAIN new, NEW j \in DOMAIN new, i < j
        PROVE  new[i][2] < new[j][1]
    <2>1. i \in 1..n
      BY <1>2, <1>6
    <2>2. CASE j \in 1..n
      BY <1>1, <1>2, <1>6, <2>1, <2>2 DEF WellCut
    <2>3. CASE j = n + 1
      BY <1>1, <1>2, <1>3, <2>1, <2>3 DEF WellCut
    <2> QED
      BY <1>4, <2>2, <2>3
  <1>7. ASSUME NEW p \in 1..(r - 1), p \notin newlines
        PROVE  \E i \in DOMAIN new : new[i][1] <= p /\ p <= new[i][2]
    <2>1. CASE p < f
      <3>1. p \in 1..(f - 1) \ newlines
        BY <1>7, <2>1
      <3>2. PICK i \in 1..n : ch[i][1] <= p /\ p <= ch[i][2]
        BY <1>1, <3>1 DEF WellCut
      <3>3. i \in DOMAIN new /\ new[i] = ch[i]
        BY <1>2
      <3> QED
        BY <3>2, <3>3
    <2>2. CASE f <= p
      <3>1. p <= e
        BY <1>7, <2>2
      <3>2. n + 1 \in DOMAIN new
        BY <1>2
      <3> QED
        BY <1>3, <2>2, <3>1, <3>2
    <2>3. p < f \/ f <= p
      BY <1>7
    <2> QED
      BY <2>1, <2>2, <2>3
  <1> QED
    BY <1>5, <1>6, <1>7 DEF WellCut

\* The invariant is that the chunks are well cut.
LEMMA InvIsWellCut ==
  TextInv <=> SlackTextTypeOK /\ WellCut(text.chunks, text.rest, text.max, text.newlines)
  BY DEF TextInv, WellCut, ChunksAreTheText

\* A cut keeps the invariant.
LEMMA CutKeeps ==
  ASSUME TextInv, NEW e \in Nat, NEW r \in Nat, r <= text.len + 1,
         text.rest <= e, e < text.rest + text.max, e < r,
         \A q \in (e + 1)..(r - 1) : q \in text.newlines,
         NEW chunks, chunks = Append(text.chunks, <<text.rest, e>>),
         text' = [text EXCEPT !.chunks = chunks, !.rest = r]
  PROVE  TextInv'
  <1>1. SlackTextTypeOK /\ WellCut(text.chunks, text.rest, text.max, text.newlines)
    BY InvIsWellCut
  <1>2. /\ text.rest \in Nat \ {0} /\ text.max \in Nat /\ text.len \in 0..MaxText
        /\ MaxText \in Nat /\ text.chunks \in Seq((1..MaxText) \X (1..MaxText))
    BY <1>1, TextFacts
  <1>3. text.chunks \in Seq(Nat \X Nat)
    <2>1. (1..MaxText) \X (1..MaxText) \subseteq Nat \X Nat
      BY <1>2
    <2> QED
      BY <1>2, <2>1, SeqOfMore
  <1>4. WellCut(chunks, r, text.max, text.newlines)
    BY <1>1, <1>2, <1>3, ChunkAdded
  <1>5. chunks \in Seq((1..MaxText) \X (1..MaxText)) /\ r \in 1..(MaxText + 1)
    <2>1. text.rest \in 1..MaxText /\ e \in 1..MaxText /\ r \in 1..(MaxText + 1)
      BY <1>2
    <2>2. <<text.rest, e>> \in (1..MaxText) \X (1..MaxText)
      BY <2>1
    <2> QED
      BY <1>2, <2>1, <2>2, AppendProperties
  <1>6. /\ text' \in [len : 0..MaxText, newlines : SUBSET (1..MaxText), max : MaxLens \cup {1},
                       rest : 1..(MaxText + 1), chunks : Seq((1..MaxText) \X (1..MaxText))]
        /\ text'.len = text.len /\ text'.newlines = text.newlines /\ text'.max = text.max
        /\ text'.rest = r /\ text'.chunks = chunks
    BY <1>1, <1>5 DEF SlackTextTypeOK
  <1>7. SlackTextTypeOK'
    BY <1>1, <1>6 DEF SlackTextTypeOK
  <1>8. WellCut(text.chunks, text.rest, text.max, text.newlines)'
    BY <1>4, <1>6 DEF WellCut
  <1> QED
    BY <1>7, <1>8, InvIsWellCut, PTL

\* The initial states satisfy the invariant of the cut text.
LEMMA TextInitInv == TextInit => TextInv
  <1> SUFFICES ASSUME TextInit PROVE TextInv
    OBVIOUS
  <1>1. text = [len |-> 0, newlines |-> {}, max |-> 1, rest |-> 1, chunks |-> <<>>]
    BY DEF TextInit
  <1>2. SlackTextTypeOK
    BY <1>1, TextAssumption DEF SlackTextTypeOK
  <1>3. DOMAIN text.chunks = {} /\ 1..(text.rest - 1) = {}
    BY <1>1
  <1> QED
    BY <1>2, <1>3 DEF TextInv, ChunksAreTheText

\* Every step of the cutting loop preserves it.
LEMMA TextNextInv == TextInv /\ [TextNext]_text => TextInv'
  <1> SUFFICES ASSUME TextInv, [TextNext]_text PROVE TextInv'
    OBVIOUS
  <1>t. /\ text.rest \in Nat \ {0} /\ text.max \in Nat \ {0} /\ text.len \in Nat
        /\ text.rest <= text.len + 1 /\ SlackTextTypeOK
    BY TextFacts DEF TextInv
  <1>1. ASSUME NEW n \in 1..MaxText, NEW newlines \in SUBSET (1..n), NEW max \in MaxLens,
               TextGiven(n, newlines, max)
        PROVE  TextInv'
    <2>1. text' = [len |-> n, newlines |-> newlines, max |-> max, rest |-> 1, chunks |-> <<>>]
      BY <1>1 DEF TextGiven
    <2>2. n \in 0..MaxText /\ newlines \in SUBSET (1..MaxText) /\ 1 \in 1..(MaxText + 1)
          /\ 1 <= n + 1
      BY TextAssumption
    <2>3. SlackTextTypeOK'
      BY <2>1, <2>2 DEF SlackTextTypeOK
    <2>4. DOMAIN text'.chunks = {} /\ 1..(text'.rest - 1) = {}
      BY <2>1
    <2> QED
      BY <2>3, <2>4 DEF TextInv, ChunksAreTheText
  <1>2. CASE ChunkCut
    <2> PICK c \in Nat : c = Cut(text) /\ text.rest < c /\ c <= text.rest + text.max
      BY <1>2, <1>t, CutFits DEF ChunkCut
    <2>1. c <= text.len /\ c \in Nat \ {0} /\ c - 1 \in Nat
      BY <1>2, <1>t DEF ChunkCut
    <2> PICK r \in c..(text.len + 1) : /\ r = Skip(text, c)
                                       /\ \A q \in c..(r - 1) : q \in text.newlines
      BY <1>t, <2>1, SkipsNewlines
    <2>2. text' = [text EXCEPT !.chunks = Append(@, <<text.rest, c - 1>>), !.rest = r]
      BY <1>2 DEF ChunkCut
    <2>3. r \in Nat /\ r <= text.len + 1 /\ text.rest <= c - 1 /\ c - 1 < text.rest + text.max
          /\ c - 1 < r /\ (c - 1) + 1 = c
      BY <1>t, <2>1
    <2> QED
      BY <2>1, <2>2, <2>3, CutKeeps
  <1>3. CASE ChunkLast
    <2>1. text' = [text EXCEPT !.chunks = Append(@, <<text.rest, text.len>>),
                               !.rest = text.len + 1]
      BY <1>3 DEF ChunkLast
    <2> PICK e \in Nat : e = text.len
      BY <1>t
    <2>2. text.rest <= e /\ e < text.rest + text.max /\ e + 1 \in Nat /\ e < e + 1
          /\ e + 1 <= text.len + 1
      BY <1>3 DEF ChunkLast
    <2>3. \A q \in (e + 1)..(e + 1 - 1) : q \in text.newlines
      OBVIOUS
    <2>4. text' = [text EXCEPT !.chunks = Append(text.chunks, <<text.rest, e>>), !.rest = e + 1]
      BY <2>1
    <2> PICK r \in Nat : r = e + 1
      OBVIOUS
    <2>5. /\ r <= text.len + 1 /\ e < r /\ \A q \in (e + 1)..(r - 1) : q \in text.newlines
          /\ text' = [text EXCEPT !.chunks = Append(text.chunks, <<text.rest, e>>), !.rest = r]
      BY <2>2, <2>3, <2>4
    <2> QED
      BY <2>2, <2>5, CutKeeps
  <1>4. CASE UNCHANGED text
    BY <1>4 DEF TextInv, SlackTextTypeOK, ChunksAreTheText
  <1> QED
    BY <1>1, <1>2, <1>3, <1>4 DEF TextNext

\* The text being cut has its type.
THEOREM TextTypeCorrect == TextSpec => []SlackTextTypeOK
  <1>1. TextInv => SlackTextTypeOK
    BY DEF TextInv
  <1> QED
    BY <1>1, TextInitInv, TextNextInv, PTL DEF TextSpec

\* The chunks are the text: each has a character and fits, and every character
\* but newlines is in exactly one of them.
THEOREM TextsArePosted == TextSpec => []ChunksAreTheText
  <1>1. TextInv => ChunksAreTheText
    BY DEF TextInv
  <1> QED
    BY <1>1, TextInitInv, TextNextInv, PTL DEF TextSpec

-----------------------------------------------------------------------------
\* The composition.

\* One part at a time runs: each of them as it does alone.
LEMMA HomeIsItsParts ==
  HomeSpec => /\ MemorySpec /\ RemoteSpec /\ ForkSpec /\ ServiceSpec
              /\ ReferenceSpec /\ TextSpec /\ UsageSpec
  <1>1. HomeInit => /\ MemoryInit /\ RemoteInit /\ ForkInit /\ ServiceInit
                    /\ ReferenceInit /\ TextInit /\ UsageInit
    BY DEF HomeInit
  <1>2. [HomeNext]_homeVars =>
           /\ [MemoryNext]_memoryVars /\ [RemoteNext]_remoteVars /\ [ForkNext]_forkVars
           /\ [ServiceNext]_serviceVars /\ [ReferenceNext]_referenceVars
           /\ [TextNext]_text /\ [UsageNext]_usageVars
    BY DEF HomeNext, homeVars, OnlyMemory, OnlyRemote, OnlyFork, OnlyService, OnlyReferences,
           OnlyText, OnlyUsage
  <1> QED
    BY <1>1, <1>2, PTL
    DEF HomeSpec, MemorySpec, RemoteSpec, ForkSpec, ServiceSpec, ReferenceSpec, TextSpec, UsageSpec

\* The variables of all the parts have their types.
THEOREM HomeTypeCorrect == HomeSpec => []HomeTypeOK
  <1>1. (/\ MemoryTypeOK /\ RemoteTypeOK /\ ForkTypeOK /\ ServiceTypeOK
         /\ ReferenceTypeOK /\ SlackTextTypeOK /\ UsageTypeOK) => HomeTypeOK
    BY DEF HomeTypeOK
  <1> QED
    BY <1>1, HomeIsItsParts, MemoryTypeCorrect, RemoteTypeCorrect, ForkTypeCorrect,
       ServiceTypeCorrect, ReferenceTypeCorrect, TextTypeCorrect, UsageTypeCorrect, PTL

\* What each part promises alone, it promises in the home.
THEOREM HomeIsSafe ==
  HomeSpec => [](/\ AcknowledgedStays /\ DeletesAreReal /\ SuccessIsApplied /\ NothingTwice
                 /\ BranchesAreClean /\ OneForkCopies /\ StopsComeLast /\ OutcomesAreTrue
                 /\ DepthIsBounded /\ ChunksAreTheText /\ TornWritesCostTwo)
  BY HomeIsItsParts, StoredMemoriesStay, DeletesAreOfMemories, SuccessesAreApplied, NoEffectTwice,
     ForksStartClean, OnlyOneForkCopies, ChannelsStopLast, BuildsAreTrue, ConstructionsAreBounded,
     TextsArePosted, TornRecordsCostTwo, PTL
=============================================================================
