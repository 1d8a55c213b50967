------------------------- MODULE ToolApprovalProofs -------------------------
(***************************************************************************)
(* Proof that no gated tool runs without an approval, for any number of    *)
(* tasks, sessions and tools, when no tool's name is a substring of        *)
(* another's (Distinct).  With names that contain each other it is false:  *)
(* lookup_decision then finds the decision of another tool.                *)
(***************************************************************************)
EXTENDS ToolApproval, TLAPS

Distinct == \A t, u \in Tool : <<t, u>> \in Within => t = u

\* An approved record is an approval not used yet of each call it names.
RecordsUnspent ==
    \A r \in Id :
        store[r] # NoRecord /\ store[r].status = "approved"
            => \A t \in store[r].asks : <<r, t>> \in unspent

\* So is an answer the agent was resumed with.
AnswersUnspent ==
    \A i \in Id : answer[i].verdict = "approved" => <<i, answer[i].tool>> \in unspent

\* A task never has both: its record goes when it is answered.
AnswersUnfiled == \A i \in Id : answer[i] # NoAnswer => store[i] = NoRecord

\* The inductive invariant: what allows a call is paid for once.
IInv ==
    /\ TypeOK
    /\ RecordsUnspent
    /\ AnswersUnspent
    /\ AnswersUnfiled
    /\ RunsArePaid

-----------------------------------------------------------------------------
\* A file that is there holds a record, and a record is a file.
LEMMA FiledRecord ==
    ASSUME TypeOK, NEW r \in Id
    PROVE  store[r] # NoRecord => store[r] \in Record
BY DEF TypeOK

\* The absence of an answer reads as a denial.
LEMMA NoAnswerIsDenied ==
    /\ NoAnswer \in Answer
    /\ NoAnswer.verdict = "denied"
    /\ NoAnswer.tool = NoTool
BY DEF NoAnswer, Answer, Verdict

\* A decision found on file, when names are distinct, names the tool itself.
LEMMA FoundNamesTool ==
    ASSUME Distinct, TypeOK, NEW k \in Key, NEW t \in Tool, NEW r \in Matching(k, t)
    PROVE  /\ r \in Id
           /\ store[r] \in Record
           /\ store[r].status \in Verdict
           /\ t \in store[r].asks
<1>1. /\ r \in Id
      /\ store[r] # NoRecord
      /\ store[r].status \in Verdict
      /\ \E u \in store[r].asks : <<t, u>> \in Within
  BY DEF Matching
<1>2. store[r] \in Record
  BY <1>1, FiledRecord
<1>3. PICK u \in store[r].asks : <<t, u>> \in Within
  BY <1>1
<1>4. u \in Tool
  BY <1>2, <1>3 DEF Record
<1>5. QED
  BY <1>1, <1>2, <1>3, <1>4 DEF Distinct

\* The initial states satisfy the invariant.
LEMMA InitInv == Init => IInv
<1> SUFFICES ASSUME Init PROVE IInv
  OBVIOUS
<1>1. TypeOK
  BY NoAnswerIsDenied DEF Init, TypeOK, Phase, Key, Call, Verdict
<1>2. QED
  BY <1>1, NoAnswerIsDenied
     DEF Init, IInv, RecordsUnspent, AnswersUnspent, AnswersUnfiled, RunsArePaid

-----------------------------------------------------------------------------
\* Types.

\* Every step keeps the types.
LEMMA StepType ==
    ASSUME TypeOK, Next
    PROVE  TypeOK'
<1>a. NoRecord \notin Record /\ NoTool \notin Tool
  BY ToolAssumption DEF Record, Key, Verdict
<1>1. CASE \E i \in Id, k \in Key : Submit(i, k)
  BY <1>1 DEF TypeOK, Submit, Phase
<1>2. CASE \E i \in Id : Start(i) \/ Retry(i) \/ Notified(i)
  BY <1>2 DEF TypeOK, Start, Retry, Notified, Phase
<1>3. CASE \E i \in Id : Finish(i) \/ GiveUp(i)
  BY <1>3, NoAnswerIsDenied DEF TypeOK, Finish, GiveUp, Phase
<1>4. CASE \E i \in Id : Interrupt(i)
  <2>1. PICK i \in Id : Interrupt(i)
    BY <1>4
  <2>2. [key |-> key[i], asks |-> asks[i], status |-> "pending"] \in Record
    BY DEF TypeOK, Record
  <2>3. QED
    BY <2>1, <2>2, NoAnswerIsDenied DEF TypeOK, Interrupt, Phase
<1>5. CASE \E i \in Id, t \in Tool : CallWithDecision(i, t)
  <2>1. PICK i \in Id, t \in Tool : CallWithDecision(i, t)
    BY <1>5
  <2>2. PICK r \in Matching(key[i], t) :
           /\ store' = [store EXCEPT ![r] = NoRecord]
           /\ last' = Called(store[r].status, i, t, r)
           /\ unspent' = unspent \ ({r} \X Tool)
           /\ answer' = [answer EXCEPT ![i] = IF @.tool = t THEN NoAnswer ELSE @]
           /\ UNCHANGED <<phase, key, asks>>
    BY <2>1 DEF CallWithDecision
  <2>3. Said(i, t) \in Verdict \cup {"none"}
    BY DEF Said, TypeOK, Answer
  <2>4. last' \in Call
    BY <2>2, <2>3 DEF Call, Called, TypeOK
  <2>5. QED
    BY <2>2, <2>4, NoAnswerIsDenied DEF TypeOK
<1>6. CASE \E i \in Id, t \in Tool : CallWithAnswer(i, t)
  <2>1. PICK i \in Id, t \in Tool : CallWithAnswer(i, t)
    BY <1>6
  <2>2. Said(i, t) \in Verdict \cup {"none"}
    BY DEF Said, TypeOK, Answer
  <2>3. last' \in Call
    BY <2>1, <2>2 DEF Call, Called, CallWithAnswer, TypeOK
  <2>4. QED
    BY <2>1, <2>3, NoAnswerIsDenied DEF TypeOK, CallWithAnswer
<1>7. CASE \E i \in Id, t \in Tool : CallStopped(i, t)
  BY <1>7 DEF TypeOK, CallStopped
<1>8. CASE \E i \in Id, t \in Tool, v \in Verdict : Respond(i, t, v)
  <2>1. PICK i \in Id, t \in Tool, v \in Verdict : Respond(i, t, v)
    BY <1>8
  <2>2. [tool |-> t, verdict |-> v] \in Answer
    BY DEF Answer
  <2>3. QED
    BY <2>1, <2>2 DEF TypeOK, Respond, Phase
<1>9. CASE \E i, j \in Id, v \in Verdict : Decide(i, j, v)
  <2>1. PICK i, j \in Id, v \in Verdict : Decide(i, j, v)
    BY <1>9
  <2>2. store[i] \in Record
    BY <2>1, FiledRecord DEF Decide
  <2>3. [store[i] EXCEPT !.status = v] \in Record
    BY <2>2 DEF Record
  <2>4. store' \in [Id -> Record \cup {NoRecord}]
    BY <2>1, <2>3 DEF TypeOK, Decide
  <2>5. unspent' \subseteq Id \X Tool
    BY <2>1, <2>2 DEF TypeOK, Decide, Record
  <2>6. phase' \in [Id -> Phase] /\ key' \in [Id -> Key]
    BY <2>1, <2>2 DEF TypeOK, Decide, Record, Phase
  <2>7. QED
    BY <2>1, <2>4, <2>5, <2>6 DEF TypeOK, Decide
<1>10. CASE Restart
  BY <1>10, NoAnswerIsDenied DEF TypeOK, Restart, Phase
<1>11. QED
  BY <1>1, <1>2, <1>3, <1>4, <1>5, <1>6, <1>7, <1>8, <1>9, <1>10 DEF Next

-----------------------------------------------------------------------------
\* What is paid for.

\* A step that only takes answers back, and files nothing decided, spends
\* nothing.
LEMMA NothingSpent ==
    ASSUME IInv,
           UNCHANGED <<store, unspent, last>>,
           \A i \in Id : answer'[i] \in {answer[i], NoAnswer}
    PROVE  RecordsUnspent' /\ AnswersUnspent' /\ AnswersUnfiled' /\ RunsArePaid'
BY NoAnswerIsDenied
   DEF IInv, RecordsUnspent, AnswersUnspent, AnswersUnfiled, RunsArePaid

\* A gated call that is let through spends what allows it.
LEMMA CallKeepsPaid ==
    ASSUME Distinct, IInv, NEW i \in Id, NEW t \in Tool,
           CallWithDecision(i, t) \/ CallWithAnswer(i, t)
    PROVE  RecordsUnspent' /\ AnswersUnspent' /\ AnswersUnfiled' /\ RunsArePaid'
<1>t. TypeOK /\ NoTool \notin Tool /\ NoRecord \notin Record
  BY ToolAssumption DEF IInv, Record, Key, Verdict
<1>1. CASE CallWithDecision(i, t)
  <2>1. PICK r \in Matching(key[i], t) :
           /\ store' = [store EXCEPT ![r] = NoRecord]
           /\ last' = Called(store[r].status, i, t, r)
           /\ unspent' = unspent \ ({r} \X Tool)
           /\ answer' = [answer EXCEPT ![i] = IF @.tool = t THEN NoAnswer ELSE @]
    BY <1>1 DEF CallWithDecision
  <2>2. /\ r \in Id
        /\ store[r] # NoRecord
        /\ t \in store[r].asks
    BY <1>t, FoundNamesTool DEF TypeOK
  <2>3. \A j \in Id : answer'[j] \in {answer[j], NoAnswer}
    BY <2>1, <1>t DEF TypeOK
  <2>4. \A j \in Id : answer'[j] # NoAnswer => j # r /\ answer'[j] = answer[j]
    BY <2>2, <2>3 DEF IInv, AnswersUnfiled
  <2>5. RunsArePaid'
    BY <2>1, <2>2 DEF IInv, RecordsUnspent, RunsArePaid, Called
  <2>6. AnswersUnfiled'
    BY <2>1, <2>4, <1>t DEF IInv, AnswersUnfiled, TypeOK
  <2>7. AnswersUnspent'
    BY <2>1, <2>4, NoAnswerIsDenied DEF IInv, AnswersUnspent
  <2>8. RecordsUnspent'
    <3> SUFFICES ASSUME NEW q \in Id, store'[q] # NoRecord, store'[q].status = "approved",
                        NEW u \in store'[q].asks
                 PROVE  <<q, u>> \in unspent'
      BY DEF RecordsUnspent
    <3>1. q # r /\ store'[q] = store[q]
      BY <2>1, <1>t DEF TypeOK
    <3>2. <<q, u>> \in unspent
      BY <3>1 DEF IInv, RecordsUnspent
    <3>3. QED
      BY <2>1, <3>1, <3>2
  <2>9. QED
    BY <2>5, <2>6, <2>7, <2>8
<1>2. CASE CallWithAnswer(i, t)
  <2>1. /\ answer[i] # NoAnswer
        /\ answer' = [answer EXCEPT ![i] = NoAnswer]
        /\ unspent' = unspent \ {<<i, t>>}
        /\ store' = store
    BY <1>2, <1>t, NoAnswerIsDenied DEF CallWithAnswer
  <2>2. RunsArePaid'
    BY <1>2 DEF CallWithAnswer, IInv, AnswersUnspent, RunsArePaid, Called
  <2>3. AnswersUnfiled' /\ AnswersUnspent'
    BY <2>1, <1>t, NoAnswerIsDenied DEF IInv, AnswersUnfiled, AnswersUnspent, TypeOK
  <2>4. RecordsUnspent'
    BY <2>1 DEF IInv, AnswersUnfiled, RecordsUnspent
  <2>5. QED
    BY <2>2, <2>3, <2>4
<1>3. QED
  BY <1>1, <1>2

\* An interrupt files a pending record and forgets the answer; an answer and a
\* decision pay for what they allow.
LEMMA HumanKeepsPaid ==
    ASSUME IInv, NEW i \in Id,
           \/ Interrupt(i)
           \/ \E t \in Tool, v \in Verdict : Respond(i, t, v)
           \/ \E j \in Id, v \in Verdict : Decide(i, j, v)
    PROVE  RecordsUnspent' /\ AnswersUnspent' /\ AnswersUnfiled' /\ RunsArePaid'
<1>t. TypeOK /\ NoTool \notin Tool /\ NoRecord \notin Record
  BY ToolAssumption DEF IInv, Record, Key, Verdict
<1>1. CASE Interrupt(i)
  <2>1. /\ answer' = [answer EXCEPT ![i] = NoAnswer]
        /\ \/ store' = [store EXCEPT ![i] = [key |-> key[i], asks |-> asks[i],
                                            status |-> "pending"]]
           \/ store' = store
        /\ UNCHANGED <<unspent, last>>
    BY <1>1 DEF Interrupt
  <2>2. \A j \in Id : j # i => answer'[j] = answer[j] /\ store'[j] = store[j]
    BY <2>1, <1>t DEF TypeOK
  <2>3. answer'[i] = NoAnswer
    BY <2>1, <1>t DEF TypeOK
  <2>4. store'[i] = store[i] \/ store'[i].status = "pending"
    BY <2>1, <1>t DEF TypeOK
  <2>5. RecordsUnspent'
    BY <2>1, <2>2, <2>4 DEF IInv, RecordsUnspent
  <2>6. AnswersUnspent' /\ AnswersUnfiled'
    BY <2>1, <2>2, <2>3, NoAnswerIsDenied DEF IInv, AnswersUnspent, AnswersUnfiled
  <2>7. QED
    BY <2>1, <2>5, <2>6 DEF IInv, RunsArePaid
<1>2. CASE \E t \in Tool, v \in Verdict : Respond(i, t, v)
  <2>1. PICK t \in Tool, v \in Verdict : Respond(i, t, v)
    BY <1>2
  <2>2. /\ answer' = [answer EXCEPT ![i] = [tool |-> t, verdict |-> v]]
        /\ store' = [store EXCEPT ![i] = NoRecord]
        /\ unspent \subseteq unspent'
        /\ v = "approved" => <<i, t>> \in unspent'
        /\ last' = last
    BY <2>1 DEF Respond
  <2>3. \A j \in Id : j # i => answer'[j] = answer[j] /\ store'[j] = store[j]
    BY <2>2, <1>t DEF TypeOK
  <2>4. answer'[i] = [tool |-> t, verdict |-> v] /\ store'[i] = NoRecord
    BY <2>2, <1>t DEF TypeOK
  <2>5. RecordsUnspent'
    BY <2>2, <2>3, <2>4 DEF IInv, RecordsUnspent
  <2>6. AnswersUnspent'
    BY <2>2, <2>3, <2>4 DEF IInv, AnswersUnspent
  <2>7. AnswersUnfiled'
    BY <2>3, <2>4 DEF IInv, AnswersUnfiled
  <2>8. QED
    BY <2>2, <2>5, <2>6, <2>7 DEF IInv, RunsArePaid
<1>3. CASE \E j \in Id, v \in Verdict : Decide(i, j, v)
  <2>1. PICK j \in Id, v \in Verdict : Decide(i, j, v)
    BY <1>3
  <2>2. /\ store[i] # NoRecord
        /\ store' = [store EXCEPT ![i] = [store[i] EXCEPT !.status = v]]
        /\ unspent \subseteq unspent'
        /\ v = "approved" => {i} \X store[i].asks \subseteq unspent'
        /\ UNCHANGED <<answer, last>>
    BY <2>1 DEF Decide
  <2>3. store[i] \in Record
    BY <2>2, <1>t, FiledRecord
  <2>4. \A q \in Id : q # i => store'[q] = store[q]
    BY <2>2, <1>t DEF TypeOK
  <2>5. /\ store'[i].asks = store[i].asks
        /\ store'[i].status = v
    BY <2>2, <2>3, <1>t DEF TypeOK, Record
  <2>6. RecordsUnspent'
    BY <2>2, <2>4, <2>5 DEF IInv, RecordsUnspent
  <2>7. AnswersUnspent'
    BY <2>2 DEF IInv, AnswersUnspent
  <2>8. AnswersUnfiled'
    BY <2>2, <2>4 DEF IInv, AnswersUnfiled
  <2>9. QED
    BY <2>2, <2>6, <2>7, <2>8 DEF IInv, RunsArePaid
<1>4. QED
  BY <1>1, <1>2, <1>3

\* Every step preserves the invariant.
LEMMA StepInv ==
    ASSUME Distinct, IInv, [Next]_vars
    PROVE  IInv'
<1>t. TypeOK
  BY DEF IInv
<1>1. CASE UNCHANGED vars
  BY <1>1 DEF vars, IInv, TypeOK, RecordsUnspent, AnswersUnspent, AnswersUnfiled, RunsArePaid
<1>2. CASE Next
  <2>1. TypeOK'
    BY <1>t, <1>2, StepType
  <2> DEFINE Paid == RecordsUnspent /\ AnswersUnspent /\ AnswersUnfiled /\ RunsArePaid
  <2>2. CASE \/ \E i \in Id, k \in Key : Submit(i, k)
             \/ \E i \in Id : Start(i) \/ Retry(i) \/ Finish(i) \/ Notified(i) \/ GiveUp(i)
             \/ \E i \in Id, t \in Tool : CallStopped(i, t)
             \/ Restart
    <3>1. UNCHANGED <<store, unspent, last>>
      BY <2>2 DEF Submit, Start, Retry, Finish, Notified, GiveUp, CallStopped, Restart
    <3>2. \A j \in Id : answer'[j] \in {answer[j], NoAnswer}
      BY <2>2, <1>t
         DEF TypeOK, Submit, Start, Retry, Finish, Notified, GiveUp, CallStopped, Restart
    <3>3. Paid'
      BY <3>1, <3>2, NothingSpent
    <3>4. QED
      BY <2>1, <3>3 DEF IInv
  <2>3. CASE \E i \in Id, t \in Tool : CallWithDecision(i, t) \/ CallWithAnswer(i, t)
    <3>1. Paid'
      BY <2>3, CallKeepsPaid
    <3>2. QED
      BY <2>1, <3>1 DEF IInv
  <2>4. CASE \E i \in Id :
                \/ Interrupt(i)
                \/ \E t \in Tool, v \in Verdict : Respond(i, t, v)
                \/ \E j \in Id, v \in Verdict : Decide(i, j, v)
    <3>1. Paid'
      BY <2>4, HumanKeepsPaid
    <3>2. QED
      BY <2>1, <3>1 DEF IInv
  <2>5. QED
    BY <1>2, <2>2, <2>3, <2>4 DEF Next
<1>3. QED
  BY <1>1, <1>2

-----------------------------------------------------------------------------
\* The variables of the approval model keep their types.
THEOREM ApprovalTypeCorrect == Spec => []TypeOK
<1>1. Init => TypeOK
  BY InitInv DEF IInv
<1>2. TypeOK /\ [Next]_vars => TypeOK'
  <2> SUFFICES ASSUME TypeOK, [Next]_vars PROVE TypeOK'
    OBVIOUS
  <2>1. CASE Next
    BY <2>1, StepType
  <2>2. CASE UNCHANGED vars
    BY <2>2 DEF vars, TypeOK
  <2>3. QED
    BY <2>1, <2>2
<1>3. QED
  BY <1>1, <1>2, PTL DEF Spec

\* Every run of a gated tool was allowed by a human whose approval was not used
\* before: by a live answer, or by a decision on file, in whatever order tasks,
\* replays and restarts come.
THEOREM GatedRunsArePaid ==
    ASSUME Distinct
    PROVE  Spec => []RunsArePaid
<1>1. Init => IInv
  BY InitInv
<1>2. IInv /\ [Next]_vars => IInv'
  BY StepInv
<1>3. IInv => RunsArePaid
  BY DEF IInv
<1>4. QED
  BY <1>1, <1>2, <1>3, PTL DEF Spec
=============================================================================
