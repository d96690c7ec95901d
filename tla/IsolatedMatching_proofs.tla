----------------------- MODULE IsolatedMatching_proofs -----------------------
(***************************************************************************)
(* A ticket is spent once, for any number of queries, tickets and threads. *)
(*                                                                         *)
(* The two workers together implement the abstract ticket register, whose  *)
(* steps are single answers and receipts (ImplementsRegister).             *)
(***************************************************************************)
EXTENDS IsolatedMatching, TLAPS

\* The inductive invariant.  The check of a ticket and its consumption are two
\* steps; what makes the second safe is that the file and the set in memory are
\* the same between steps, that the set knows every answer given, and that
\* only queries that were made are answered and only given answers evaluated.
AnswersKnown ==
    \A t \in Tickets : answers[t] = IF <<"ticket", t>> \in used["target"] THEN 1 ELSE 0
AnsweredOnce ==
    /\ \A q \in answered : TicketKey(q) \in used["target"]
    /\ \A p, q \in answered : TicketOf[p] = TicketOf[q] => p = q
ReceiptsKnown ==
    /\ \A q \in PsiQueries : AnswerNonce(q) \in used["requester"] => q \in answered
    /\ \A t \in Tickets :
          \/ receipts[t] = 0
          \/ /\ receipts[t] = 1
             /\ \E q \in answered : TicketOf[q] = t /\ AnswerNonce(q) \in used["requester"]
QueriesKnown ==
    \A h \in Threads : /\ thread[h].at \in TargetSteps => thread[h].query \in initiated
                       /\ thread[h].at \in RequesterSteps => thread[h].query \in answered

MatchingInv ==
    /\ MatchingTypeOK
    /\ stored = used
    /\ AnswersKnown /\ AnsweredOnce /\ ReceiptsKnown /\ QueriesKnown

-----------------------------------------------------------------------------
(* Replay keys. *)

\* The keys of queries, answers and tickets never coincide.
LEMMA DistinctKeys ==
    ASSUME NEW p, NEW q
    PROVE  /\ QueryNonce(p) # AnswerNonce(q)
           /\ QueryNonce(p) # <<"ticket", q>>
           /\ AnswerNonce(p) # <<"ticket", q>>
           /\ AnswerNonce(p) = AnswerNonce(q) => p = q
           /\ <<"ticket", p>> = <<"ticket", q>> => p = q
  BY DEF QueryNonce, AnswerNonce

\* A consumed key was unused, is used from now on, in memory and on file, and
\* the other worker is not concerned.
LEMMA ConsumedKey ==
    ASSUME MatchingInv, NEW w \in Workers, NEW k \in ReplayKeys, Consume(w, k)
    PROVE  /\ k \notin used[w] /\ used'[w] = used[w] \cup {k}
           /\ \A v \in Workers \ {w} : used'[v] = used[v]
           /\ used' \in [Workers -> SUBSET ReplayKeys] /\ stored' = used'
  BY DEF MatchingInv, MatchingTypeOK, Consume, UsedSinceChecked

Request == [at : TargetSteps \cup RequesterSteps, query : PsiQueries]

\* After a step of thread h, and that it is the only one that moved.
OnlyMoves(h) ==
    /\ thread' \in [Threads -> Request \cup {Free}]
    /\ \A g \in Threads \ {h} : thread'[g] = thread[g]

LEMMA ThreadTakes ==
    ASSUME MatchingTypeOK, NEW h \in Threads, NEW q \in PsiQueries,
           NEW s \in TargetSteps \cup RequesterSteps, Takes(h, q, s)
    PROVE  OnlyMoves(h) /\ thread'[h].at = s /\ thread'[h].query = q
  BY DEF Takes, MatchingTypeOK, OnlyMoves, Request

\* A thread that is at a step handles a query.
LEMMA ThreadAt ==
    ASSUME MatchingTypeOK, NEW h \in Threads, thread[h].at \in TargetSteps \cup RequesterSteps
    PROVE  thread[h] \in Request
  BY DEF MatchingTypeOK, Request, Free, TargetSteps, RequesterSteps

LEMMA ThreadContinues ==
    ASSUME MatchingTypeOK, NEW h \in Threads, NEW r \in TargetSteps \cup RequesterSteps,
           NEW s \in TargetSteps \cup RequesterSteps, Continues(h, r, s)
    PROVE  /\ OnlyMoves(h) /\ thread[h].at = r /\ thread'[h].at = s
           /\ thread[h].query \in PsiQueries /\ thread'[h].query = thread[h].query
  <1>1. thread[h] \in Request /\ thread[h].at = r
    BY ThreadAt DEF Continues
  <1>2. [thread[h] EXCEPT !.at = s] \in Request
    BY <1>1 DEF Request
  <1>3. thread' = [thread EXCEPT ![h] = [thread[h] EXCEPT !.at = s]]
    BY DEF Continues, MatchingTypeOK
  <1> QED
    BY <1>1, <1>2, <1>3 DEF MatchingTypeOK, OnlyMoves, Request

LEMMA ThreadResponds ==
    ASSUME MatchingTypeOK, NEW h \in Threads, NEW r \in TargetSteps \cup RequesterSteps,
           Responds(h, r)
    PROVE  /\ OnlyMoves(h) /\ thread'[h] = Free /\ thread[h].at = r
           /\ thread[h].query \in PsiQueries
  BY ThreadAt DEF Responds, MatchingTypeOK, OnlyMoves, Request

-----------------------------------------------------------------------------
(* Each part of the invariant is kept by every step. *)

Unspent == UNCHANGED <<used, stored, answered, answers, receipts>>

LEMMA UnspentKeeps ==
    ASSUME MatchingInv, Unspent
    PROVE  stored' = used' /\ AnswersKnown' /\ AnsweredOnce' /\ ReceiptsKnown'
  BY DEF MatchingInv, Unspent, AnswersKnown, AnsweredOnce, ReceiptsKnown

\* A restart reads back what was used.
LEMMA RestartReads ==
    ASSUME MatchingInv, NEW w \in Workers, RestartNode(w)
    PROVE  Unspent /\ \A h \in Threads : thread'[h] \in {thread[h], Free}
  BY DEF MatchingInv, MatchingTypeOK, RestartNode, Unspent

\* Every step is one of these: a step that spends nothing, and one that spends.
Spends(h) == ConsumeNonce(h) \/ AnswerQuery(h) \/ SignReceipt(h)

LEMMA StepKinds ==
    ASSUME MatchingInv, [MatchingNext]_matchingVars
    PROVE  Unspent \/ \E h \in Threads : Spends(h)
  BY RestartReads DEF MatchingNext, matchingVars, Unspent, Spends, InitiateQuery, ReceiveQuery,
     CheckAnswer, VerifyTicket, TakeSession, FailRequest

LEMMA SpendingKeys ==
    ASSUME MatchingAssumption, NEW q \in PsiQueries
    PROVE  /\ QueryNonce(q) \in ReplayKeys /\ AnswerNonce(q) \in ReplayKeys
           /\ TicketKey(q) \in ReplayKeys /\ TicketOf[q] \in Tickets
           /\ TicketKey(q) = <<"ticket", TicketOf[q]>>
  BY DEF MatchingAssumption, ReplayKeys, TicketKey

LEMMA NonceStep ==
    ASSUME MatchingAssumption, MatchingInv, NEW h \in Threads, ConsumeNonce(h)
    PROVE  stored' = used' /\ AnswersKnown' /\ AnsweredOnce' /\ ReceiptsKnown'
           /\ used' \in [Workers -> SUBSET ReplayKeys]
  <1> DEFINE q == thread[h].query
  <1>1. q \in PsiQueries
    BY ThreadContinues DEF ConsumeNonce, MatchingInv, TargetSteps
  <1>2. /\ used'["target"] = used["target"] \cup {QueryNonce(q)}
        /\ used'["requester"] = used["requester"]
        /\ used' \in [Workers -> SUBSET ReplayKeys] /\ stored' = used'
    BY <1>1, ConsumedKey, SpendingKeys DEF ConsumeNonce, Workers
  <1> HIDE DEF q
  <1>3. AnswersKnown'
    BY <1>1, <1>2, DistinctKeys DEF MatchingInv, AnswersKnown, ConsumeNonce
  <1>4. AnsweredOnce' /\ ReceiptsKnown'
    BY <1>1, <1>2 DEF MatchingInv, AnsweredOnce, ReceiptsKnown, ConsumeNonce
  <1> QED  BY <1>2, <1>3, <1>4

LEMMA AnswerStep ==
    ASSUME MatchingAssumption, MatchingInv, NEW h \in Threads, AnswerQuery(h)
    PROVE  stored' = used' /\ AnswersKnown' /\ AnsweredOnce' /\ ReceiptsKnown'
           /\ used' \in [Workers -> SUBSET ReplayKeys]
           /\ answers' \in [Tickets -> Nat]
  <1> DEFINE q == thread[h].query
  <1>1. q \in PsiQueries
    BY ThreadResponds DEF AnswerQuery, MatchingInv, TargetSteps
  <1>2. /\ TicketKey(q) \notin used["target"]
        /\ used'["target"] = used["target"] \cup {TicketKey(q)}
        /\ used'["requester"] = used["requester"]
        /\ used' \in [Workers -> SUBSET ReplayKeys] /\ stored' = used'
    BY <1>1, ConsumedKey, SpendingKeys DEF AnswerQuery, Workers
  <1>3. /\ answered' = answered \cup {q} /\ receipts' = receipts
        /\ answers' = [answers EXCEPT ![TicketOf[q]] = @ + 1]
    BY DEF AnswerQuery
  <1> HIDE DEF q
  <1>4. answers' \in [Tickets -> Nat] /\ AnswersKnown'
    BY <1>1, <1>2, <1>3, SpendingKeys, DistinctKeys
       DEF MatchingInv, MatchingTypeOK, AnswersKnown
  <1>5. \A p \in answered : TicketOf[p] # TicketOf[q]
    BY <1>2 DEF MatchingInv, AnsweredOnce, TicketKey
  <1>6. AnsweredOnce'
    BY <1>1, <1>2, <1>3, <1>5 DEF MatchingInv, AnsweredOnce, TicketKey
  <1>7. ReceiptsKnown'
    BY <1>2, <1>3 DEF MatchingInv, ReceiptsKnown
  <1> QED  BY <1>2, <1>4, <1>6, <1>7

LEMMA ReceiptStep ==
    ASSUME MatchingAssumption, MatchingInv, NEW h \in Threads, SignReceipt(h)
    PROVE  stored' = used' /\ AnswersKnown' /\ AnsweredOnce' /\ ReceiptsKnown'
           /\ used' \in [Workers -> SUBSET ReplayKeys]
           /\ receipts' \in [Tickets -> Nat]
  <1> DEFINE q == thread[h].query
  <1>1. q \in answered /\ q \in PsiQueries
    BY ThreadResponds DEF SignReceipt, MatchingInv, RequesterSteps, QueriesKnown
  <1>2. /\ AnswerNonce(q) \notin used["requester"]
        /\ used'["requester"] = used["requester"] \cup {AnswerNonce(q)}
        /\ used'["target"] = used["target"]
        /\ used' \in [Workers -> SUBSET ReplayKeys] /\ stored' = used'
    BY <1>1, ConsumedKey, SpendingKeys DEF SignReceipt, Workers
  <1>3. /\ answered' = answered /\ answers' = answers
        /\ receipts' = [receipts EXCEPT ![TicketOf[q]] = @ + 1]
    BY DEF SignReceipt
  <1> HIDE DEF q
  <1>4. AnswersKnown' /\ AnsweredOnce'
    BY <1>2, <1>3 DEF MatchingInv, AnswersKnown, AnsweredOnce
  <1>5. receipts[TicketOf[q]] = 0
    BY <1>1, <1>2, SpendingKeys DEF MatchingInv, AnsweredOnce, ReceiptsKnown
  <1>6. /\ receipts' \in [Tickets -> Nat]
        /\ \A t \in Tickets : receipts'[t] = IF t = TicketOf[q] THEN 1 ELSE receipts[t]
    BY <1>1, <1>3, <1>5, SpendingKeys DEF MatchingInv, MatchingTypeOK
  <1>7. ReceiptsKnown'
    <2>1. \A p \in PsiQueries : AnswerNonce(p) \in used'["requester"] => p \in answered'
      BY <1>1, <1>2, <1>3, DistinctKeys DEF MatchingInv, ReceiptsKnown
    <2>2. ASSUME NEW t \in Tickets, receipts'[t] # 0
          PROVE  /\ receipts'[t] = 1
                 /\ \E p \in answered' : TicketOf[p] = t /\ AnswerNonce(p) \in used'["requester"]
      BY <1>1, <1>2, <1>3, <1>6, <2>2 DEF MatchingInv, ReceiptsKnown
    <2> QED  BY <2>1, <2>2 DEF ReceiptsKnown
  <1> QED  BY <1>2, <1>4, <1>6, <1>7

\* What is delivered was made, and what was made is not taken back.
LEMMA QueriesStep ==
    ASSUME MatchingInv, [MatchingNext]_matchingVars
    PROVE  QueriesKnown' /\ thread' \in [Threads -> Request \cup {Free}]
  <1> USE DEF MatchingInv
  <1>1. thread \in [Threads -> Request \cup {Free}] /\ "free" \notin TargetSteps \cup RequesterSteps
    BY DEF MatchingTypeOK, Request, TargetSteps, RequesterSteps
  <1>2. ASSUME NEW h \in Threads, OnlyMoves(h), answered \subseteq answered', initiated \subseteq initiated',
               thread'[h].at \in TargetSteps => thread'[h].query \in initiated',
               thread'[h].at \in RequesterSteps => thread'[h].query \in answered'
        PROVE  QueriesKnown' /\ thread' \in [Threads -> Request \cup {Free}]
    BY <1>2 DEF OnlyMoves, QueriesKnown
  <1>3. ASSUME answered' = answered, initiated' = initiated,
               \A h \in Threads : thread'[h] \in {thread[h], Free},
               thread' \in [Threads -> Request \cup {Free}]
        PROVE  QueriesKnown'
    BY <1>1, <1>3 DEF QueriesKnown, Free
  <1>4. ASSUME NEW h \in Threads, NEW q \in PsiQueries, ReceiveQuery(h, q) \/ CheckAnswer(h, q)
        PROVE  QueriesKnown' /\ thread' \in [Threads -> Request \cup {Free}]
    <2>1. CASE ReceiveQuery(h, q)
      BY <1>2, <2>1, ThreadTakes DEF ReceiveQuery, TargetSteps, RequesterSteps
    <2>2. CASE CheckAnswer(h, q)
      BY <1>2, <2>2, ThreadTakes DEF CheckAnswer, TargetSteps, RequesterSteps
    <2> QED  BY <1>4, <2>1, <2>2
  <1>5. ASSUME NEW h \in Threads, VerifyTicket(h) \/ ConsumeNonce(h) \/ TakeSession(h)
        PROVE  QueriesKnown' /\ thread' \in [Threads -> Request \cup {Free}]
    <2>1. CASE VerifyTicket(h)
      BY <1>2, <2>1, ThreadContinues DEF VerifyTicket, TargetSteps, RequesterSteps, QueriesKnown
    <2>2. CASE ConsumeNonce(h)
      BY <1>2, <2>2, ThreadContinues DEF ConsumeNonce, TargetSteps, RequesterSteps, QueriesKnown
    <2>3. CASE TakeSession(h)
      BY <1>2, <2>3, ThreadContinues DEF TakeSession, TargetSteps, RequesterSteps, QueriesKnown
    <2> QED  BY <1>5, <2>1, <2>2, <2>3
  <1>6. ASSUME NEW h \in Threads, AnswerQuery(h) \/ SignReceipt(h)
        PROVE  QueriesKnown' /\ thread' \in [Threads -> Request \cup {Free}]
    <2>1. OnlyMoves(h) /\ thread'[h] = Free
      BY <1>6, ThreadResponds DEF AnswerQuery, SignReceipt, TargetSteps, RequesterSteps
    <2>2. answered \subseteq answered' /\ initiated' = initiated
      BY <1>6 DEF AnswerQuery, SignReceipt
    <2> QED  BY <1>1, <1>2, <2>1, <2>2 DEF Free
  <1>7. ASSUME NEW w \in Workers, RestartNode(w)
        PROVE  QueriesKnown' /\ thread' \in [Threads -> Request \cup {Free}]
    <2>1. thread' \in [Threads -> Request \cup {Free}]
      BY <1>1, <1>7 DEF RestartNode
    <2> QED  BY <1>3, <1>7, <2>1, RestartReads DEF Unspent, RestartNode
  <1>8. ASSUME NEW h \in Threads, FailRequest(h)
        PROVE  QueriesKnown' /\ thread' \in [Threads -> Request \cup {Free}]
    BY <1>1, <1>3, <1>8 DEF FailRequest
  <1>9. ASSUME NEW q \in PsiQueries, InitiateQuery(q)
        PROVE  QueriesKnown' /\ thread' \in [Threads -> Request \cup {Free}]
    BY <1>1, <1>9 DEF InitiateQuery, QueriesKnown
  <1>10. CASE UNCHANGED matchingVars
    BY <1>1, <1>10 DEF matchingVars, QueriesKnown
  <1> QED
    BY <1>4, <1>5, <1>6, <1>7, <1>8, <1>9, <1>10 DEF MatchingNext

-----------------------------------------------------------------------------
(* Types, and the theorems. *)

LEMMA SessionStep ==
    ASSUME MatchingAssumption, MatchingInv, [MatchingNext]_matchingVars
    PROVE  /\ session' \in [Tickets -> PsiQueries \cup {NoQuery}]
           /\ initiated' \subseteq PsiQueries /\ answered' \subseteq initiated'
  <1> USE DEF MatchingInv, MatchingTypeOK
  <1>1. /\ session' \in [Tickets -> PsiQueries \cup {NoQuery}]
        /\ initiated' \subseteq PsiQueries /\ initiated \subseteq initiated'
    BY DEF MatchingAssumption, MatchingNext, matchingVars, InitiateQuery, ReceiveQuery,
       VerifyTicket, ConsumeNonce, AnswerQuery, CheckAnswer, TakeSession, SignReceipt,
       FailRequest, RestartNode
  <1>2. ASSUME NEW h \in Threads, Spends(h) PROVE answered' \subseteq initiated'
    BY <1>1, <1>2 DEF Spends, ConsumeNonce, AnswerQuery, SignReceipt, Responds,
       QueriesKnown, TargetSteps
  <1> QED  BY <1>1, <1>2, StepKinds DEF Unspent

LEMMA MatchingInitially == ASSUME MatchingInit PROVE MatchingInv
  BY DEF MatchingInit, MatchingInv, MatchingTypeOK, AnswersKnown, AnsweredOnce,
     ReceiptsKnown, QueriesKnown, Workers, Free, TargetSteps, RequesterSteps

LEMMA MatchingStep ==
    ASSUME MatchingAssumption, MatchingInv, [MatchingNext]_matchingVars
    PROVE  MatchingInv'
  <1>1. stored' = used' /\ AnswersKnown' /\ AnsweredOnce' /\ ReceiptsKnown'
        /\ used' \in [Workers -> SUBSET ReplayKeys]
        /\ answers' \in [Tickets -> Nat] /\ receipts' \in [Tickets -> Nat]
    <2>1. CASE Unspent
      BY <2>1, UnspentKeeps DEF Unspent, MatchingInv, MatchingTypeOK
    <2>2. ASSUME NEW h \in Threads, ConsumeNonce(h)
          PROVE  answers' = answers /\ receipts' = receipts
      BY <2>2 DEF ConsumeNonce
    <2>3. ASSUME NEW h \in Threads, AnswerQuery(h) PROVE receipts' = receipts
      BY <2>3 DEF AnswerQuery
    <2>4. ASSUME NEW h \in Threads, SignReceipt(h) PROVE answers' = answers
      BY <2>4 DEF SignReceipt
    <2>5. CASE \E h \in Threads : Spends(h)
      BY <2>2, <2>3, <2>4, <2>5, NonceStep, AnswerStep, ReceiptStep
         DEF Spends, MatchingInv, MatchingTypeOK
    <2> QED  BY <2>1, <2>5, StepKinds
  <1>2. MatchingTypeOK'
    BY <1>1, SessionStep, QueriesStep DEF MatchingTypeOK, Request
  <1> QED  BY <1>1, <1>2, QueriesStep DEF MatchingInv

LEMMA MatchingInvariant == ASSUME MatchingAssumption PROVE MatchingSpec => []MatchingInv
  BY MatchingInitially, MatchingStep, PTL DEF MatchingSpec

\* Every reachable state of the two workers is well typed, and only queries
\* that were made are answered.
THEOREM MatchingTypes == MatchingSpec => []MatchingTypeOK
  <1>1. MatchingInv => MatchingTypeOK
    BY DEF MatchingInv
  <1> QED  BY <1>1, MatchingAssumption, MatchingInvariant, PTL

\* The replay protection of isolated_matching_service.py: the target answers at
\* most once under a ticket and the requester signs at most one receipt for
\* it, with any number of queries under it, threads, repeats and restarts.
THEOREM TicketsSpentOnce == MatchingSpec => []TicketIsSpentOnce
  <1>1. ASSUME MatchingInv, NEW t \in Tickets
        PROVE  receipts[t] <= answers[t] /\ answers[t] <= 1
    <2>1. answers[t] \in {0, 1}
      BY <1>1 DEF MatchingInv, AnswersKnown
    <2>2. CASE receipts[t] = 0
      BY <2>1, <2>2
    <2>3. CASE receipts[t] = 1
      <3>1. PICK q \in answered : TicketOf[q] = t
        BY <1>1, <2>3 DEF MatchingInv, ReceiptsKnown
      <3>2. answers[t] = 1
        BY <1>1, <3>1 DEF MatchingInv, AnsweredOnce, AnswersKnown, TicketKey
      <3> QED  BY <2>3, <3>2
    <2> QED  BY <1>1, <2>2, <2>3 DEF MatchingInv, ReceiptsKnown
  <1>2. MatchingInv => TicketIsSpentOnce
    BY <1>1 DEF TicketIsSpentOnce
  <1> QED  BY <1>2, MatchingAssumption, MatchingInvariant, PTL

-----------------------------------------------------------------------------
(* The register of tickets. *)

\* A ticket under which nothing was answered is unused, and the other way round.
LEMMA NoAnswerYet ==
    ASSUME MatchingAssumption, MatchingInv, NEW q \in PsiQueries, TicketKey(q) \notin used["target"]
    PROVE  q \notin answered /\ answers[TicketOf[q]] = 0
  BY SpendingKeys DEF MatchingInv, AnswersKnown, AnsweredOnce

\* Every step of the workers is one of the register, or the register does not see it.
LEMMA RegisterStep ==
    ASSUME MatchingAssumption, MatchingInv, [MatchingNext]_matchingVars
    PROVE  [Register!RegisterNext]_(Register!registerVars)
  <1>1. ASSUME NEW q \in PsiQueries, InitiateQuery(q)
        PROVE  Register!Ask(q)
    BY <1>1 DEF InitiateQuery, Register!Ask
  <1>2. ASSUME NEW h \in Threads, AnswerQuery(h)
        PROVE  Register!RegisterNext
    <2> DEFINE q == thread[h].query
    <2>1. q \in PsiQueries /\ q \in initiated
      BY <1>2, ThreadResponds DEF AnswerQuery, MatchingInv, TargetSteps, QueriesKnown
    <2>2. q \notin answered /\ answers[TicketOf[q]] = 0
      BY <1>2, <2>1, ConsumedKey, SpendingKeys, NoAnswerYet DEF AnswerQuery, Workers
    <2>3. /\ answered' = answered \cup {q} /\ UNCHANGED <<initiated, receipts>>
          /\ answers' = [answers EXCEPT ![TicketOf[q]] = @ + 1]
      BY <1>2 DEF AnswerQuery
    <2> HIDE DEF q
    <2>4. answers' = [answers EXCEPT ![TicketOf[q]] = 1]
      BY <2>1, <2>2, <2>3, SpendingKeys DEF MatchingInv, MatchingTypeOK
    <2>5. Register!Answer(q)
      BY <2>1, <2>2, <2>3, <2>4 DEF Register!Answer
    <2> QED  BY <2>1, <2>5 DEF Register!RegisterNext
  <1>3. ASSUME NEW h \in Threads, SignReceipt(h)
        PROVE  Register!RegisterNext
    <2> DEFINE q == thread[h].query
    <2>1. q \in answered /\ q \in PsiQueries
      BY <1>3, ThreadResponds DEF SignReceipt, MatchingInv, RequesterSteps, QueriesKnown
    <2>2. AnswerNonce(q) \notin used["requester"]
      BY <1>3, <2>1, ConsumedKey, SpendingKeys DEF SignReceipt, Workers
    <2>3. receipts' = [receipts EXCEPT ![TicketOf[q]] = @ + 1] /\ UNCHANGED <<initiated, answered, answers>>
      BY <1>3 DEF SignReceipt
    <2> HIDE DEF q
    <2>4. receipts[TicketOf[q]] = 0
      BY <2>1, <2>2, SpendingKeys DEF MatchingInv, AnsweredOnce, ReceiptsKnown
    <2>5. receipts' = [receipts EXCEPT ![TicketOf[q]] = 1]
      BY <2>1, <2>3, <2>4, SpendingKeys DEF MatchingInv, MatchingTypeOK
    <2>6. Register!Sign(q)
      BY <2>1, <2>3, <2>4, <2>5 DEF Register!Sign
    <2> QED  BY <2>1, <2>6 DEF Register!RegisterNext
  <1>4. ASSUME UNCHANGED <<initiated, answered, answers, receipts>>
        PROVE  UNCHANGED Register!registerVars
    BY <1>4 DEF Register!registerVars
  <1>5. ASSUME NEW h \in Threads,
               \/ \E q \in PsiQueries : ReceiveQuery(h, q) \/ CheckAnswer(h, q)
               \/ VerifyTicket(h) \/ ConsumeNonce(h) \/ TakeSession(h) \/ FailRequest(h)
        PROVE  UNCHANGED <<initiated, answered, answers, receipts>>
    BY <1>5 DEF ReceiveQuery, CheckAnswer, VerifyTicket, ConsumeNonce, TakeSession, FailRequest
  <1>6. ASSUME NEW w \in Workers, RestartNode(w)
        PROVE  UNCHANGED <<initiated, answered, answers, receipts>>
    BY <1>6 DEF RestartNode
  <1>7. CASE UNCHANGED matchingVars
    BY <1>4, <1>7 DEF matchingVars
  <1> QED
    BY <1>1, <1>2, <1>3, <1>4, <1>5, <1>6, <1>7 DEF MatchingNext, Register!RegisterNext

\* The workers of isolated_matching_service.py implement the register of tickets:
\* one of the queries made under a ticket is answered and one receipt signed
\* after it, for good, whatever is repeated, delayed or restarted.
THEOREM ImplementsRegister == MatchingSpec => KeepsTheRegister
  <1>1. MatchingInit => Register!RegisterInit
    BY DEF MatchingInit, Register!RegisterInit
  <1>2. MatchingInv /\ [MatchingNext]_matchingVars =>
            [Register!RegisterNext]_(Register!registerVars)
    BY MatchingAssumption, RegisterStep
  <1> QED
    BY <1>1, <1>2, MatchingAssumption, MatchingInvariant, PTL
       DEF MatchingSpec, KeepsTheRegister, Register!RegisterSpec

=============================================================================
