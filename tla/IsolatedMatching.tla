--------------------------- MODULE IsolatedMatching ---------------------------
(***************************************************************************)
(* Private matching between two banks' isolated workers: the requester's   *)
(* worker blinds a query under a signed ticket, the target's worker answers*)
(* it, and the requester's worker evaluates the answer into a receipt.     *)
(*                                                                         *)
(* Each worker is a threading server, so that requests overlap, and each   *)
(* keeps the nonces and tickets it has used in memory and in a file that a *)
(* restart reads back.  The coordinator between them is a router: what it  *)
(* forwards may be delivered late or again, which the workers must refuse. *)
(*                                                                         *)
(* Abstractions.  The established protocol is modelled; the prototype one  *)
(* checks and consumes in the same order.  Signatures, grants, expiry and  *)
(* freshness only refuse: they are requests that fail.  A used nonce is    *)
(* written to a temporary file, moved into place and then added to the set *)
(* in memory under one lock: one step, since a reader of the set sees it   *)
(* before or after, and a crash in between finds it in the file.           *)
(***************************************************************************)
EXTENDS Naturals

CONSTANTS
    PsiQueries,     \* queries, each with its nonce; its answer bears its name
    Tickets,        \* authorization tickets, one per job
    TicketOf,       \* the ticket a query is made under
    Threads,        \* request threads of the workers
    NoQuery

ASSUME MatchingAssumption ==
    /\ TicketOf \in [PsiQueries -> Tickets]
    /\ NoQuery \notin PsiQueries

VARIABLES
    session,        \* requester: _active_psi_clients, the query a job's client made
    initiated,      \* queries handed to the coordinator
    answered,       \* queries whose answer was handed to the coordinator
    used,           \* _consumed_nonces, per worker
    stored,         \* replay_nonces.json, per worker
    thread,         \* what each request thread is doing
    answers,        \* how many answers the target gave under a ticket
    receipts        \* how many receipts the requester signed under a ticket

matchingVars == <<session, initiated, answered, used, stored, thread, answers, receipts>>

-----------------------------------------------------------------------------

Workers == {"requester", "target"}
QueryNonce(q) == <<"query", q>>
AnswerNonce(q) == <<"answer", q>>
TicketKey(q) == <<"ticket", TicketOf[q]>>
ReplayKeys == {QueryNonce(q) : q \in PsiQueries} \cup {AnswerNonce(q) : q \in PsiQueries}
              \cup {TicketKey(q) : q \in PsiQueries}

Free == [at |-> "free", query |-> NoQuery]
TargetSteps == {"received", "verified", "nonceConsumed"}
RequesterSteps == {"checked", "evaluating"}

MatchingTypeOK ==
    /\ session \in [Tickets -> PsiQueries \cup {NoQuery}]
    /\ initiated \subseteq PsiQueries /\ answered \subseteq initiated
    /\ used \in [Workers -> SUBSET ReplayKeys]
    /\ stored \in [Workers -> SUBSET ReplayKeys]
    /\ thread \in [Threads -> [at : TargetSteps \cup RequesterSteps, query : PsiQueries] \cup {Free}]
    /\ answers \in [Tickets -> Nat] /\ receipts \in [Tickets -> Nat]

MatchingInit ==
    /\ session = [t \in Tickets |-> NoQuery]
    /\ initiated = {} /\ answered = {}
    /\ used = [w \in Workers |-> {}] /\ stored = [w \in Workers |-> {}]
    /\ thread = [h \in Threads |-> Free]
    /\ answers = [t \in Tickets |-> 0] /\ receipts = [t \in Tickets |-> 0]

-----------------------------------------------------------------------------

Takes(h, q, step) == thread[h] = Free /\ thread' = [thread EXCEPT ![h] = [at |-> step, query |-> q]]
Continues(h, from, to) == thread[h].at = from /\ thread' = [thread EXCEPT ![h].at = to]
Responds(h, from) == thread[h].at = from /\ thread' = [thread EXCEPT ![h] = Free]

(* _persist_consumed_nonce: refused when the key was used in the meantime. *)
NeverUsed(w, k) == FALSE
UsedSinceChecked(w, k) == k \in used[w]
Consume(w, k) ==
    /\ ~ UsedSinceChecked(w, k)
    /\ stored' = [stored EXCEPT ![w] = used[w] \cup {k}]
    /\ used' = [used EXCEPT ![w] = @ \cup {k}]

(* initiate_established_psi_query: the job's client, and the signed query. *)
InitiateQuery(q) ==
    /\ q \notin initiated
    /\ session' = [session EXCEPT ![TicketOf[q]] = q]
    /\ initiated' = initiated \cup {q}
    /\ UNCHANGED <<answered, used, stored, thread, answers, receipts>>

(* process_established_psi_counterpart: the nonce is new, the ticket is    *)
(* new and authorized; the answer is signed and, once its nonce and its    *)
(* ticket are consumed, returned.                                          *)
ReceiveQuery(h, q) ==
    /\ q \in initiated /\ QueryNonce(q) \notin used["target"]
    /\ Takes(h, q, "received")
    /\ UNCHANGED <<session, initiated, answered, used, stored, answers, receipts>>

VerifyTicket(h) ==
    /\ Continues(h, "received", "verified")
    /\ TicketKey(thread[h].query) \notin used["target"]
    /\ UNCHANGED <<session, initiated, answered, used, stored, answers, receipts>>

ConsumeNonce(h) ==
    /\ Continues(h, "verified", "nonceConsumed")
    /\ Consume("target", QueryNonce(thread[h].query))
    /\ UNCHANGED <<session, initiated, answered, answers, receipts>>

AnswerQuery(h) ==
    LET q == thread[h].query IN
    /\ Responds(h, "nonceConsumed")
    /\ Consume("target", TicketKey(q))
    /\ answered' = answered \cup {q}
    /\ answers' = [answers EXCEPT ![TicketOf[q]] = @ + 1]
    /\ UNCHANGED <<session, initiated, receipts>>

(* finalize_established_psi_evaluation: the answer is new; the client of   *)
(* its job is taken out of the sessions, and the receipt is signed once    *)
(* the nonce of the answer is consumed.                                    *)
CheckAnswer(h, q) ==
    /\ q \in answered /\ AnswerNonce(q) \notin used["requester"]
    /\ Takes(h, q, "checked")
    /\ UNCHANGED <<session, initiated, answered, used, stored, answers, receipts>>

TakeSession(h) ==
    LET t == TicketOf[thread[h].query] IN
    /\ Continues(h, "checked", "evaluating")
    /\ session[t] # NoQuery
    /\ session' = [session EXCEPT ![t] = NoQuery]
    /\ UNCHANGED <<initiated, answered, used, stored, answers, receipts>>

SignReceipt(h) ==
    LET q == thread[h].query IN
    /\ Responds(h, "evaluating")
    /\ Consume("requester", AnswerNonce(q))
    /\ receipts' = [receipts EXCEPT ![TicketOf[q]] = @ + 1]
    /\ UNCHANGED <<session, initiated, answered, answers>>

(* A request is refused, raises, or cannot write the file: nothing is      *)
(* returned, and what it has consumed stays consumed.                      *)
FailRequest(h) ==
    /\ thread[h] # Free
    /\ thread' = [thread EXCEPT ![h] = Free]
    /\ UNCHANGED <<session, initiated, answered, used, stored, answers, receipts>>

(* A worker dies and is started again.                                     *)
StepsOf(w) == IF w = "target" THEN TargetSteps ELSE RequesterSteps
RestartNode(w) ==
    /\ used' = [used EXCEPT ![w] = stored[w]]
    /\ thread' = [h \in Threads |-> IF thread[h].at \in StepsOf(w) THEN Free ELSE thread[h]]
    /\ session' = IF w = "requester" THEN [t \in Tickets |-> NoQuery] ELSE session
    /\ UNCHANGED <<initiated, answered, stored, answers, receipts>>

MatchingNext ==
    \/ \E q \in PsiQueries : InitiateQuery(q)
    \/ \E h \in Threads :
          \/ \E q \in PsiQueries : ReceiveQuery(h, q) \/ CheckAnswer(h, q)
          \/ VerifyTicket(h) \/ ConsumeNonce(h) \/ AnswerQuery(h)
          \/ TakeSession(h) \/ SignReceipt(h)
          \/ FailRequest(h)
    \/ \E w \in Workers : RestartNode(w)

MatchingSpec == MatchingInit /\ [][MatchingNext]_matchingVars

-----------------------------------------------------------------------------

(* A ticket is spent once: the target's bank answers at most one query     *)
(* under it and the requester's bank signs at most one receipt, however    *)
(* often and how late requests are delivered, whichever threads handle them*)
(* at once, and wherever a worker dies and comes back.                     *)
TicketIsSpentOnce ==
    \A t \in Tickets : receipts[t] <= answers[t] /\ answers[t] <= 1

(* Seen from outside, the two workers are one register of tickets: one of  *)
(* the queries made under a ticket is answered, once, and once after that  *)
(* a receipt is signed, and neither is ever taken back or given again.     *)
Register == INSTANCE TicketRegister WITH Requests <- PsiQueries, asked <- initiated
KeepsTheRegister == Register!RegisterSpec

=============================================================================
