----------------------------- MODULE TicketRegister -----------------------------
(***************************************************************************)
(* What two banks' matching workers promise together: each ticket buys one *)
(* answer and one receipt.  Queries are asked under a ticket, one of those *)
(* asked under it is answered, and after that a receipt is signed for it.  *)
(* What was asked, answered and signed stays so.                           *)
(*                                                                         *)
(* Requests, threads, nonces, sessions, repeats and restarts are the       *)
(* workers' own affair.                                                    *)
(***************************************************************************)
EXTENDS Naturals

CONSTANTS
    Requests,       \* queries that may be asked
    Tickets,
    TicketOf        \* the ticket a query is asked under

VARIABLES
    asked,
    answered,
    answers,        \* answers given under a ticket
    receipts        \* receipts signed under a ticket

registerVars == <<asked, answered, answers, receipts>>

RegisterInit ==
    /\ asked = {} /\ answered = {}
    /\ answers = [t \in Tickets |-> 0] /\ receipts = [t \in Tickets |-> 0]

Ask(q) ==
    /\ q \notin asked
    /\ asked' = asked \cup {q}
    /\ UNCHANGED <<answered, answers, receipts>>

\* The first answer under the query's ticket.
Answer(q) ==
    /\ q \in asked \ answered
    /\ answers[TicketOf[q]] = 0
    /\ answered' = answered \cup {q}
    /\ answers' = [answers EXCEPT ![TicketOf[q]] = 1]
    /\ UNCHANGED <<asked, receipts>>

\* The first receipt under the ticket of an answered query.
Sign(q) ==
    /\ q \in answered
    /\ receipts[TicketOf[q]] = 0
    /\ receipts' = [receipts EXCEPT ![TicketOf[q]] = 1]
    /\ UNCHANGED <<asked, answered, answers>>

RegisterNext == \E q \in Requests : Ask(q) \/ Answer(q) \/ Sign(q)

RegisterSpec == RegisterInit /\ [][RegisterNext]_registerVars
=============================================================================
