------------------------------ MODULE MCServices ------------------------------
(***************************************************************************)
(* Finite instances of PilotOperations, RegistryMutations, FederatedJob,   *)
(* PrivacyBudget and IsolatedMatching, side by side: the first state       *)
(* chooses one of the five systems, and only that one moves.               *)
(***************************************************************************)
EXTENDS PilotOperations, RegistryMutations, FederatedJob, PrivacyBudget,
        IsolatedMatching, TLC

CONSTANTS u1, u2, u3, t1, t2

(* Every bank asks one query, which bears its name.                        *)
EachItsBank == [q \in Queries |-> q]

(* Two queries share a ticket.                                             *)
SharedTicket == u1 :> t1 @@ u2 :> t1 @@ u3 :> t2

VARIABLE system     \* the system that moves

ServicesInit ==
    /\ PilotInit /\ RegistryInit /\ JobInit /\ PrivacyInit /\ MatchingInit
    /\ system \in {"pilot", "registry", "job", "privacy", "matching"}

ServicesNext ==
    /\ UNCHANGED system
    /\ \/ /\ system = "pilot" /\ PilotNext
          /\ UNCHANGED <<registryVars, jobVars, privacyVars, matchingVars>>
       \/ /\ system = "registry" /\ RegistryNext
          /\ UNCHANGED <<pilotVars, jobVars, privacyVars, matchingVars>>
       \/ /\ system = "job" /\ JobNext
          /\ UNCHANGED <<pilotVars, registryVars, privacyVars, matchingVars>>
       \/ /\ system = "privacy" /\ PrivacyNext
          /\ UNCHANGED <<pilotVars, registryVars, jobVars, matchingVars>>
       \/ /\ system = "matching" /\ MatchingNext
          /\ UNCHANGED <<pilotVars, registryVars, jobVars, privacyVars>>

ServicesSpec ==
    /\ ServicesInit
    /\ [][ServicesNext]_<<system, pilotVars, registryVars, jobVars, privacyVars, matchingVars>>

(* The systems never move together, so they share their model values: the  *)
(* actors of each are the same ones, and so are the things they work on.   *)
ServicesSymmetry == Permutations(Officers) \cup Permutations(Queries)
=============================================================================
