------------------------- MODULE AzurePeeringProofs -------------------------
(***************************************************************************)
(* Proofs about AzurePeering, for any number of applications, runs, resets, *)
(* failures and clean-ups.                                                 *)
(*                                                                         *)
(* The inductive invariant says, for every step, what an undisturbed run   *)
(* (one with why = {}) has established before it: this is what the failing *)
(* branch of a later command needs to be false.                            *)
(***************************************************************************)
EXTENDS AzurePeering, TLAPS

AppIds == Apps \cup {None}
Secrets == [app : AppIds, version : Nat]
Reasons == {"app_session", "connection_exists", "failure"}
States == {"none", "APPROVED", "PENDING_PEER", "INVALID_SPECIFICATION", "ACTIVE"}
Azures == [apps : SUBSET Apps, created : SUBSET Apps, principals : SUBSET AppIds,
           version : [Apps -> Nat], contributors : SUBSET AppIds, aivenSp : BOOLEAN,
           role : BOOLEAN, granted : BOOLEAN, peering : BOOLEAN]
Connections == [state : States, app : AppIds]
Files == [f2 : AppIds, f3 : AppIds, f4 : Secrets, f7 : BOOLEAN, f8 : BOOLEAN,
          f12 : BOOLEAN]
Budgets == [runs : Nat, failures : Nat, cleanups : Nat]

\* The values of the variables of create_peering.sh and of what it works on.
TypeOK ==
    /\ login \in {"none", "user", "app"}
    /\ azure \in Azures
    /\ aiven \in Connections
    /\ file \in Files
    /\ step \in 0..Done
    /\ app \in AppIds
    /\ sp \in AppIds
    /\ secret \in Secrets
    /\ left \in Budgets
    /\ why \in SUBSET Reasons

\* The run has met neither a failure nor the session of the application.
Undisturbed == ~Ended /\ why = {}

\* An undisturbed run is the user's until the application logs in (step 13).
UserIsLoggedIn == Undisturbed /\ step < 14 => login = "user"

\* After step 2 the application exists; only a clean-up, between two runs,
\* takes it away.
AppExists == Undisturbed /\ step > 2 => app \in azure.apps

\* After step 3 the principal is the application's; after step 4 the secret is.
PrincipalIsApps == Undisturbed /\ step > 3 => sp = app /\ app \in azure.principals
SecretIsApps == Undisturbed /\ step > 4 => SecretIsValid

\* After step 6 the principal has its role, although the script does not look.
AppContributes == Undisturbed /\ step > 6 => app \in azure.contributors

\* After steps 7 and 8 the Aiven principal and the custom role are there, ...
AivenIsKnown == Undisturbed /\ step > 7 => azure.aivenSp
RoleExists == Undisturbed /\ step > 8 => azure.role

\* ... and no run, disturbed or not, gets past step 9 without the assignment.
GrantIsMade == ~Ended /\ step > 9 => azure.granted

\* With the session of the application, step 9 is the last that is reached.
AppSessionStops == ~Ended /\ "app_session" \in why => login = "app" /\ step <= 9

\* From step 12 on the connection is the one this run made, ...
ConnectionIsApps == ~Ended /\ step > 11 => aiven.app = app

\* ... and after the peering was made nobody takes the roles away.
RolesStay == step = 16 => MayPeer

RunInv ==
    /\ UserIsLoggedIn
    /\ AppExists
    /\ PrincipalIsApps
    /\ SecretIsApps
    /\ AppContributes
    /\ AivenIsKnown
    /\ RoleExists
    /\ GrantIsMade
    /\ AppSessionStops
    /\ ConnectionIsApps
    /\ RolesStay

IInv == TypeOK /\ RunInv

-----------------------------------------------------------------------------
(* Type correctness.                                                       *)

LEMMA IdsType ==
    /\ None \in AppIds
    /\ None \notin Apps
    /\ Apps \subseteq AppIds
    /\ NoSecret \in Secrets
    /\ NoFiles \in Files
BY BoundsAssumption DEF Apps, AppIds, None, NoSecret, Secrets, NoFiles, Files

\* Spending of a bound keeps it a number.
LEMMA SpendType ==
    ASSUME left \in Budgets, NEW what \in {"runs", "failures", "cleanups"}, Spend(what)
    PROVE  left' \in Budgets
BY DEF Spend, Budgets

\* A command that fails spends a failure, or none if it could not work.
LEMMA FailsType ==
    ASSUME left \in Budgets, why \in SUBSET Reasons, NEW needed, Fails(needed)
    PROVE  left' \in Budgets /\ why' \in SUBSET Reasons
BY SpendType DEF Fails, Reasons

\* A step of create_peering.sh, of Aiven or of the user keeps the types.
LEMMA TypeStep ==
    ASSUME TypeOK, [Next]_vars
    PROVE  TypeOK'
<1> USE DEF TypeOK, Done, Exit
<1>1. CASE Start
  <2>1. left' \in Budgets /\ why' \in SUBSET Reasons
    BY <1>1, SpendType DEF Start, StayLoggedIn, Reasons
  <2>2. QED
    BY <1>1, <2>1, IdsType DEF Start, StayLoggedIn
<1>2. CASE Step2
  <2>1. azure' \in Azures
    <3>1. PICK a \in Apps :
             azure' = [azure EXCEPT !.apps = @ \cup {a}, !.created = @ \cup {a}]
      BY <1>2 DEF Step2
    <3>2. QED
      BY <3>1 DEF Azures
  <2>2. file' \in Files
    BY <1>2, IdsType DEF Step2, Works, Files
  <2>3. QED
    BY <1>2, <2>1, <2>2, IdsType DEF Step2, Works
<1>3. CASE Step2Fails
  <2>1. app' \in AppIds /\ sp' \in AppIds /\ secret' \in Secrets
    BY <1>3 DEF Step2Fails, Proceed, Files
  <2>2. left' \in Budgets /\ why' \in SUBSET Reasons
    BY <1>3, FailsType DEF Step2Fails
  <2>3. QED
    BY <1>3, <2>1, <2>2, IdsType DEF Step2Fails, Proceed
<1>4. CASE Step3
  <2>1. azure' \in Azures
    BY <1>4, IdsType DEF Step3, Works, File3, Azures
  <2>2. file' \in Files
    BY <1>4, IdsType DEF Step3, Works, File3, Files
  <2>3. QED
    BY <1>4, <2>1, <2>2, IdsType DEF Step3, Works, File3
<1>5. CASE Step3Fails
  <2>1. app' \in AppIds /\ sp' \in AppIds /\ secret' \in Secrets
    BY <1>5 DEF Step3Fails, Proceed, Files
  <2>2. left' \in Budgets /\ why' \in SUBSET Reasons
    BY <1>5, FailsType DEF Step3Fails
  <2>3. QED
    BY <1>5, <2>1, <2>2, IdsType DEF Step3Fails, Proceed
<1>6. CASE Step4
  <2>1. azure' \in Azures
    BY <1>6, IdsType DEF Step4, Works, Azures
  <2>2. file' \in Files
    BY <1>6, IdsType DEF Step4, Works, Files, Secrets, Azures
  <2>3. secret' \in Secrets
    BY <1>6, IdsType DEF Step4, Works, Secrets, Azures
  <2>4. QED
    BY <1>6, <2>1, <2>2, <2>3, IdsType DEF Step4, Works
<1>7. CASE Step4Fails
  <2>1. app' \in AppIds /\ sp' \in AppIds /\ secret' \in Secrets
    BY <1>7 DEF Step4Fails, Proceed, Files
  <2>2. left' \in Budgets /\ why' \in SUBSET Reasons
    BY <1>7, FailsType DEF Step4Fails
  <2>3. QED
    BY <1>7, <2>1, <2>2, IdsType DEF Step4Fails, Proceed
<1>8. CASE Step5
  <2>1. left' \in Budgets /\ why' \in SUBSET Reasons
    BY <1>8, SpendType DEF Step5, Reasons
  <2>2. QED
    BY <1>8, <2>1, IdsType DEF Step5
<1>9. CASE Step6
  <2>1. azure' \in Azures
    BY <1>9, IdsType DEF Step6, Works, Azures
  <2>2. QED
    BY <1>9, <2>1, IdsType DEF Step6, Works
<1>10. CASE Step6Fails
  BY <1>10, FailsType DEF Step6Fails
<1>11. CASE Step7
  <2>1. azure' \in Azures
    BY <1>11, IdsType DEF Step7, Works, Azures
  <2>2. file' \in Files
    BY <1>11, IdsType DEF Step7, Works, Files
  <2>3. QED
    BY <1>11, <2>1, <2>2, IdsType DEF Step7, Works
<1>12. CASE Step7Fails
  <2>1. step' \in 0..Done
    BY <1>12 DEF Step7Fails, Proceed, Files
  <2>2. left' \in Budgets /\ why' \in SUBSET Reasons
    BY <1>12, FailsType DEF Step7Fails
  <2>3. QED
    BY <1>12, <2>1, <2>2, IdsType DEF Step7Fails, Proceed
<1>13. CASE Step8
  <2>1. azure' \in Azures
    BY <1>13, IdsType DEF Step8, Works, Azures
  <2>2. file' \in Files
    BY <1>13, IdsType DEF Step8, Works, Files
  <2>3. QED
    BY <1>13, <2>1, <2>2, IdsType DEF Step8, Works
<1>14. CASE Step8Fails
  BY <1>14, FailsType DEF Step8Fails, Proceed
<1>15. CASE Step9
  <2>1. azure' \in Azures
    BY <1>15, IdsType DEF Step9, Works, Azures
  <2>2. QED
    BY <1>15, <2>1, IdsType DEF Step9, Works
<1>16. CASE Step9Fails
  BY <1>16, FailsType DEF Step9Fails, AfterStep9Fails
<1>17. CASE Step11
  <2>1. aiven' \in Connections
    BY <1>17, IdsType DEF Step11, AfterExisting, Connections, States
  <2>2. left' \in Budgets /\ why' \in SUBSET Reasons
    BY <1>17, SpendType DEF Step11, AfterExisting, Reasons
  <2>3. QED
    BY <1>17, <2>1, <2>2, IdsType DEF Step11, AfterExisting
<1>18. CASE Step12
  <2>1. file' \in Files
    BY <1>18, IdsType DEF Step12, Files
  <2>2. QED
    BY <1>18, <2>1, IdsType DEF Step12
<1>19. CASE Step13Login
  <2>1. left' \in Budgets /\ why' \in SUBSET Reasons
    BY <1>19, SpendType DEF Step13Login, Reasons
  <2>2. QED
    BY <1>19, <2>1, IdsType DEF Step13Login
<1>20. CASE Step13Peer
  <2>1. azure' \in Azures
    BY <1>20, IdsType DEF Step13Peer, MayPeer, Azures
  <2>2. left' \in Budgets /\ why' \in SUBSET Reasons
    BY <1>20, SpendType DEF Step13Peer, MayPeer, Reasons
  <2>3. QED
    BY <1>20, <2>1, <2>2, IdsType DEF Step13Peer, MayPeer
<1>21. CASE Step13Wait
  BY <1>21 DEF Step13Wait
<1>22. CASE AivenProgress
  <2>1. aiven' \in Connections
    BY <1>22, IdsType DEF AivenProgress, Connections, States
  <2>2. QED
    BY <1>22, <2>1, IdsType DEF AivenProgress
<1>23. CASE Cleanup
  <2>1. azure' \in Azures
    <3>1. CASE \E a \in azure.apps :
                  azure' = [azure EXCEPT !.apps = @ \ {a}, !.principals = @ \ {a},
                                         !.contributors = @ \ {a}]
      <4>1. PICK a : azure' = [azure EXCEPT !.apps = @ \ {a}, !.principals = @ \ {a},
                                            !.contributors = @ \ {a}]
        BY <3>1
      <4>2. QED
        BY <4>1 DEF Azures
    <3>2. CASE azure' = [azure EXCEPT !.aivenSp = FALSE, !.granted = FALSE]
      BY <3>2 DEF Azures
    <3>3. CASE azure' = [azure EXCEPT !.role = FALSE, !.granted = FALSE]
      BY <3>3 DEF Azures
    <3>4. QED
      BY <1>23, <3>1, <3>2, <3>3 DEF Cleanup
  <2>2. file' \in Files
    BY <1>23, IdsType DEF Cleanup, NoFiles, Files
  <2>3. left' \in Budgets /\ why' \in SUBSET Reasons
    BY <1>23, SpendType DEF Cleanup, NoFiles, Reasons
  <2>4. QED
    BY <1>23, <2>1, <2>2, <2>3, IdsType DEF Cleanup, NoFiles
<1>24. CASE DeleteConnection
  <2>1. azure' \in Azures
    BY <1>24, IdsType DEF DeleteConnection, Azures
  <2>2. aiven' \in Connections
    BY <1>24, IdsType DEF DeleteConnection, Connections, States
  <2>3. left' \in Budgets /\ why' \in SUBSET Reasons
    BY <1>24, SpendType DEF DeleteConnection, Reasons
  <2>4. QED
    BY <1>24, <2>1, <2>2, <2>3, IdsType DEF DeleteConnection
<1>25. CASE UNCHANGED vars
  BY <1>25 DEF vars
<1>26. CASE StartFails
  <2>1. left' \in Budgets /\ why' \in SUBSET Reasons
    BY <1>26, SpendType DEF StartFails, Reasons
  <2>2. QED
    BY <1>26, <2>1, IdsType DEF StartFails, StayLoggedIn
<1>27. CASE Step12Fails
  <2>1. left' \in Budgets /\ why' \in SUBSET Reasons
    BY <1>27, SpendType DEF Step12Fails, Reasons
  <2>2. QED
    BY <1>27, <2>1, IdsType DEF Step12Fails, Proceed
<1>28. CASE Step13SecondLogin
  <2>1. left' \in Budgets /\ why' \in SUBSET Reasons
    BY <1>28, SpendType DEF Step13SecondLogin, Reasons
  <2>2. QED
    BY <1>28, <2>1, IdsType DEF Step13SecondLogin
<1>29. QED
  BY <1>1, <1>2, <1>3, <1>4, <1>5, <1>6, <1>7, <1>8, <1>9, <1>10, <1>11, <1>12,
       <1>13, <1>14, <1>15, <1>16, <1>17, <1>18, <1>19, <1>20, <1>21, <1>22,
       <1>23, <1>24, <1>25, <1>26, <1>27, <1>28 DEF Next, Script

-----------------------------------------------------------------------------
(* What a run has established.                                             *)

LEMMA RunStep ==
    ASSUME IInv, [Next]_vars
    PROVE  RunInv'
<1> USE DEF IInv, RunInv, UserIsLoggedIn, AppExists, PrincipalIsApps, SecretIsApps,
            AppContributes, AivenIsKnown, RoleExists, GrantIsMade, AppSessionStops,
            ConnectionIsApps, RolesStay,
            TypeOK, Undisturbed, Ended, Done, Exit, SecretIsValid, MayPeer
<1>1. CASE Start
  BY <1>1, IdsType DEF Start, Spend, StayLoggedIn
<1>2. CASE Step2
  BY <1>2, IdsType DEF Step2, Works, Azures
<1>3. CASE Step2Fails
  BY <1>3, IdsType DEF Step2Fails, Fails, Spend, Proceed
<1>4. CASE Step3
  BY <1>4, IdsType DEF Step3, Works, File3, Azures
<1>5. CASE Step3Fails
  BY <1>5, IdsType DEF Step3Fails, Fails, Spend, Proceed
<1>6. CASE Step4
  BY <1>6, IdsType DEF Step4, Works, Azures
<1>7. CASE Step4Fails
  BY <1>7, IdsType DEF Step4Fails, Fails, Spend, Proceed
<1>8. CASE Step5
  BY <1>8, IdsType DEF Step5, Spend
<1>9. CASE Step6
  BY <1>9, IdsType DEF Step6, Works, Azures
<1>10. CASE Step6Fails
  BY <1>10, IdsType DEF Step6Fails, Fails, Spend
<1>11. CASE Step7
  BY <1>11, IdsType DEF Step7, Works, Azures
<1>12. CASE Step7Fails
  BY <1>12, IdsType DEF Step7Fails, Fails, Spend, Proceed
<1>13. CASE Step8
  BY <1>13, IdsType DEF Step8, Works, Azures
<1>14. CASE Step8Fails
  BY <1>14, IdsType DEF Step8Fails, Fails, Spend, Proceed
<1>15. CASE Step9
  BY <1>15, IdsType DEF Step9, Works, Azures
<1>16. CASE Step9Fails
  BY <1>16, IdsType DEF Step9Fails, Fails, Spend, AfterStep9Fails
<1>17. CASE Step11
  BY <1>17, IdsType DEF Step11, Spend, AfterExisting, Connections
<1>18. CASE Step12
  BY <1>18, IdsType DEF Step12, Awaited
<1>19. CASE Step13Login
  BY <1>19, IdsType DEF Step13Login, Spend
<1>20. CASE Step13Peer
  BY <1>20, IdsType DEF Step13Peer, Spend, Azures
<1>21. CASE Step13Wait
  BY <1>21, IdsType DEF Step13Wait
<1>22. CASE AivenProgress
  BY <1>22, IdsType DEF AivenProgress, Connections
<1>23. CASE Cleanup
  <2>1. step \in {Exit, Done} /\ step' = step
    BY <1>23 DEF Cleanup
  <2>2. QED
    BY <2>1
<1>24. CASE DeleteConnection
  <2>1. step \in {Exit, Done} /\ step' = step
    BY <1>24 DEF DeleteConnection
  <2>2. QED
    BY <2>1
<1>25. CASE UNCHANGED vars
  BY <1>25 DEF vars
<1>26. CASE StartFails
  BY <1>26 DEF StartFails
<1>27. CASE Step12Fails
  BY <1>27, IdsType DEF Step12Fails, Spend, Proceed
<1>28. CASE Step13SecondLogin
  BY <1>28, IdsType DEF Step13SecondLogin, Spend
<1>29. QED
  BY <1>1, <1>2, <1>3, <1>4, <1>5, <1>6, <1>7, <1>8, <1>9, <1>10, <1>11, <1>12,
       <1>13, <1>14, <1>15, <1>16, <1>17, <1>18, <1>19, <1>20, <1>21, <1>22,
       <1>23, <1>24, <1>25, <1>26, <1>27, <1>28 DEF Next, Script

\* The first state of the system: nothing exists, and no run has been started.
LEMMA InitIInv ==
    ASSUME Init
    PROVE  IInv
<1>1. azure \in Azures
  BY DEF Init, Azures
<1>2. aiven \in Connections
  BY IdsType DEF Init, Connections, States
<1>3. left \in Budgets
  BY BoundsAssumption DEF Init, Budgets
<1>4. TypeOK
  BY <1>1, <1>2, <1>3, IdsType DEF Init, TypeOK, Exit, Done
<1>5. RunInv
  BY DEF Init, RunInv, UserIsLoggedIn, AppExists, PrincipalIsApps, SecretIsApps,
         AppContributes, AivenIsKnown, RoleExists, GrantIsMade, AppSessionStops,
         ConnectionIsApps, RolesStay, Undisturbed, Ended, Exit
<1>6. QED
  BY <1>4, <1>5 DEF IInv

\* IInv holds in every state of every behaviour.
THEOREM Invariance == Spec => []IInv
<1>1. Init => IInv
  BY InitIInv
<1>2. IInv /\ [Next]_vars => IInv'
  BY TypeStep, RunStep DEF IInv
<1>3. QED
  BY <1>1, <1>2, PTL DEF Spec

-----------------------------------------------------------------------------
(* The properties.                                                         *)

\* A run that ends with an error (the exits of lines 132-355) met a failing
\* command, the application's session, an existing connection, or a custom role
\* whose step file is gone.
THEOREM ErrorsAreExplained == Spec => ErrorsHaveACause
<1>1. ASSUME IInv, Next, step' = Exit, step # Exit, why' = {}
      PROVE  azure.role /\ ~file.f8
  <2> USE DEF Exit, Done, Ended, Undisturbed
  <2>1. file \in Files
    BY <1>1 DEF IInv, TypeOK
  <2>2. step \in 0..Done /\ RunInv
    BY <1>1 DEF IInv, TypeOK
  <2>3. CASE Step2Fails
    BY <1>1, <2>1, <2>2, <2>3 DEF Files, RunInv, UserIsLoggedIn, Fails,
           Step2Fails, Proceed
  <2>4. CASE Step3Fails
    BY <1>1, <2>1, <2>2, <2>4 DEF Files, RunInv, UserIsLoggedIn, AppExists, Fails,
           Step3Fails, Proceed
  <2>5. CASE Step4Fails
    BY <1>1, <2>1, <2>2, <2>5 DEF Files, RunInv, UserIsLoggedIn, AppExists, Fails,
           Step4Fails, Proceed
  <2>6. CASE Step5
    BY <1>1, <2>2, <2>6 DEF Step5
  <2>7. CASE Step7Fails
    BY <1>1, <2>1, <2>2, <2>7 DEF Files, RunInv, UserIsLoggedIn, Fails,
           Step7Fails, Proceed
  <2>8. CASE Step8Fails
    BY <1>1, <2>1, <2>2, <2>8 DEF Files, RunInv, UserIsLoggedIn, Fails,
           Step8Fails, Proceed
  <2>9. CASE Step9Fails
    BY <1>1, <2>1, <2>2, <2>9 DEF Files, RunInv, UserIsLoggedIn, AivenIsKnown,
         RoleExists, Fails,
           Step9Fails, AfterStep9Fails
  <2>10. CASE Step11
    BY <1>1, <2>2, <2>10 DEF Step11
  <2>11. CASE Step13Login
    BY <1>1, <2>2, <2>11 DEF RunInv, PrincipalIsApps, SecretIsApps, Step13Login
  <2>12. CASE Step13Peer
    BY <1>1, <2>2, <2>12 DEF RunInv, AppContributes, GrantIsMade, MayPeer, Step13Peer
  <2>13. CASE Step2 \/ Step3 \/ Step4 \/ Step6 \/ Step6Fails
    <3>1. step' \in {3, 4, 5, 7}
      BY <2>13 DEF Step2, Step3, Step4, Step6, Step6Fails
    <3>2. QED
      BY <1>1, <3>1
  <2>14. CASE Step7 \/ Step8 \/ Step9 \/ Step12 \/ Step13Wait
    <3>1. step' \in {8, 9, 11, 13, Done}
      BY <2>14 DEF Step7, Step8, Step9, Step12, Step13Wait
    <3>2. QED
      BY <1>1, <3>1
  <2>15. CASE Start \/ AivenProgress \/ Cleanup \/ DeleteConnection
    <3>1. step' \in {2, step}
      BY <2>15 DEF Start, AivenProgress, Cleanup, DeleteConnection
    <3>2. QED
      BY <1>1, <3>1
  <2>16. CASE StartFails \/ Step12Fails \/ Step13SecondLogin
    BY <1>1, <2>16 DEF StartFails, Step12Fails, Step13SecondLogin
  <2>17. QED
    BY <1>1, <2>3, <2>4, <2>5, <2>6, <2>7, <2>8, <2>9, <2>10, <2>11, <2>12,
         <2>13, <2>14, <2>15, <2>16 DEF Next, Script
<1>2. IInv /\ [Next]_vars => [step' = Exit /\ step # Exit /\ why' = {}
                               => azure.role /\ ~file.f8]_vars
  BY <1>1 DEF vars
<1>3. QED
  BY <1>2, Invariance, PTL DEF Spec, ErrorsHaveACause

\* A run that finds the application logged in (lines 33-36) ends before it
\* changes anything at Azure or creates a connection.
THEOREM AppSessionIsHarmless == Spec => AppSessionChangesNothing
<1>1. ASSUME IInv, Next, ~Ended, "app_session" \in why
      PROVE  azure' = azure /\ (aiven.state = "none" => aiven' = aiven)
  <2>1. login = "app" /\ step <= 9 /\ step \in 0..Done
    BY <1>1 DEF IInv, TypeOK, RunInv, AppSessionStops
  <2>2. CASE \/ Step2 \/ Step3 \/ Step4 \/ Step6 \/ Step7 \/ Step8 \/ Step9
    BY <2>1, <2>2 DEF Step2, Step3, Step4, Step6, Step7, Step8, Step9, Works
  <2>3. CASE \/ Step2Fails \/ Step3Fails \/ Step4Fails \/ Step5
            \/ Step6Fails \/ Step7Fails \/ Step8Fails \/ Step9Fails
    BY <2>3 DEF Step2Fails, Step3Fails, Step4Fails, Step5,
           Step6Fails, Step7Fails, Step8Fails, Step9Fails
  <2>4. CASE \/ Step11 \/ Step12 \/ Step12Fails \/ Step13Login \/ Step13SecondLogin
            \/ Step13Peer \/ Step13Wait
    BY <2>1, <2>4 DEF Step11, Step12, Step12Fails, Step13Login, Step13SecondLogin, Step13Peer,
           Step13Wait
  <2>5. CASE Start \/ StartFails \/ AivenProgress \/ Cleanup \/ DeleteConnection
    BY <1>1, <2>5 DEF Start, StartFails, AivenProgress, Cleanup, DeleteConnection
  <2>6. QED
    BY <1>1, <2>2, <2>3, <2>4, <2>5 DEF Next, Script
<1>2. IInv /\ [Next]_vars =>
         [~Ended /\ "app_session" \in why =>
            azure' = azure /\ (aiven.state = "none" => aiven' = aiven)]_vars
  BY <1>1 DEF vars
<1>3. QED
  BY <1>2, Invariance, PTL DEF Spec, AppSessionChangesNothing

\* When the script ends with success (lines 358-374), the connection is active and
\* belongs to the application that has the roles, even if commands of the run
\* failed on the way.
THEOREM SuccessMeansPeered == Spec => DoneMeansPeered
<1>1. ASSUME IInv, Next, step' = Done, step # Done
      PROVE  aiven.state = "ACTIVE" /\ aiven.app = app /\ MayPeer
  <2>1. step = 16 /\ aiven.state = "ACTIVE"
    <3> USE DEF Exit, Done
    <3>1. CASE \/ Step2Fails \/ Step3Fails \/ Step4Fails \/ Step7Fails \/ Step8Fails
              \/ Step9Fails
      BY <1>1, <3>1 DEF Step2Fails, Step3Fails, Step4Fails, Step7Fails, Step8Fails,
             Step9Fails, Proceed, AfterStep9Fails
    <3>2. CASE Step2 \/ Step3 \/ Step4 \/ Step5 \/ Step6 \/ Step6Fails
      BY <1>1, <3>2 DEF Step2, Step3, Step4, Step5, Step6, Step6Fails
    <3>3. CASE StartFails \/ Step7 \/ Step8 \/ Step9 \/ Step12 \/ Step12Fails
      BY <1>1, <3>3 DEF StartFails, Step7, Step8, Step9, Step12, Step12Fails, Proceed
    <3>4. CASE Step11 \/ Step13Login \/ Step13SecondLogin \/ Step13Peer
      BY <1>1, <3>4 DEF Step11, Step13Login, Step13SecondLogin, Step13Peer, AfterExisting
    <3>5. CASE Start \/ AivenProgress \/ Cleanup \/ DeleteConnection
      <4>1. step' \in {2, step}
        BY <3>5 DEF Start, AivenProgress, Cleanup, DeleteConnection
      <4>2. QED
        BY <1>1, <4>1
    <3>6. CASE Step13Wait
      BY <3>6 DEF Step13Wait
    <3>7. QED
      BY <1>1, <3>1, <3>2, <3>3, <3>4, <3>5, <3>6 DEF Next, Script
  <2>2. QED
    BY <1>1, <2>1 DEF IInv, RunInv, ConnectionIsApps, RolesStay, Ended, Exit, Done
<1>2. IInv /\ [Next]_vars =>
         [step' = Done /\ step # Done =>
            aiven.state = "ACTIVE" /\ aiven.app = app /\ MayPeer]_vars
  BY <1>1 DEF vars
<1>3. QED
  BY <1>2, Invariance, PTL DEF Spec, DoneMeansPeered
=============================================================================
