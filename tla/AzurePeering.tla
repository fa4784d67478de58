---------------------------- MODULE AzurePeering ----------------------------
(***************************************************************************)
(* solutions/azure-vnet-peering/create_peering.sh: a script of 13 steps    *)
(* that peers an Azure VNet with an Aiven project VPC.                     *)
(*                                                                         *)
(* Most steps run a command, save its output in a file if there is any,    *)
(* and go on with what the file holds, which after a failed command is     *)
(* what an earlier run has left there.  The script ends at the first step  *)
(* that finds nothing; its user cleans up as README.md says, completely or *)
(* not, and starts it again.                                               *)
(*                                                                         *)
(* Application objects are numbered in the order of their creation, and a  *)
(* service principal has the number of its application.  A secret is an    *)
(* application with the number of its credential reset.  The VNet, the     *)
(* subscription, the tenants and the project VPC are the same in all runs  *)
(* and left out.                                                           *)
(***************************************************************************)
EXTENDS Naturals

CONSTANTS
    MaxApps,      \* bounds: application objects, ...
    MaxRuns,      \* ... runs of the script, ...
    MaxResets,    \* ... credential resets of one application, ...
    MaxFailures,  \* ... commands that fail, ...
    MaxCleanups   \* ... and clean-ups between the runs

ASSUME BoundsAssumption ==
    /\ MaxApps \in Nat \ {0}
    /\ MaxRuns \in Nat
    /\ MaxResets \in Nat \ {0}
    /\ MaxFailures \in Nat
    /\ MaxCleanups \in Nat

VARIABLES
    login,    \* az: "none", "user" or "app"
    azure,    \* what exists in Azure
    aiven,    \* the peering connection at Aiven: its state and application
    file,     \* the step files that later runs may read
    step,     \* the step that comes next, Done or Exit
    app,      \* user_app_id
    sp,       \* user_sp_id
    secret,   \* user_app_secret
    left,     \* how much of each bound is left
    why       \* auxiliary: what this run met

vars == <<login, azure, aiven, file, step, app, sp, secret, left, why>>

None == 0
Apps == 1..MaxApps
NoSecret == [app |-> None, version |-> 0]
NoFiles == [f2 |-> None, f3 |-> None, f4 |-> NoSecret, f7 |-> FALSE, f8 |-> FALSE,
            f12 |-> FALSE]
Exit == 0     \* the script is not running, or ended with an error
Done == 17    \* it ended with success
Ended == step \in {Exit, Done}

Init ==
    /\ login = "none"
    /\ azure = [apps |-> {}, created |-> {}, principals |-> {}, version |-> [a \in Apps |-> 0],
                contributors |-> {}, aivenSp |-> FALSE, role |-> FALSE, granted |-> FALSE,
                peering |-> FALSE]
    /\ aiven = [state |-> "none", app |-> None]
    /\ file = NoFiles
    /\ step = Exit
    /\ app = None /\ sp = None /\ secret = NoSecret
    /\ left = [runs |-> MaxRuns, failures |-> MaxFailures, cleanups |-> MaxCleanups]
    /\ why = {}

Spend(what) ==
    /\ left[what] > 0
    /\ left' = [left EXCEPT ![what] = @ - 1]

\* A command that changes Azure works for the user, not for the application,
\* and only if what it needs is there.
Works(needed) == login = "user" /\ needed /\ UNCHANGED <<left, why>>

Fails(needed) ==
    \/ ~(login = "user" /\ needed) /\ UNCHANGED <<left, why>>
    \/ Spend("failures") /\ why' = why \cup {"failure"}

\* Go on if the step has its value, end if not.
Proceed(found, next) == step' = IF found THEN next ELSE Exit

-----------------------------------------------------------------------------
\* Steps 1, 1A and 1B: whoever is logged in stays so.
StayLoggedIn == IF login = "none" THEN "user" ELSE login

\* Bound: a run is started only while step 2 has an application to find or make.
AppsLeft == azure.apps # {} \/ azure.created # Apps

Start ==
    /\ Ended
    /\ AppsLeft
    /\ Spend("runs")
    /\ login' = StayLoggedIn
    /\ step' = 2
    /\ app' = None /\ sp' = None /\ secret' = NoSecret
    /\ why' = {x \in {"app_session"} : login' = "app"}
    /\ UNCHANGED <<azure, aiven, file>>

\* No subscription, no VNet, no resource group or no login at Aiven: the run
\* ends there, but whoever az has logged in stays so.
StartFails ==
    /\ Ended
    /\ Spend("runs")
    /\ login' \in {login, StayLoggedIn}
    /\ step' = Exit
    /\ app' = None /\ sp' = None /\ secret' = NoSecret
    /\ why' = {"failure"}
    /\ UNCHANGED <<azure, aiven, file>>

\* Step 2: az ad app create finds the application of that name or makes one.
Step2 ==
    /\ step = 2
    /\ Works(TRUE)
    /\ \E a \in Apps :
          /\ a \in azure.apps \/ a \notin azure.created
          /\ azure' = [azure EXCEPT !.apps = @ \cup {a}, !.created = @ \cup {a}]
          /\ file' = [file EXCEPT !.f2 = a]
          /\ app' = a
    /\ step' = 3
    /\ UNCHANGED <<login, aiven, sp, secret>>

Step2Fails ==
    /\ step = 2
    /\ Fails(TRUE)
    /\ app' = file.f2
    /\ Proceed(app' # None, 3)
    /\ UNCHANGED <<login, azure, aiven, file, sp, secret>>

\* Step 3: the principal in the file is the one that was found or created now.
KeepFile3 == IF file.f3 # None THEN file.f3 ELSE app  \* mutant

File3 == app

Step3 ==
    /\ step = 3
    /\ Works(app \in azure.apps)
    /\ azure' = [azure EXCEPT !.principals = @ \cup {app}]
    /\ file' = [file EXCEPT !.f3 = File3]
    /\ sp' = File3
    /\ step' = 4
    /\ UNCHANGED <<login, aiven, app, secret>>

Step3Fails ==
    /\ step = 3
    /\ Fails(app \in azure.apps)
    /\ sp' = file.f3
    /\ Proceed(sp' # None, 4)
    /\ UNCHANGED <<login, azure, aiven, file, app, secret>>

\* Step 4: every run resets the secret.
Step4 ==
    /\ step = 4
    /\ Works(app \in azure.apps)
    /\ azure.version[app] < MaxResets
    /\ azure' = [azure EXCEPT !.version[app] = @ + 1]
    /\ secret' = [app |-> app, version |-> azure.version[app] + 1]
    /\ file' = [file EXCEPT !.f4 = secret']
    /\ step' = 5
    /\ UNCHANGED <<login, aiven, app, sp>>

Step4Fails ==
    /\ step = 4
    /\ Fails(app \in azure.apps)
    /\ secret' = file.f4
    /\ Proceed(secret' # NoSecret, 5)
    /\ UNCHANGED <<login, azure, aiven, file, app, sp>>

\* Step 5: the VNet is looked up.  Step 6: the principal gets the Network
\* Contributor role on it; that this may fail is not looked at.
Step5 ==
    /\ step = 5
    /\ \/ step' = 6 /\ UNCHANGED <<left, why>>
       \/ step' = Exit /\ Spend("failures") /\ why' = why \cup {"failure"}
    /\ UNCHANGED <<login, azure, aiven, file, app, sp, secret>>

Step6 ==
    /\ step = 6
    /\ Works(sp \in azure.principals)
    /\ azure' = [azure EXCEPT !.contributors = @ \cup {sp}]
    /\ step' = 7
    /\ UNCHANGED <<login, aiven, file, app, sp, secret>>

Step6Fails ==
    /\ step = 6
    /\ Fails(sp \in azure.principals)
    /\ step' = 7
    /\ UNCHANGED <<login, azure, aiven, file, app, sp, secret>>

\* Step 7: a principal for the Aiven application.
Step7 ==
    /\ step = 7
    /\ Works(TRUE)
    /\ azure' = [azure EXCEPT !.aivenSp = TRUE]
    /\ file' = [file EXCEPT !.f7 = TRUE]
    /\ step' = 8
    /\ UNCHANGED <<login, aiven, app, sp, secret>>

Step7Fails ==
    /\ step = 7
    /\ Fails(TRUE)
    /\ Proceed(file.f7, 8)
    /\ UNCHANGED <<login, azure, aiven, file, app, sp, secret>>

\* Step 8: the custom role.  A role of that name may be there already.
Step8 ==
    /\ step = 8
    /\ Works(~azure.role)
    /\ azure' = [azure EXCEPT !.role = TRUE]
    /\ file' = [file EXCEPT !.f8 = TRUE]
    /\ step' = 9
    /\ UNCHANGED <<login, aiven, app, sp, secret>>

Step8Fails ==
    /\ step = 8
    /\ Fails(~azure.role)
    /\ Proceed(file.f8, 9)
    /\ UNCHANGED <<login, azure, aiven, file, app, sp, secret>>

\* Step 9: the Aiven principal gets the custom role; a failure ends the run.
Step9 ==
    /\ step = 9
    /\ Works(azure.role /\ azure.aivenSp)
    /\ azure' = [azure EXCEPT !.granted = TRUE]
    /\ step' = 11
    /\ UNCHANGED <<login, aiven, file, app, sp, secret>>

GoOn == 11  \* mutant

AfterStep9Fails == Exit

Step9Fails ==
    /\ step = 9
    /\ Fails(azure.role /\ azure.aivenSp)
    /\ step' = AfterStep9Fails
    /\ UNCHANGED <<login, azure, aiven, file, app, sp, secret>>

\* Steps 10 and 11: the connection at Aiven, which must not exist yet.
UseExisting == 12  \* mutant

AfterExisting == Exit

Step11 ==
    /\ step = 11
    /\ \/ /\ aiven.state = "none"
          /\ aiven' = [state |-> "APPROVED", app |-> app]
          /\ step' = 12
          /\ UNCHANGED <<left, why>>
       \/ /\ aiven.state # "none"
          /\ step' = AfterExisting
          /\ why' = why \cup {"connection_exists"}
          /\ UNCHANGED <<aiven, left>>
       \/ /\ Spend("failures")
          /\ why' = why \cup {"failure"}
          /\ step' = Exit
          /\ UNCHANGED aiven
    /\ UNCHANGED <<login, azure, file, app, sp, secret>>

\* Step 12 waits for one state only, and then asks for the connection once more.
AwaitActive == "ACTIVE"  \* mutant

Awaited == "PENDING_PEER"

Step12 ==
    /\ step = 12
    /\ aiven.state = Awaited
    /\ file' = [file EXCEPT !.f12 = TRUE]
    /\ step' = 13
    /\ UNCHANGED <<login, azure, aiven, app, sp, secret, left, why>>

\* The ids of Aiven's side are then taken from the file of an earlier run.
Step12Fails ==
    /\ step = 12
    /\ aiven.state = Awaited
    /\ Spend("failures")
    /\ why' = why \cup {"failure"}
    /\ Proceed(file.f12, 13)
    /\ UNCHANGED <<login, azure, aiven, file, app, sp, secret>>

\* Step 13: the user is logged out, the application logs in to the user's
\* tenant, ...
SecretIsValid == secret = [app |-> app, version |-> azure.version[app]]

Step13Login ==
    /\ step = 13
    /\ \/ /\ SecretIsValid /\ app \in azure.principals
          /\ login' = "app" /\ step' = 14
          /\ UNCHANGED <<left, why>>
       \/ /\ ~(SecretIsValid /\ app \in azure.principals)
          /\ login' = "none" /\ step' = Exit
          /\ UNCHANGED <<left, why>>
       \/ /\ Spend("failures")
          /\ why' = why \cup {"failure"}
          /\ login' = "none" /\ step' = Exit
    /\ UNCHANGED <<azure, aiven, file, app, sp, secret>>

\* ... and to Aiven's; when that fails it stays logged in to the first, ...
Step13SecondLogin ==
    /\ step = 14
    /\ \/ step' = 15 /\ UNCHANGED <<left, why>>
       \/ step' = Exit /\ Spend("failures") /\ why' = why \cup {"failure"}
    /\ UNCHANGED <<login, azure, aiven, file, app, sp, secret>>

\* ... creates the peering, for which it needs its role, ...
MayPeer == app \in azure.contributors /\ azure.granted

Step13Peer ==
    /\ step = 15
    /\ \/ /\ MayPeer
          /\ azure' = [azure EXCEPT !.peering = TRUE]
          /\ step' = 16
          /\ UNCHANGED <<left, why>>
       \/ /\ ~MayPeer
          /\ step' = Exit
          /\ UNCHANGED <<azure, left, why>>
       \/ /\ Spend("failures")
          /\ why' = why \cup {"failure"}
          /\ step' = Exit
          /\ UNCHANGED azure
    /\ UNCHANGED <<login, aiven, file, app, sp, secret>>

\* ... and waits for the connection to become active, then logs out.
Step13Wait ==
    /\ step = 16
    /\ aiven.state = "ACTIVE"
    /\ login' = "none"
    /\ step' = Done
    /\ UNCHANGED <<azure, aiven, file, app, sp, secret, left, why>>

-----------------------------------------------------------------------------
(* Aiven, and the user between two runs.                                   *)

AivenProgress ==
    /\ \/ /\ aiven.state = "APPROVED"
          /\ \E s \in {"PENDING_PEER", "INVALID_SPECIFICATION"} :
                aiven' = [aiven EXCEPT !.state = s]
       \/ /\ aiven.state = "PENDING_PEER" /\ azure.peering
          /\ aiven' = [aiven EXCEPT !.state = "ACTIVE"]
    /\ UNCHANGED <<login, azure, file, step, app, sp, secret, left, why>>

\* README.md, "Handling errors or starting from scratch": any of its parts.
Cleanup ==
    /\ Ended
    /\ Spend("cleanups")
    /\ \/ /\ \E a \in azure.apps :
                azure' = [azure EXCEPT !.apps = @ \ {a}, !.principals = @ \ {a},
                                       !.contributors = @ \ {a}]
          /\ UNCHANGED <<login, aiven, file>>
       \/ /\ azure' = [azure EXCEPT !.aivenSp = FALSE, !.granted = FALSE]
          /\ UNCHANGED <<login, aiven, file>>
       \/ /\ azure' = [azure EXCEPT !.role = FALSE, !.granted = FALSE]
          /\ UNCHANGED <<login, aiven, file>>
       \/ file' = NoFiles /\ UNCHANGED <<login, azure, aiven>>
       \/ login' = "user" /\ UNCHANGED <<azure, aiven, file>>
    /\ UNCHANGED <<step, app, sp, secret, why>>

\* The connection is deleted at Aiven, and with it the peering.
DeleteConnection ==
    /\ Ended
    /\ Spend("cleanups")
    /\ aiven' = [state |-> "none", app |-> None]
    /\ azure' = [azure EXCEPT !.peering = FALSE]
    /\ UNCHANGED <<login, file, step, app, sp, secret, why>>

Script ==
    \/ Step2 \/ Step2Fails \/ Step3 \/ Step3Fails \/ Step4 \/ Step4Fails
    \/ Step5 \/ Step6 \/ Step6Fails \/ Step7 \/ Step7Fails \/ Step8 \/ Step8Fails
    \/ Step9 \/ Step9Fails \/ Step11 \/ Step12 \/ Step12Fails
    \/ Step13Login \/ Step13SecondLogin \/ Step13Peer \/ Step13Wait

Next == Start \/ StartFails \/ Script \/ AivenProgress \/ Cleanup \/ DeleteConnection

Spec == Init /\ [][Next]_vars

\* The script runs on, and Aiven works on the connection.
FairSpec == Spec /\ WF_vars(Script) /\ WF_vars(AivenProgress)

-----------------------------------------------------------------------------
(* Properties.                                                             *)

\* A run that ends with an error met a command that failed, the session of the
\* application, a connection that exists already, or a custom role without its
\* step file: nothing else that earlier runs or clean-ups leave behind stops
\* the script, in particular no id of an earlier run's file (lines 123-172) that
\* is taken for one of this run.
ErrorsHaveACause ==
    [][step' = Exit /\ step # Exit /\ why' = {} => azure.role /\ ~file.f8]_vars

\* A run that finds the application logged in ("if step 13 failed, you would
\* most likely have to log in", README.md:31) works on old ids only, so it must
\* end before it changes anything at Azure or creates a connection.
AppSessionChangesNothing ==
    [][~Ended /\ "app_session" \in why =>
         azure' = azure /\ (aiven.state = "none" => aiven' = aiven)]_vars

\* When the script is done, the connection is active, and made for the very
\* application that has the role on the VNet.
DoneMeansPeered ==
    [][step' = Done /\ step # Done =>
         aiven.state = "ACTIVE" /\ aiven.app = app /\ MayPeer]_vars

\* A run ends, unless Aiven does not accept the connection: then the loop of
\* step 12 (lines 299-309) goes on for ever.
RunEnds == (step = 2) ~> (Ended \/ aiven.state = "INVALID_SPECIFICATION")
=============================================================================
