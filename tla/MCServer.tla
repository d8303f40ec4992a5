------------------------------ MODULE MCServer -------------------------------
(***************************************************************************)
(* The parts of the relay server and of the way onto it share no state     *)
(* but what each module abstracts of the others, so a behaviour is about   *)
(* one of them.                                                            *)
(***************************************************************************)
EXTENDS Rekey, Login, Accounts, Devices, Onboarding, LibraryLogin,
        Migration, TLC

VARIABLE part

Init ==
  /\ part \in {"rekey", "login", "accounts", "devices", "onboarding", "library",
               "migration"}
  /\ RekeyInit /\ LoginInit /\ AccountsInit /\ DevicesInit /\ OnboardingInit
  /\ LibraryLoginInit /\ MigrationInit
  \* Only the part that runs has a choice of initial states.
  /\ part = "login" \/ verified
  /\ part = "devices" \/ approvals
  /\ part = "onboarding" \/ (rows = {} /\ guarded)
  /\ part = "migration" \/ (blob = {} /\ opstore[1] = Passphrase)

Next ==
  /\ \/ /\ part = "rekey" /\ RekeyNext
        /\ UNCHANGED <<loginVars, accountsVars, devicesVars, onboardingVars,
                        libraryLoginVars, migrationVars>>
     \/ /\ part = "login" /\ LoginNext
        /\ UNCHANGED <<rekeyVars, accountsVars, devicesVars, onboardingVars,
                        libraryLoginVars, migrationVars>>
     \/ /\ part = "accounts" /\ AccountsNext
        /\ UNCHANGED <<rekeyVars, loginVars, devicesVars, onboardingVars,
                        libraryLoginVars, migrationVars>>
     \/ /\ part = "devices" /\ DevicesNext
        /\ UNCHANGED <<rekeyVars, loginVars, accountsVars, onboardingVars,
                        libraryLoginVars, migrationVars>>
     \/ /\ part = "onboarding" /\ OnboardingNext
        /\ UNCHANGED <<rekeyVars, loginVars, accountsVars, devicesVars,
                        libraryLoginVars, migrationVars>>
     \/ /\ part = "library" /\ LibraryLoginNext
        /\ UNCHANGED <<rekeyVars, loginVars, accountsVars, devicesVars,
                        onboardingVars, migrationVars>>
     \/ /\ part = "migration" /\ MigrationNext
        /\ UNCHANGED <<rekeyVars, loginVars, accountsVars, devicesVars,
                        onboardingVars, libraryLoginVars>>
  /\ UNCHANGED part

Spec ==
  Init /\ [][Next]_<<part, rekeyVars, loginVars, accountsVars, devicesVars,
                     onboardingVars, libraryLoginVars, migrationVars>>

\* The configuration gives the actors of most parts the same names, so that one
\* permutation serves them all.
Symmetry == Permutations(Device)

=============================================================================
