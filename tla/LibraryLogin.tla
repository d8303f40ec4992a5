---------------------------- MODULE LibraryLogin ------------------------------
(***************************************************************************)
(* A library that is protected by a passphrase alone: toku sync init and   *)
(* the handlers it calls.                                                  *)
(*                                                                         *)
(* The first machine enrolls the library and itself; every other one logs  *)
(* in with the passphrase and registers.  srp_verify issues the session    *)
(* before the server knows which machine is asking, in the name of the     *)
(* device enrolled last, and register binds it to the new device           *)
(* afterwards.  The name matters: pull_ops leaves out the ops of the       *)
(* session's device, and the cursor passes them.                           *)
(*                                                                         *)
(* Handlers are atomic here (Login takes srp_verify apart); a machine runs *)
(* one command at a time and may be cut off between two requests.  An op   *)
(* is its position in the order of the relay, which is also the order of   *)
(* pushing: SyncRelay is about the difference.                             *)
(***************************************************************************)
EXTENDS Naturals, Sequences

CONSTANTS
  Machine,     \* the machines that know the passphrase
  MaxMembers,  \* bound on the devices enrolled
  MaxTokens,   \* bound on the sessions, of the server and in token stores
  MaxMessages, \* bound on the ops pushed
  MaxSlips     \* bound on the commands cut off and the statements that fail

ASSUME LibraryLoginAssumption ==
  /\ MaxMembers \in Nat \ {0} /\ MaxTokens \in Nat
  /\ MaxMessages \in Nat /\ MaxSlips \in Nat

VARIABLES
  \* the server
  verifier,  \* the library has a row in accounts
  members,   \* its devices, in the order of their rows
  bound,     \* bound[t]: the device of session t, 0 for no such session
  messages,  \* the ops, each as the device that wrote it
  \* a machine
  doing,     \* doing[m]: the next step of its init, "idle" if none runs
  first,     \* first[m]: the device that enroll gave its init, 0 for none
  kept,      \* kept[m]: the session in its token store, 0 for none
  name,      \* name[m]: sync_device, 0 for none
  listed,    \* listed[m]: the device_id of its config, 0 for none
  got,       \* got[m]: the ops it has pulled
  passed,    \* passed[m]: its pull cursor
  slips,     \* what the bound counts
  astray     \* history: the machines left with a session in another's name

libraryLoginVars == <<verifier, members, bound, messages, doing, first, kept,
                      name, listed, got, passed, slips, astray>>

relaySide   == <<verifier, members, bound, messages>>
machineSide == <<first, kept, name, listed, got, passed>>

-----------------------------------------------------------------------------

Members == 1 .. Len(members)
Issued  == {t \in 1 .. MaxTokens : bound[t] # 0}

LibraryLoginInit ==
  /\ verifier = FALSE /\ members = <<>> /\ bound = [t \in 1 .. MaxTokens |-> 0]
  /\ messages = <<>>
  /\ doing = [m \in Machine |-> "idle"]
  /\ first = [m \in Machine |-> 0] /\ kept = [m \in Machine |-> 0]
  /\ name = [m \in Machine |-> 0] /\ listed = [m \in Machine |-> 0]
  /\ got = [m \in Machine |-> {}] /\ passed = [m \in Machine |-> 0]
  /\ slips = 0 /\ astray = {}

To(m, from, next) == doing[m] = from /\ doing' = [doing EXCEPT ![m] = next]

\* A device's row: created_at has a resolution of a second, so the new device
\* may or may not be newer than the last.
Joins(m) ==
  /\ Len(members) < MaxMembers
  /\ \E second \in IF members = <<>> THEN {1}
                   ELSE {members[Len(members)].born, members[Len(members)].born + 1} :
       members' = Append(members, [of |-> m, born |-> second])

\* ORDER BY created_at DESC LIMIT 1.
Newest == {d \in Members : \A e \in Members : members[e].born <= members[d].born}

\* The token store, which has one session for a server.
Keeps(m, t) == kept' = [kept EXCEPT ![m] = t]

-----------------------------------------------------------------------------
(* init: enroll, challenge, verify, register *)

\* srp_enroll: the library, its verifier and its first device.
InitEnrolls(m) ==
  /\ To(m, "idle", "enrolled")
  /\ IF verifier
       THEN first' = [first EXCEPT ![m] = 0] /\ UNCHANGED <<verifier, members>>
       ELSE /\ Joins(m) /\ verifier' = TRUE
            /\ first' = [first EXCEPT ![m] = 1]
  /\ UNCHANGED <<bound, messages, kept, name, listed, got, passed,
                 slips, astray>>

\* srp_challenge; wrong passphrases and the lockout are the subject of Login.
InitChallenges(m) ==
  /\ To(m, "enrolled", "challenged")
  /\ UNCHANGED <<relaySide, machineSide, slips, astray>>

\* srp_verify of the right passphrase: a session of the newest device.
InitVerifies(m) ==
  /\ To(m, "challenged", "verified")
  /\ \E t \in (1 .. MaxTokens) \ (Issued \cup {kept[n] : n \in Machine \ {m}}),
        d \in Newest :
       /\ bound' = [bound EXCEPT ![t] = d]
       /\ Keeps(m, t)
       /\ astray' = IF first[m] # 0 /\ d # first[m] THEN astray \cup {m}
                    ELSE astray
  /\ UNCHANGED <<verifier, members, messages, first, name, listed, got,
                 passed, slips>>

\* A faulty InitRegisters, to validate NothingIsHidden: the session stays with
\* the device it was issued for.
InitRegistersUnbound(m) ==
  /\ To(m, "verified", "registered")
  /\ first[m] = 0 /\ kept[m] \in Issued
  /\ Joins(m)
  /\ UNCHANGED <<verifier, bound, slips, astray, messages, machineSide>>

\* register with the session: a new device, and the session is bound to it; the
\* result of that statement is dropped.
InitRegisters(m) ==
  /\ To(m, "verified", "registered")
  /\ first[m] = 0 /\ kept[m] \in Issued
  /\ Joins(m)
  /\ \/ /\ bound' = [bound EXCEPT ![kept[m]] = Len(members) + 1]
        /\ UNCHANGED <<slips, astray>>
     \/ /\ slips < MaxSlips /\ slips' = slips + 1
        /\ astray' = astray \cup {m}
        /\ UNCHANGED bound
  /\ UNCHANGED <<verifier, messages, machineSide>>

\* The device that init was given: the last one of the machine.
Own(m) == {d \in Members : members[d].of = m}
Given(m) == CHOOSE d \in Own(m) : \A e \in Own(m) : e <= d

\* get_or_create_device_with_id: an identity that is there is kept.  The device
\* that enroll gave needs no registration.
InitNames(m) ==
  /\ To(m, IF first[m] # 0 THEN "verified" ELSE "registered", "named")
  /\ name' = [name EXCEPT ![m] = IF @ = 0 THEN Given(m) ELSE @]
  /\ UNCHANGED <<relaySide, first, kept, listed, got, passed, slips, astray>>

InitConfigures(m) ==
  /\ To(m, "named", "idle")
  /\ listed' = [listed EXCEPT ![m] = Given(m)]
  /\ first' = [first EXCEPT ![m] = 0]
  /\ UNCHANGED <<relaySide, kept, name, got, passed, slips, astray>>

\* A failed request, a lost answer, or the process is killed.
InitCut(m) ==
  /\ doing[m] # "idle" /\ doing' = [doing EXCEPT ![m] = "idle"]
  /\ slips < MaxSlips /\ slips' = slips + 1
  /\ astray' = IF doing[m] = "verified" THEN astray \cup {m} ELSE astray
  /\ first' = [first EXCEPT ![m] = 0]
  /\ UNCHANGED <<relaySide, kept, name, listed, got, passed>>

-----------------------------------------------------------------------------
(* push and pull, with the session of the token store (require_auth) *)

SessionRunsOut(t) ==
  /\ bound[t] # 0 /\ bound' = [bound EXCEPT ![t] = 0]
  /\ UNCHANGED <<verifier, members, messages, doing, machineSide,
                 slips, astray>>

Connected(m) == doing[m] = "idle" /\ listed[m] # 0 /\ kept[m] \in Issued

\* An op carries the machine's identity, whatever the session says.
MachinePushes(m) ==
  /\ Connected(m) /\ Len(messages) < MaxMessages
  /\ messages' = Append(messages, name[m])
  /\ UNCHANGED <<verifier, members, bound, doing, machineSide, slips,
                 astray>>

MachinePulls(m) ==
  /\ Connected(m)
  /\ LET page == {i \in passed[m] + 1 .. Len(messages) : messages[i] # bound[kept[m]]}
     IN  /\ page # {}
         /\ got' = [got EXCEPT ![m] = @ \cup page]
         /\ passed' = [passed EXCEPT ![m] = CHOOSE i \in page : \A j \in page : j <= i]
  /\ UNCHANGED <<relaySide, doing, first, kept, name, listed, slips, astray>>

LibraryLoginNext ==
  \/ \E m \in Machine :
       \/ InitEnrolls(m) \/ InitChallenges(m) \/ InitVerifies(m)
       \/ InitRegisters(m) \/ InitNames(m) \/ InitConfigures(m)
       \/ InitCut(m) \/ MachinePushes(m) \/ MachinePulls(m)
  \/ \E t \in 1 .. MaxTokens : SessionRunsOut(t)

LibraryLoginSpec == LibraryLoginInit /\ [][LibraryLoginNext]_libraryLoginVars

-----------------------------------------------------------------------------

LibraryLoginTypeOK ==
  /\ \A t \in Issued : bound[t] \in Members
  /\ \A m \in Machine :
       /\ listed[m] # 0 => name[m] # 0
       /\ {name[m], listed[m]} \ {0} \subseteq Own(m)
       /\ passed[m] \in 0 .. Len(messages) /\ got[m] \subseteq 1 .. passed[m]

(***************************************************************************)
(* What pull leaves out is the machine's own: every op that its cursor has *)
(* passed is its own or was pulled, however inits, expired sessions and    *)
(* repeated inits of the machines interleave.  Excepted are the machines   *)
(* that were left, at some time, with a session in another device's name:  *)
(* by an init cut off between the token and the registration, by a binding *)
(* that failed, or because another machine registered between the first    *)
(* machine's enrollment and its login.                                     *)
(***************************************************************************)
NothingIsHidden ==
  \A m \in Machine \ astray : \A i \in 1 .. passed[m] :
    i \in got[m] \/ messages[i] = name[m]

=============================================================================
