------------------------------- MODULE Devices -------------------------------
(***************************************************************************)
(* The devices of one account and one of its libraries: enrollment,        *)
(* approval by another device, device sessions, removal, and the disabling *)
(* of the user.                                                            *)
(*                                                                         *)
(* A call is authorised by require_user_auth when it arrives and then runs *)
(* on a pool thread; but for enroll_device, which is a transaction, its    *)
(* statements commit one by one, and any of them may be the last.  Foreign *)
(* keys are on: a device with a session cannot be deleted, and a session   *)
(* needs its device.                                                       *)
(***************************************************************************)
EXTENDS Naturals, FiniteSets

CONSTANTS
  Device,   \* the devices that ever enroll
  Call      \* the calls that run at the same time

VARIABLES
  device,    \* device[d]: absent, or devices.status, or gone
  tokens,    \* the devices with a row in sessions
  approvals, \* instance_config.device_approvals_required
  active,    \* users.status is active
  call,      \* call[k]: what the call k is doing
  disabling, \* where a set_user_status that disables the user stands
  strict,    \* history: enrolled while approvals were required
  approved,  \* history: made active by a decision
  decided,   \* history: decided[d], how often d was approved or rejected
  contested, \* history: read as pending by two calls at the same time
  slipped,   \* history: given a session while the user was disabled
  held       \* history: still has one that it had when the user was disabled

devicesVars == <<device, tokens, approvals, active, call, disabling, strict,
                 approved, decided, contested, slipped, held>>

devicesHistory == <<strict, approved, decided, contested, slipped, held>>

-----------------------------------------------------------------------------

NoCall == [kind |-> "none", on |-> {}, approve |-> FALSE, peers |-> FALSE,
           current |-> FALSE]

ActiveDevices == {d \in Device : device[d] = "active"}

DevicesInit ==
  /\ device = [d \in Device |-> "absent"] /\ tokens = {}
  /\ approvals \in BOOLEAN /\ active = TRUE
  /\ call = [k \in Call |-> NoCall] /\ disabling = "no"
  /\ strict = {} /\ approved = {} /\ contested = {} /\ slipped = {} /\ held = {}
  /\ decided = [d \in Device |-> 0]

OutdatedCalls == [k \in Call |-> [call[k] EXCEPT !.current = FALSE]]

\* The call k goes on as c; it has written, so no transaction that has read
\* before may still write.
Wrote(k, c) ==
  call' = [OutdatedCalls EXCEPT ![k] = c]

\* DELETE FROM sessions, those of the devices ds.
EndSessions(ds) ==
  tokens' = tokens \ ds /\ slipped' = slipped \ ds /\ held' = held \ ds

Arrives(k, c) ==
  /\ active /\ call[k] = NoCall
  /\ call' = [call EXCEPT ![k] = c]

-----------------------------------------------------------------------------
(* enroll_device *)

EnrollArrives(k) ==
  /\ Arrives(k, [NoCall EXCEPT !.kind = "enrolling"])
  /\ UNCHANGED <<device, tokens, approvals, active, disabling, devicesHistory>>

\* The transaction's reads: whether approvals are required, and by whom.
EnrollRead(k) ==
  /\ call[k].kind = "enrolling"
  /\ call' = [call EXCEPT ![k] =
       [NoCall EXCEPT !.kind = "enroll", !.peers = ActiveDevices # {},
                      !.approve = approvals, !.current = TRUE]]
  /\ UNCHANGED <<device, tokens, approvals, active, disabling, devicesHistory>>

\* A faulty EnrollCommit, to validate OneUnapproved: the number of active
\* devices is read outside the transaction.
EnrollCommitUnguarded(k, d) ==
  /\ call[k].kind = "enroll" /\ device[d] = "absent"
  /\ LET pending == call[k].approve /\ call[k].peers
     IN  /\ device' = [device EXCEPT ![d] = IF pending THEN "pending" ELSE "active"]
         /\ tokens' = IF pending THEN tokens ELSE tokens \cup {d}
         /\ slipped' = IF active \/ pending THEN slipped ELSE slipped \cup {d}
  /\ strict' = IF call[k].approve THEN strict \cup {d} ELSE strict
  /\ Wrote(k, NoCall)
  /\ UNCHANGED <<approvals, active, disabling, approved, decided, contested, held>>

\* Pending if approvals are required and another device is active, else
\* active and with a session.
EnrollCommit(k, d) ==
  /\ call[k].kind = "enroll" /\ call[k].current /\ device[d] = "absent"
  /\ LET pending == call[k].approve /\ call[k].peers
     IN  /\ device' = [device EXCEPT ![d] = IF pending THEN "pending" ELSE "active"]
         /\ tokens' = IF pending THEN tokens ELSE tokens \cup {d}
         /\ slipped' = IF active \/ pending THEN slipped ELSE slipped \cup {d}
  /\ strict' = IF call[k].approve THEN strict \cup {d} ELSE strict
  /\ Wrote(k, NoCall)
  /\ UNCHANGED <<approvals, active, disabling, approved, decided, contested, held>>

-----------------------------------------------------------------------------
(* approve_device *)

\* The calls that have read d as pending.
Deciding(d) == {k \in Call : call[k].kind = "decide" /\ call[k].on = {d}}

\* A faulty DecideRead, to validate DecidedOnce: a rejected device may be
\* decided again.
DecideReadAgain(k, d, approve) ==
  /\ device[d] \in {"pending", "rejected"}
  /\ Arrives(k, [NoCall EXCEPT !.kind = "decide", !.on = {d}, !.approve = approve])
  /\ contested' = IF Deciding(d) # {} THEN contested \cup {d} ELSE contested
  /\ UNCHANGED <<device, tokens, approvals, active, disabling, strict, approved,
                 decided, slipped, held>>

DecideRead(k, d, approve) ==
  /\ device[d] = "pending"
  /\ Arrives(k, [NoCall EXCEPT !.kind = "decide", !.on = {d}, !.approve = approve])
  /\ contested' = IF Deciding(d) # {} THEN contested \cup {d} ELSE contested
  /\ UNCHANGED <<device, tokens, approvals, active, disabling, strict, approved,
                 decided, slipped, held>>

\* UPDATE devices by id: a device deleted meanwhile is not there to update.
DecideWrite(k) ==
  /\ call[k].kind = "decide"
  /\ \E d \in call[k].on :
       /\ IF device[d] = "gone" THEN UNCHANGED <<device, decided, approved>>
          ELSE /\ device' = [device EXCEPT ![d] =
                    IF call[k].approve THEN "active" ELSE "rejected"]
               /\ decided' = [decided EXCEPT ![d] = @ + 1]
               /\ approved' = IF call[k].approve THEN approved \cup {d} ELSE approved
       /\ Wrote(k, IF call[k].approve THEN NoCall
                   ELSE [call[k] EXCEPT !.kind = "revoke"])
  /\ UNCHANGED <<tokens, approvals, active, disabling, strict, contested, slipped, held>>

\* "Defensive: drop any sessions for a rejected device."
DecideRevoke(k) ==
  /\ call[k].kind = "revoke"
  /\ EndSessions(call[k].on)
  /\ Wrote(k, NoCall)
  /\ UNCHANGED <<device, approvals, active, disabling, strict, approved, decided,
                 contested>>

-----------------------------------------------------------------------------
(* create_device_session, logout, expiry *)

SessionRead(k, d) ==
  /\ device[d] = "active"
  /\ Arrives(k, [NoCall EXCEPT !.kind = "session", !.on = {d}])
  /\ UNCHANGED <<device, tokens, approvals, active, disabling, devicesHistory>>

SessionWrite(k) ==
  /\ call[k].kind = "session"
  /\ \E d \in call[k].on :
       IF device[d] = "gone" THEN UNCHANGED <<tokens, slipped>>
       ELSE /\ tokens' = tokens \cup {d}
            /\ slipped' = IF active THEN slipped ELSE slipped \cup {d}
  /\ Wrote(k, NoCall)
  /\ UNCHANGED <<device, approvals, active, disabling, strict, approved, decided,
                 contested, held>>

\* device_logout of its last session, or DEVICE_SESSION_TTL_HOURS pass.
SessionEnds(d) ==
  /\ d \in tokens
  /\ EndSessions({d})
  /\ call' = OutdatedCalls
  /\ UNCHANGED <<device, approvals, active, disabling, strict, approved, decided,
                 contested>>

-----------------------------------------------------------------------------
(* delete_account_device, and delete_device by another device *)

RemoveRead(k, d) ==
  /\ device[d] \in {"pending", "active", "rejected"}
  /\ Arrives(k, [NoCall EXCEPT !.kind = "remove", !.on = {d}])
  /\ UNCHANGED <<device, tokens, approvals, active, disabling, devicesHistory>>

RemoveSessions(k) ==
  /\ call[k].kind = "remove"
  /\ EndSessions(call[k].on)
  /\ Wrote(k, [call[k] EXCEPT !.kind = "delete"])
  /\ UNCHANGED <<device, approvals, active, disabling, strict, approved, decided,
                 contested>>

\* It fails if a session was issued in between.
RemoveDevice(k) ==
  /\ call[k].kind = "delete"
  /\ \E d \in call[k].on :
       device' = IF d \in tokens THEN device ELSE [device EXCEPT ![d] = "gone"]
  /\ Wrote(k, NoCall)
  /\ UNCHANGED <<tokens, approvals, active, disabling, devicesHistory>>

\* One statement, authorised by the peer's own session; cursors follow.
RemoveByPeer(peer, d) ==
  /\ peer \in tokens \cap ActiveDevices /\ d # peer
  /\ device[d] \in {"pending", "active", "rejected"} /\ d \notin tokens
  /\ device' = [device EXCEPT ![d] = "gone"]
  /\ call' = OutdatedCalls
  /\ UNCHANGED <<tokens, approvals, active, disabling, devicesHistory>>

-----------------------------------------------------------------------------
(* The administrator: set_device_approvals, set_user_status. *)

SetApprovals ==
  /\ approvals' = ~approvals
  /\ call' = OutdatedCalls
  /\ UNCHANGED <<device, tokens, active, disabling, devicesHistory>>

\* UPDATE users; the user's own sessions have no part in this.  One such call runs
\* at a time, and of a disabled user it does nothing: the status is what it is.
DisableUser ==
  /\ active /\ disabling = "no"
  /\ active' = FALSE
  /\ disabling' = "sessions" /\ held' = tokens
  /\ call' = OutdatedCalls
  /\ UNCHANGED <<device, tokens, approvals, strict, approved, decided, contested, slipped>>

\* A faulty DisableSessions, to validate DisabledIsSignedOut: only the user's
\* own sessions go.
DisableSessionsOfUser ==
  /\ disabling = "sessions"
  /\ disabling' = "no"
  /\ call' = OutdatedCalls
  /\ UNCHANGED <<device, tokens, approvals, active, devicesHistory>>

\* DELETE FROM sessions of the user's devices.
DisableSessions ==
  /\ disabling = "sessions"
  /\ EndSessions(Device)
  /\ disabling' = "no"
  /\ call' = OutdatedCalls
  /\ UNCHANGED <<device, approvals, active, strict, approved, decided, contested>>

\* The server stops before that, or one of the two DELETEs fails: what the UPDATE
\* has committed stays.
DisableFails ==
  /\ disabling = "sessions"
  /\ disabling' = IF active THEN "no" ELSE "cut"
  /\ UNCHANGED <<device, tokens, approvals, active, call, devicesHistory>>

EnableUser ==
  /\ ~active
  /\ active' = TRUE /\ slipped' = {} /\ held' = {}
  /\ disabling' = IF disabling = "cut" THEN "no" ELSE disabling
  /\ call' = OutdatedCalls
  /\ UNCHANGED <<device, tokens, approvals, strict, approved, decided, contested>>

\* A transaction that lost its race, or a call that stops with the server.
CallFails(k) ==
  /\ call[k] # NoCall
  /\ call' = [call EXCEPT ![k] = NoCall]
  /\ UNCHANGED <<device, tokens, approvals, active, disabling, devicesHistory>>

DevicesNext ==
  \/ \E k \in Call :
       \/ EnrollArrives(k) \/ EnrollRead(k) \/ DecideWrite(k) \/ DecideRevoke(k) \/ SessionWrite(k)
       \/ RemoveSessions(k) \/ RemoveDevice(k) \/ CallFails(k)
       \/ \E d \in Device :
            \/ EnrollCommit(k, d) \/ SessionRead(k, d) \/ RemoveRead(k, d)
            \/ \E approve \in BOOLEAN : DecideRead(k, d, approve)
  \/ \E d \in Device : SessionEnds(d)
  \/ \E peer, d \in Device : RemoveByPeer(peer, d)
  \/ SetApprovals \/ DisableUser \/ DisableSessions \/ DisableFails \/ EnableUser

DevicesSpec == DevicesInit /\ [][DevicesNext]_devicesVars

-----------------------------------------------------------------------------

DevicesTypeOK ==
  /\ device \in [Device -> {"absent", "pending", "active", "rejected", "gone"}]
  /\ approvals \in BOOLEAN /\ active \in BOOLEAN /\ disabling \in {"no", "sessions", "cut"}
  /\ \A d \in tokens : device[d] \notin {"absent", "gone"}
  /\ \A d \in Device : device[d] = "rejected" => decided[d] > 0
  /\ slipped \subseteq tokens

(***************************************************************************)
(* enroll_device lets a device in without approval only while the library  *)
(* has no active one: of those enrolled while approvals were required, one *)
(* at most is active that nobody approved, however enrollments overlap.    *)
(***************************************************************************)
OneUnapproved ==
  Cardinality((ActiveDevices \cap strict) \ approved) <= 1

(***************************************************************************)
(* "device is '{status}', not pending approval" (approve_device): a device *)
(* is approved or rejected once, and a rejected one has no session, unless *)
(* two decisions had read it before either wrote.                          *)
(***************************************************************************)
DecidedOnce ==
  \A d \in Device \ contested :
    decided[d] <= 1 /\ (device[d] = "rejected" => d \notin tokens)

(***************************************************************************)
(* "Revoke active sessions when disabling ... every device sync session    *)
(* owned by the user" (set_user_status): from the moment a user is         *)
(* disabled a device gets a session only from a call that was authorised   *)
(* before, and no session is left of those there were, until the handler   *)
(* has deleted them; one that is cut off between its commits leaves them.  *)
(***************************************************************************)
DisabledIsSignedOut ==
  ~active => tokens \subseteq slipped \cup (IF disabling = "no" THEN {} ELSE held)

=============================================================================
