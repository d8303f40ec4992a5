------------------------------- MODULE KeyVault -------------------------------
(***************************************************************************)
(* The keys of an account, AccountKeys, and what is sealed with them.      *)
(*                                                                         *)
(* A password and the Secret Key unlock the private key of the account,    *)
(* the private key unwraps the data key, and the data key seals the fields *)
(* of ops and the snapshot.  The server keeps the bundle of the wrapped    *)
(* keys; a machine that logs in fetches it and unwraps the data key, which *)
(* it stores.  A rotation wraps the private key anew and nothing else; no  *)
(* command calls it yet, and here its bundle takes the place of the old.   *)
(*                                                                         *)
(* Keys, salts and nonces are drawn at random: each is the number of the   *)
(* draw.  A cipher is symbolic: what was sealed under a key opens under it *)
(* and under no other.  Encodings and versions are left out.               *)
(***************************************************************************)
EXTENDS Naturals, FiniteSets

CONSTANTS
  Member,    \* the accounts
  Machine,   \* the machines that log in
  Password,  \* what is typed as one, Blank perhaps
  Blank,     \* the empty password
  About,     \* entity type, entity id and op type of an op
  MaxDraws,  \* bound on the draws
  MaxSealed  \* bound on what is sealed

ASSUME KeyVaultAssumption == MaxDraws \in Nat /\ MaxSealed \in Nat

VARIABLES
  bundles,   \* bundles[a]: the AccountKeys of the account, a set of none or one
  kit,       \* kit[a]: the password and Secret Key that its owner has, likewise
  fetched,   \* fetched[m]: the account and the bundle that a login has fetched, likewise
  keyring,   \* keyring[m]: the account it has logged in to and the stored key, likewise
  envelopes, \* what the server holds sealed, and for which account
  draws,     \* the random draws so far
  sealings,  \* history: what was sealed: by which account, about what, the plaintext
  readings   \* history: what was opened, and what it was taken for

keyVaultVars == <<bundles, kit, fetched, keyring, envelopes, draws, sealings, readings>>

KeyVaultInit ==
  /\ bundles = [a \in Member |-> {}] /\ kit = [a \in Member |-> {}]
  /\ fetched = [m \in Machine |-> {}] /\ keyring = [m \in Machine |-> {}]
  /\ envelopes = {} /\ draws = 0 /\ sealings = {} /\ readings = {}

-----------------------------------------------------------------------------
(* The primitives. *)

\* AES-GCM with associated data.
Seal(key, aad, text) == [key |-> key, aad |-> aad, text |-> text]

\* The plaintext, or nothing under another key or with other associated data.
Unseal(key, aad, box) == IF box.key = key /\ box.aad = aad THEN {box.text} ELSE {}

\* X25519: a public key, and what two parties agree on, the same on either side.
Public(private) == [of |-> private]
Agreed(private, public) == {private, public.of}

\* Argon2id of the password, hashed with the Secret Key.
UnlockKey(credentials, salt) ==
  [password |-> credentials.password, secret |-> credentials.secret, salt |-> salt]

WrapKey(shared, salt) == [shared |-> shared, salt |-> salt]

PrivateKeyAad == <<"account-private-key">>
DataKeyAad(ephemeral, salt) == <<"data key", ephemeral, salt>>
OpAad(about) == <<"op", about>>
SnapshotAad == <<"snapshot">>

-----------------------------------------------------------------------------
(* The bundle. *)

\* Fresh keys and a fresh salt for the agreement, of the draw n.
WrapDataKey(key, public, n) ==
  [ephemeral |-> Public(n), salt |-> n,
   box |-> Seal(WrapKey(Agreed(n, public), n), DataKeyAad(Public(n), n), key)]

UnwrapDataKey(wrapped, private) ==
  Unseal(WrapKey(Agreed(private, wrapped.ephemeral), wrapped.salt),
       DataKeyAad(wrapped.ephemeral, wrapped.salt), wrapped.box)

WrapPrivateKey(credentials, salt, private) ==
  Seal(UnlockKey(credentials, salt), PrivateKeyAad, private)

\* An empty password derives no key.
UnwrapPrivateKey(bundle, credentials) ==
  IF credentials.password = Blank THEN {}
  ELSE Unseal(UnlockKey(credentials, bundle.salt), PrivateKeyAad, bundle.private)

\* The salt, the private key and the data key are of the draw n, the wrapping of
\* the data key of the draw n + 1.
CreatedKeys(credentials, n) ==
  [salt |-> n, public |-> Public(n), private |-> WrapPrivateKey(credentials, n, n),
   data |-> WrapDataKey(n, Public(n), n + 1)]

\* The private key must be that of the bundle's public key.
UnlockDataKey(bundle, credentials) ==
  UNION {IF Public(private) = bundle.public THEN UnwrapDataKey(bundle.data, private) ELSE {} :
         private \in UnwrapPrivateKey(bundle, credentials)}

-----------------------------------------------------------------------------
(* Accounts and logins. *)

\* What is typed as a Secret Key: one that was ever issued, or 0, one with a typo
\* that the checksum happens to fit; another typo is refused before it is used.
Typed == 0 .. MaxDraws
Credentials == [password : Password, secret : Typed]

\* signup: a fresh Secret Key, AccountKeys::create, and the data key stored.
SignUp(a, m, password) ==
  LET credentials == [password |-> password, secret |-> draws + 1] IN
  /\ bundles[a] = {} /\ password # Blank /\ draws + 2 <= MaxDraws
  /\ draws' = draws + 2
  /\ bundles' = [bundles EXCEPT ![a] = {CreatedKeys(credentials, draws + 1)}]
  /\ kit' = [kit EXCEPT ![a] = {credentials}]
  /\ keyring' = [keyring EXCEPT ![m] = {[of |-> a, key |-> draws + 1]}]
  /\ UNCHANGED <<fetched, envelopes, sealings, readings>>

\* login and enroll fetch the bundle and unlock it in two steps.
FetchBundle(m, a) ==
  /\ fetched[m] = {} /\ bundles[a] # {}
  /\ fetched' = [fetched EXCEPT ![m] = {[of |-> a, bundle |-> b] : b \in bundles[a]}]
  /\ UNCHANGED <<bundles, kit, keyring, envelopes, draws, sealings, readings>>

Unlock(m, credentials) ==
  \E f \in fetched[m] :
    LET keys == UnlockDataKey(f.bundle, credentials) IN
    /\ keyring' = IF keys = {} THEN keyring
                  ELSE [keyring EXCEPT ![m] = {[of |-> f.of, key |-> k] : k \in keys}]
    /\ fetched' = [fetched EXCEPT ![m] = {}]
    /\ UNCHANGED <<bundles, kit, envelopes, draws, sealings, readings>>

\* A faulty Rewrapped, to validate KeysOpenTheLibrary: the old salt is stored.
RewrappedUnsalted(bundle, private, credentials, n) ==
  [salt |-> bundle.salt, public |-> bundle.public,
   private |-> WrapPrivateKey(credentials, n, private), data |-> bundle.data]

\* The bundle with the private key under other credentials and a fresh salt.
Rewrapped(bundle, private, credentials, n) ==
  [salt |-> n, public |-> bundle.public,
   private |-> WrapPrivateKey(credentials, n, private), data |-> bundle.data]

\* rotate_unlock_credentials.  The old credentials must open the bundle; the new
\* ones are a password and the same Secret Key, or a fresh one.
Rotate(a, old, password) ==
  /\ password # Blank /\ draws < MaxDraws
  /\ \E bundle \in bundles[a] : \E private \in UnwrapPrivateKey(bundle, old) :
       \E secret \in {old.secret, draws + 1} :
         LET credentials == [password |-> password, secret |-> secret] IN
         /\ bundles' = [bundles EXCEPT ![a] = {Rewrapped(bundle, private, credentials, draws + 1)}]
         /\ kit' = [kit EXCEPT ![a] = {credentials}]
  /\ draws' = draws + 1
  /\ UNCHANGED <<fetched, keyring, envelopes, sealings, readings>>

-----------------------------------------------------------------------------
(* Ops and snapshots. *)

Sealed(m, aad) ==
  \E k \in keyring[m] :
    LET text == Cardinality(sealings) + 1 IN
    /\ text <= MaxSealed
    /\ envelopes' = envelopes \cup {[of |-> k.of, box |-> Seal(k.key, aad, text)]}
    /\ sealings' = sealings \cup {[of |-> k.of, as |-> aad, text |-> text]}
    /\ UNCHANGED <<bundles, kit, fetched, keyring, draws, readings>>

\* push: SyncOp::encrypt and encrypt_fields, bound to what the op is about.
EncryptOp(m, about) == Sealed(m, OpAad(about))

\* encrypt_snapshot.
EncryptSnapshot(m) == Sealed(m, SnapshotAad)

\* What the machine m reads of a box that it gets for aad.
Reads(m, box, aad) ==
  \E k \in keyring[m] :
    /\ readings' = readings \cup {[of |-> k.of, as |-> aad, text |-> text] : text \in Unseal(k.key, aad, box)}
    /\ UNCHANGED <<bundles, kit, fetched, keyring, envelopes, draws, sealings>>

\* A faulty DecryptOp, to validate OpenedAsSealed: the envelope's own associated
\* data is taken for the op's.
DecryptOpUnbound(m, box, about) ==
  \E k \in keyring[m] :
    /\ readings' = readings \cup {[of |-> k.of, as |-> OpAad(about), text |-> text] :
                                  text \in Unseal(k.key, box.aad, box)}
    /\ UNCHANGED <<bundles, kit, fetched, keyring, envelopes, draws, sealings>>

\* pull: from_wire, SyncOp::decrypt and decrypt_fields.  The associated data is
\* computed from the row that the payload came in.
DecryptOp(m, box, about) == Reads(m, box, OpAad(about))

\* decrypt_snapshot.
DecryptSnapshot(m, box) == Reads(m, box, SnapshotAad)

KeyVaultNext ==
  \/ \E a \in Member : \E password \in Password :
       \/ \E m \in Machine : SignUp(a, m, password)
       \/ \E old \in Credentials : Rotate(a, old, password)
  \/ \E m \in Machine :
       \/ \E a \in Member : FetchBundle(m, a)
       \/ \E credentials \in Credentials : Unlock(m, credentials)
       \/ \E about \in About : EncryptOp(m, about)
       \/ EncryptSnapshot(m)
       \/ \E e \in envelopes :
            \/ \E about \in About : DecryptOp(m, e.box, about)
            \/ DecryptSnapshot(m, e.box)

KeyVaultSpec == KeyVaultInit /\ [][KeyVaultNext]_keyVaultVars

-----------------------------------------------------------------------------

(***************************************************************************)
(* However often its credentials are changed, an account has one data key. *)
(* The credentials of its owner open the bundle that the server has, and   *)
(* no others do, those from before the last change included.  What they    *)
(* open is the key that every machine has stored that is logged in to the  *)
(* account, with whichever bundle it did that, and the key under which     *)
(* everything in the library was sealed, before a change or after it.      *)
(***************************************************************************)
KeysOpenTheLibrary ==
  \A a \in Member : \A bundle \in bundles[a] : \A owned \in kit[a] :
    LET keys == UnlockDataKey(bundle, owned) IN
    /\ keys # {}
    /\ \A c \in Credentials : UnlockDataKey(bundle, c) # {} => c = owned
    /\ \A m \in Machine : \A k \in keyring[m] : k.of = a => k.key \in keys
    /\ \A e \in envelopes : e.of = a => e.box.key \in keys

(***************************************************************************)
(* A machine that opens an envelope reads what was sealed for its account  *)
(* as exactly that: the fields of an op are not taken for those of another *)
(* entity or operation, nor for a snapshot, in whichever row they come.    *)
(***************************************************************************)
OpenedAsSealed == readings \subseteq sealings

=============================================================================
