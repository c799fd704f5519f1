--------------------------- MODULE CredentialKeys ---------------------------
(***************************************************************************)
(* Stored credentials and the rotation of the key that seals them: the     *)
(* handlers of CredentialService in any number of API processes, and the   *)
(* re-encryption worker.                                                   *)
(*                                                                         *)
(* A process is started with a current key version and reads secrets       *)
(* sealed under it or under the one before.  An envelope names the version *)
(* it was sealed under; key_version repeats it in a column of its own, and *)
(* an UPDATE of the ORM writes the columns it has changed and no others.   *)
(***************************************************************************)
EXTENDS Naturals, FiniteSets

CONSTANTS
    Credentials,    \* numbers: the order of updated_at
    Servers,        \* API processes
    RekeyBatch,     \* CREDENTIAL_REKEY_BATCH
    LastKey,        \* bound of the model: the key versions
    Rolling         \* the API processes are restarted one by one

ASSUME KeyAssumption ==
    /\ Credentials \subseteq Nat
    /\ RekeyBatch \in Nat /\ LastKey \in Nat \ {0} /\ Rolling \in BOOLEAN
    /\ Servers # {}

VARIABLES
    credential,     \* credential[s]: the committed row of s
    serverKey,      \* serverKey[p]: CREDENTIAL_KEY_VERSION of p
    workerKey,      \* that of the worker
    retired,        \* the versions of the registry marked retired
    rotating,       \* rotating[p]: the row rotate() has read in p
    rekey           \* the tick of the worker

keyRows == <<credential, retired>>
keyVars == <<keyRows, serverKey, workerKey, rotating, rekey>>

KeyVersions == 1..LastKey

\* seal: the version in the envelope; label: the column
Sealed == [seal : KeyVersions, label : KeyVersions]
NoCredential == [seal |-> 0, label |-> 0]
NoRotation == [on |-> 0, read |-> NoCredential]

KeyTypeOK ==
    /\ credential \in [Credentials -> Sealed \cup {NoCredential}]
    /\ serverKey \in [Servers -> KeyVersions] /\ workerKey \in KeyVersions
    /\ retired \subseteq KeyVersions
    /\ rotating \in [Servers -> {NoRotation} \cup [on : Credentials, read : Sealed]]
    /\ rekey \in [at : {"idle", "listed", "written"}, batch : SUBSET Credentials]

KeyInit ==
    /\ credential = [s \in Credentials |-> NoCredential]
    /\ serverKey = [p \in Servers |-> 1] /\ workerKey = 1
    /\ retired = {}
    /\ rotating = [p \in Servers |-> NoRotation]
    /\ rekey = [at |-> "idle", batch |-> {}]

Stored == {s \in Credentials : credential[s] # NoCredential}
Stale_Older(key) == {s \in Stored : credential[s].label < key - 1}
Stale(key) == {s \in Stored : credential[s].label # key}

\* decrypt_secret(): the current key, or the previous one
Reads(key, seal) == seal \in {key, key - 1}

-----------------------------------------------------------------------------
(* CredentialService.                                                      *)

CreateCredential(p, s) ==
    /\ s \notin Stored
    /\ credential' = [credential EXCEPT ![s] =
                         [seal |-> serverKey[p], label |-> serverKey[p]]]
    /\ UNCHANGED <<serverKey, workerKey, retired, rotating, rekey>>

\* rotate(): a secret sealed under another version raises
ReadForRotation(p, s) ==
    /\ rotating[p] = NoRotation
    /\ s \in Stored /\ Reads(serverKey[p], credential[s].seal)
    /\ rotating' = [rotating EXCEPT ![p] = [on |-> s, read |-> credential[s]]]
    /\ UNCHANGED <<credential, serverKey, workerKey, retired, rekey>>

\* what an UPDATE leaves, by a process that has read the row and seals with key
Resealed(row, read, key) ==
    [seal |-> key, label |-> IF read.label = key THEN row.label ELSE key]

WriteRotation(p) ==
    /\ rotating[p] # NoRotation
    /\ credential' = [credential EXCEPT ![rotating[p].on] =
                         Resealed(@, rotating[p].read, serverKey[p])]
    /\ rotating' = [rotating EXCEPT ![p] = NoRotation]
    /\ UNCHANGED <<serverKey, workerKey, retired, rekey>>

-----------------------------------------------------------------------------
(* CredentialWorker.rekey_tick().                                          *)

\* list_stale_key(): oldest first; a row that cannot be decrypted is skipped
ListStale ==
    /\ rekey.at = "idle"
    /\ rekey' = [at |-> "listed",
                 batch |-> {s \in Stale(workerKey) :
                     /\ Cardinality({x \in Stale(workerKey) : x < s}) < RekeyBatch
                     /\ Reads(workerKey, credential[s].seal)}]
    /\ UNCHANGED <<keyRows, serverKey, workerKey, rotating>>

Rekey_LabelOnly ==
    /\ rekey.at = "listed"
    /\ credential' = [s \in Credentials |->
          IF s \in rekey.batch THEN [credential[s] EXCEPT !.label = workerKey] ELSE credential[s]]
    /\ rekey' = [rekey EXCEPT !.at = "written"]
    /\ UNCHANGED <<serverKey, workerKey, retired, rotating>>

\* what was decrypted is sealed again, in one commit and by primary key: also
\* over what a rotate() has stored meanwhile
Rekey ==
    /\ rekey.at = "listed"
    /\ credential' = [s \in Credentials |->
          IF s \in rekey.batch
          THEN [seal |-> workerKey, label |-> workerKey] ELSE credential[s]]
    /\ rekey' = [rekey EXCEPT !.at = "written"]
    /\ UNCHANGED <<serverKey, workerKey, retired, rotating>>

\* count_stale_key() over all rows, then retire_key_version()
RetirePrevious ==
    /\ rekey.at = "written"
    /\ retired' = IF Stale(workerKey) = {} THEN retired \cup ({workerKey - 1} \ {0})
                  ELSE retired
    /\ rekey' = [at |-> "idle", batch |-> {}]
    /\ UNCHANGED <<credential, serverKey, workerKey, rotating>>

\* the process dies, or the commit fails
RekeyDies ==
    /\ rekey.at # "idle"
    /\ rekey' = [at |-> "idle", batch |-> {}]
    /\ UNCHANGED <<keyRows, serverKey, workerKey, rotating>>

-----------------------------------------------------------------------------
(* The operator introduces a key when the one before the current has been  *)
(* retired, on the API processes first and on the worker last.             *)

Introducible(key) == key \in KeyVersions /\ (key = 2 \/ key - 2 \in retired)

Restarted(P) ==
    /\ serverKey' = [p \in Servers |-> IF p \in P THEN workerKey + 1 ELSE serverKey[p]]
    /\ rotating' = [p \in Servers |-> IF p \in P THEN NoRotation ELSE rotating[p]]

RestartServers ==
    /\ Introducible(workerKey + 1)
    /\ LET old == {p \in Servers : serverKey[p] = workerKey}
       IN  /\ old # {}
           /\ IF Rolling THEN \E p \in old : Restarted({p}) ELSE Restarted(old)
    /\ UNCHANGED <<keyRows, workerKey, rekey>>

RestartWorker ==
    /\ \A p \in Servers : serverKey[p] = workerKey + 1
    /\ workerKey' = workerKey + 1
    /\ rekey' = [at |-> "idle", batch |-> {}]
    /\ UNCHANGED <<keyRows, serverKey, rotating>>

RekeyStep == ListStale \/ Rekey \/ RetirePrevious

KeyNext ==
    \/ \E p \in Servers :
          \/ \E s \in Credentials : CreateCredential(p, s) \/ ReadForRotation(p, s)
          \/ WriteRotation(p)
    \/ RekeyStep \/ RekeyDies \/ RestartServers \/ RestartWorker

\* run_loop() ticks for ever; a restart that was begun is finished
KeyFairness == SF_keyVars(Rekey) /\ SF_keyVars(RetirePrevious) /\ WF_keyVars(ListStale)
               /\ WF_keyVars(RestartWorker)

KeySpec == KeyInit /\ [][KeyNext]_keyVars /\ KeyFairness

-----------------------------------------------------------------------------
\* retire_key_version(): "safe once no rows reference it", and "while
\* CREDENTIALS_ENC_KEY_PREVIOUS keeps old rows readable": nothing is sealed under
\* a version that is shown as retired, and the processes of the newest key read
\* every secret, whoever rotates meanwhile and wherever a tick stops.
SecretsReadable ==
    \A s \in Stored :
        /\ credential[s].seal \notin retired
        /\ \A p \in Servers : (\A q \in Servers : serverKey[q] <= serverKey[p])
                              => Reads(serverKey[p], credential[s].seal)

\* rekey_tick(): every row comes under the key of the worker and stays there,
\* batch by batch, though requests rotate secrets under the key they run with
\* (there are LastKey keys in a behaviour).
RekeyCompletes == <>[](\A s \in Stored : credential[s].label >= workerKey)
=============================================================================
